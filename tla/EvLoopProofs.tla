---------------------------- MODULE EvLoopProofs ----------------------------
(***************************************************************************)
(* Proofs about ev_run, for every finite set of watchers and any depth of  *)
(* nested calls.                                                           *)
(***************************************************************************)
EXTENDS EvLoop, DataStructureProofs

-----------------------------------------------------------------------------
\* Sequences of frames.

\* A step replaces the phase or the callback of the innermost frame.
LEMMA ReplaceTop ==
  ASSUME NEW s \in Seq(Frame), s # <<>>, NEW f \in Frame
  PROVE  LET t == [s EXCEPT ![Len(s)] = f]
         IN  /\ t \in Seq(Frame) /\ Len(t) = Len(s) /\ t # <<>>
             /\ t[Len(s)] = f
             /\ \A i \in 1 .. Len(s) - 1 : t[i] = s[i]
<1>1. Len(s) \in 1 .. Len(s)
  BY EmptySeq
<1> QED BY <1>1, ExceptSeq, EmptySeq

\* The innermost frame is one of them.
LEMMA TopFrame ==
  ASSUME runs \in Seq(Frame), runs # <<>>
  PROVE  Depth \in 1 .. Depth /\ Top \in Frame
<1>1. Depth \in 1 .. Depth
  BY EmptySeq DEF Depth
<1> QED BY <1>1 DEF Top, Depth

\* Goto changes the phase of the innermost frame only.
LEMMA GotoTop ==
  ASSUME runs \in Seq(Frame), runs # <<>>, NEW pc,
         pc \in Invoking \cup {"top", "poll", "gather", "finish"}, Goto(pc)
  PROVE  /\ runs' \in Seq(Frame) /\ Depth' = Depth /\ runs' # <<>>
         /\ Top' = [Top EXCEPT !.pc = pc]
         /\ Top'.pc = pc /\ Top'.cb = Top.cb
         /\ \A i \in 1 .. Depth - 1 : runs'[i] = runs[i]
<1>1. Depth \in 1 .. Depth /\ Top \in Frame
  BY TopFrame
<1> DEFINE f == [Top EXCEPT !.pc = pc]
<1>2. f \in Frame /\ f.pc = pc /\ f.cb = Top.cb
  BY <1>1 DEF Frame
<1>3. runs' = [runs EXCEPT ![Depth] = f]
  BY DEF Goto, Top
<1> HIDE DEF f
<1> QED BY <1>2, <1>3, ReplaceTop DEF Depth, Top, f

\* Callbacks run only in the phases that call ev_invoke_pending, and every
\* ev_run but the innermost one is in a callback.
FramesInv ==
  /\ runs \in Seq(Frame)
  /\ \A i \in 1 .. Depth : /\ runs[i].cb # pending_w => runs[i].pc \in Invoking
                           /\ i < Depth => runs[i].cb # pending_w

Phases == Invoking \cup {"top", "poll", "gather", "finish"}

\* an ev_run, not necessarily the innermost one, is in phase pc
InPhase(pc) == \E i \in 1 .. Depth : runs[i].pc = pc

\* A step that leads to no phase but those of A
Leads(A) ==
  /\ FramesInv'
  /\ \A pc \in Phases : At(pc)' => pc \in A
  /\ \A pc \in Phases : InPhase(pc)' => InPhase(pc) \/ At(pc)'

LEMMA GotoFrames ==
  ASSUME FramesInv, runs # <<>>, Top.cb = pending_w, NEW pc \in Phases, Goto(pc)
  PROVE  Leads({pc})
<1>1. /\ runs' \in Seq(Frame) /\ Depth' = Depth /\ runs' # <<>>
      /\ Top'.pc = pc /\ Top'.cb = Top.cb
      /\ \A i \in 1 .. Depth - 1 : runs'[i] = runs[i]
  BY GotoTop DEF FramesInv, Phases
<1>2. Depth \in 1 .. Depth /\ Depth \in Nat
  BY TopFrame DEF FramesInv
<1>3. runs'[Depth].cb = pending_w /\ runs'[Depth].pc = pc
  BY <1>1 DEF Top
<1>4. FramesInv'
  BY <1>1, <1>2, <1>3 DEF FramesInv
<1>5. At(pc)' /\ \A x \in Phases : At(x)' => x = pc
  BY <1>1 DEF At
<1>6. ASSUME NEW x \in Phases, InPhase(x)' PROVE InPhase(x) \/ At(x)'
  <2>1. PICK i \in 1 .. Depth : runs'[i].pc = x
    BY <1>1, <1>6 DEF InPhase
  <2>2. CASE i = Depth
    BY <1>3, <1>5, <2>1, <2>2
  <2>3. CASE i # Depth
    BY <1>1, <1>2, <2>1, <2>3 DEF InPhase
  <2> QED BY <2>2, <2>3
<1> QED BY <1>4, <1>5, <1>6 DEF Leads

\* A callback is called, or returns.
LEMMA CbFrames ==
  ASSUME FramesInv, runs # <<>>, NEW cb \in Watchers \cup {pending_w},
         runs' = [runs EXCEPT ![Depth].cb = cb], Top.pc \in Invoking
  PROVE  /\ Leads(Invoking) /\ Depth' = Depth
         /\ \A pc \in Phases : InPhase(pc)' => InPhase(pc)
<1> DEFINE f == [Top EXCEPT !.cb = cb]
<1>1. Depth \in 1 .. Depth /\ Depth \in Nat /\ Top \in Frame
  BY TopFrame DEF FramesInv
<1>2. f \in Frame /\ f.pc = Top.pc
  BY <1>1 DEF Frame
<1>3. runs' = [runs EXCEPT ![Depth] = f]
  BY DEF Top
<1>4. /\ runs' \in Seq(Frame) /\ Depth' = Depth /\ runs' # <<>>
      /\ runs'[Depth] = f
      /\ \A i \in 1 .. Depth - 1 : runs'[i] = runs[i]
  <2> HIDE DEF f
  <2> QED BY <1>2, <1>3, ReplaceTop DEF Depth, FramesInv
<1> HIDE DEF f
<1>5. \A i \in 1 .. Depth' : /\ runs'[i].cb # pending_w => runs'[i].pc \in Invoking
                             /\ i < Depth' => runs'[i].cb # pending_w
  <2> TAKE i \in 1 .. Depth'
  <2>1. CASE i = Depth
    <3>1. runs'[i].pc \in Invoking
      BY <1>2, <1>4, <2>1
    <3>2. ~(i < Depth')
      BY <1>1, <1>4, <2>1
    <3> QED BY <3>1, <3>2
  <2>2. CASE i \in 1 .. Depth - 1
    BY <1>1, <1>4, <2>2 DEF FramesInv
  <2> QED BY <1>1, <1>4, <2>1, <2>2
<1>6. FramesInv'
  BY <1>4, <1>5 DEF FramesInv
<1>7. \A x \in Phases : At(x)' => x \in Invoking
  BY <1>2, <1>4 DEF At, Top
<1>8. \A i \in 1 .. Depth : runs'[i].pc = runs[i].pc
  <2>1. runs'[Depth].pc = runs[Depth].pc
    BY <1>2, <1>4 DEF Top
  <2> QED BY <1>1, <1>4, <2>1
<1>9. \A x \in Phases : InPhase(x)' => InPhase(x)
  BY <1>4, <1>8 DEF InPhase
<1> QED BY <1>4, <1>6, <1>7, <1>9 DEF Leads

\* ev_run is called.
LEMMA EvRunFrames ==
  ASSUME FramesInv, NEW flags \in RunFlags, EvRun(flags)
  PROVE  Leads({"first"}) /\ Depth \in Nat /\ Depth' = Depth + 1
<1> DEFINE f == [flags |-> flags, cb |-> pending_w, pc |-> "first"]
<1>1. f \in Frame
  BY DEF Frame, Invoking
<1>2. /\ runs' \in Seq(Frame) /\ Depth \in Nat /\ Depth' = Depth + 1 /\ runs' # <<>>
      /\ \A i \in 1 .. Depth : runs'[i] = runs[i]
      /\ runs'[Depth'] = f
  <2>1. runs' = Append(runs, f)
    BY DEF EvRun
  <2> HIDE DEF f
  <2> QED BY <1>1, <2>1, AppendProperties DEF FramesInv, Depth
<1>3. At("first")' /\ \A x \in Phases : At(x)' => x = "first"
  BY <1>2 DEF At, Top
<1>4. Depth # 0 => runs[Depth].cb # pending_w
  BY DEF EvRun, InUserCode, Top, Depth
<1>5. \A i \in 1 .. Depth' : /\ runs'[i].cb # pending_w => runs'[i].pc \in Invoking
                             /\ i < Depth' => runs'[i].cb # pending_w
  BY <1>2, <1>4 DEF FramesInv
<1>6. FramesInv'
  BY <1>2, <1>5 DEF FramesInv
<1>7. ASSUME NEW x \in Phases, InPhase(x)' PROVE InPhase(x) \/ At(x)'
  <2>1. PICK i \in 1 .. Depth' : runs'[i].pc = x
    BY <1>7 DEF InPhase
  <2>2. CASE i = Depth'
    BY <1>2, <1>3, <2>1, <2>2
  <2>3. CASE i # Depth'
    BY <1>2, <2>1, <2>3 DEF InPhase
  <2> QED BY <2>2, <2>3
<1> QED BY <1>2, <1>3, <1>6, <1>7 DEF Leads

\* ev_run returns.
LEMMA FinishFrames ==
  ASSUME FramesInv, Finish
  PROVE  Leads({}) /\ Depth \in Nat \ {0} /\ Depth' = Depth - 1
<1>1. Depth \in 1 .. Depth /\ Depth \in Nat
  BY TopFrame DEF FramesInv, Finish, At
<1>2. /\ runs' \in Seq(Frame) /\ Depth' = Depth - 1
      /\ \A i \in 1 .. Depth - 1 : runs'[i] = runs[i]
  <2>1. runs' = SubSeq(runs, 1, Depth - 1)
    BY DEF Finish, Front, Depth
  <2>2. \A i \in 1 .. Depth - 1 : runs[i] \in Frame
    BY <1>1 DEF FramesInv, Depth
  <2>3. Len(SubSeq(runs, 1, Depth - 1)) = Depth - 1
    BY <1>1, <2>2, SubSeqProperties
  <2>4. \A i \in 1 .. Depth - 1 : SubSeq(runs, 1, Depth - 1)[i] = runs[i]
    BY <1>1, <2>2, SubSeqProperties
  <2>5. SubSeq(runs, 1, Depth - 1) \in Seq(Frame)
    BY <1>1, <2>2, SubSeqProperties
  <2> QED BY <2>1, <2>3, <2>4, <2>5 DEF Depth
<1>3. \A x \in Phases : ~At(x)'
  <2>1. CASE runs' = <<>>
    BY <2>1 DEF At
  <2>2. CASE Depth' \in 1 .. Depth - 1
    BY <1>1, <1>2, <2>2 DEF At, Top, FramesInv
  <2> QED BY <1>1, <1>2, <2>1, <2>2, EmptySeq DEF Depth
<1>4. \A i \in 1 .. Depth' : /\ runs'[i].cb # pending_w => runs'[i].pc \in Invoking
                             /\ i < Depth' => runs'[i].cb # pending_w
  BY <1>1, <1>2 DEF FramesInv
<1>5. FramesInv'
  BY <1>2, <1>4 DEF FramesInv
<1>6. \A x \in Phases : InPhase(x)' => InPhase(x)
  BY <1>1, <1>2 DEF InPhase
<1> QED BY <1>1, <1>2, <1>3, <1>5, <1>6 DEF Leads

-----------------------------------------------------------------------------
\* ev_break.

\* What ties loop_done to the frames that have to return.
BreakInv ==
  /\ FramesInv
  /\ broken \subseteq 1 .. Depth
  /\ loop_done \in Hows \cup {"EVBREAK_RECURSE"}
  /\ loop_done \in {"EVBREAK_CANCEL", "EVBREAK_RECURSE"} => broken = {}
  /\ loop_done = "EVBREAK_ONE" => broken \subseteq {Depth}
  /\ ~NDEBUG /\ At("poll") => loop_done = "EVBREAK_RECURSE"

LEMMA InitBreakInv == Init => BreakInv
  BY DEF Init, BreakInv, FramesInv, Depth, Hows, At

\* A step to another phase outside of the poll
LEMMA PhaseBreakInv ==
  ASSUME BreakInv, runs # <<>>, Top.cb = pending_w, NEW pc, Goto(pc),
         pc \in Invoking \cup {"top", "gather", "finish"},
         UNCHANGED <<loop_done, broken>>
  PROVE  BreakInv' /\ ~At("poll")'
<1>1. Leads({pc})
  BY GotoFrames DEF BreakInv, Phases
<1>2. FramesInv' /\ ~At("poll")'
  BY <1>1 DEF Leads, Phases, Invoking
<1>3. Depth' = Depth
  BY GotoTop DEF BreakInv, FramesInv
<1> QED BY <1>2, <1>3 DEF BreakInv

\* Break, by a callback or by the thread that has the loop during the poll
LEMMA BreakBreakInv ==
  ASSUME BreakInv, NEW how \in Hows, Break(how), UNCHANGED runs,
         NDEBUG \/ ~At("poll")
  PROVE  BreakInv' /\ (At("poll")' => At("poll"))
<1>1. Depth' = Depth /\ Depth \in Nat
  BY DEF Depth, BreakInv, FramesInv
<1>2. (At("poll")' <=> At("poll")) /\ FramesInv'
  BY DEF At, Top, Depth, BreakInv, FramesInv
<1>3. CASE how = "EVBREAK_CANCEL"
  BY <1>1, <1>2, <1>3 DEF BreakInv, Break, Hows
<1>4. CASE how = "EVBREAK_ONE"
  BY <1>1, <1>2, <1>4 DEF BreakInv, Break, Hows
<1>5. CASE how = "EVBREAK_ALL"
  BY <1>1, <1>2, <1>5 DEF BreakInv, Break, Hows
<1> QED BY <1>3, <1>4, <1>5 DEF Hows

\* A step that does not touch what the invariant is about
LEMMA OtherBreakInv ==
  ASSUME BreakInv, UNCHANGED <<runs, loop_done, broken>>
  PROVE  BreakInv' /\ (At("poll")' => At("poll"))
  BY DEF BreakInv, FramesInv, At, Top, Depth

\* A callback is called, or returns.
LEMMA CbBreakInv ==
  ASSUME BreakInv, runs # <<>>, NEW cb \in Watchers \cup {pending_w},
         runs' = [runs EXCEPT ![Depth].cb = cb], Top.pc \in Invoking,
         UNCHANGED <<loop_done, broken>>
  PROVE  BreakInv' /\ ~At("poll")'
<1>0. Leads(Invoking) /\ Depth' = Depth
  BY CbFrames DEF BreakInv
<1>1. FramesInv' /\ ~At("poll")' /\ Depth' = Depth
  BY <1>0 DEF Leads, Phases, Invoking
<1> QED BY <1>1 DEF BreakInv

\* ev_run is called.
LEMMA EvRunBreakInv ==
  ASSUME BreakInv, NEW flags \in RunFlags, EvRun(flags)
  PROVE  BreakInv' /\ ~At("poll")'
<1>1. FramesInv' /\ ~At("poll")'
  BY EvRunFrames DEF BreakInv, Leads, Phases
<1>2. loop_done' = "EVBREAK_CANCEL" /\ broken' = {}
  BY DEF EvRun
<1> QED BY <1>1, <1>2 DEF BreakInv, Hows

\* ev_run returns.
LEMMA FinishBreakInv ==
  ASSUME BreakInv, Finish
  PROVE  BreakInv' /\ ~At("poll")'
<1>1. FramesInv' /\ ~At("poll")' /\ Depth \in Nat \ {0} /\ Depth' = Depth - 1
  BY FinishFrames DEF BreakInv, Leads, Phases
<1>2. broken' \subseteq 1 .. Depth'
  BY <1>1 DEF BreakInv, Finish
<1>3. /\ loop_done' \in Hows \cup {"EVBREAK_RECURSE"}
      /\ loop_done' \in {"EVBREAK_CANCEL", "EVBREAK_RECURSE"} => broken' = {}
      /\ loop_done' # "EVBREAK_ONE"
  BY DEF BreakInv, Finish, Hows
<1> QED BY <1>1, <1>2, <1>3 DEF BreakInv

\* Every step preserves it, and none leads an ev_run that was told to return
\* into the poll.
LEMMA StepBreakInv ==
  ASSUME NDEBUG \/ ~RELEASE, BreakInv, [Next]_vars
  PROVE  BreakInv' /\ (~At("poll") /\ At("poll")' => Depth \notin broken)
<1>1. CASE LoopStep
  <2>1. CASE InvokeDummy \/ InvokePipecb \/ \E w \in Watchers : GatherIo(w)
    BY <2>1, OtherBreakInv DEF InvokeDummy, InvokePipecb, GatherIo
  <2>2. CASE InvokeUser
    <3>1. /\ runs # <<>> /\ Top.pc \in Invoking /\ NextEntry.w \in Watchers \cup {pending_w}
          /\ runs' = [runs EXCEPT ![Depth].cb = NextEntry.w]
          /\ UNCHANGED <<loop_done, broken>>
      BY <2>2 DEF InvokeUser, MayInvoke, User
    <3> QED BY <3>1, CbBreakInv
  <2>3. CASE CallbackReturns
    <3>1. Depth \in 1 .. Depth /\ runs # <<>> /\ Top.cb # pending_w
      BY <2>3, TopFrame DEF CallbackReturns, BreakInv, FramesInv
    <3>2. Top.pc \in Invoking
      BY <3>1 DEF BreakInv, FramesInv, Top
    <3> QED BY <2>3, <3>1, <3>2, CbBreakInv DEF CallbackReturns
  <2>4. CASE FirstInvoked \/ QueueForks \/ QueuePrepares \/ BreakBeforePoll \/ Gather \/ Iterate
    <3>1. PICK pc \in Invoking \cup {"top", "gather", "finish"} : Goto(pc)
      BY <2>4 DEF FirstInvoked, QueueForks, QueuePrepares, BreakBeforePoll, Gather, Iterate,
                  Invoking
    <3>2. runs # <<>> /\ Top.cb = pending_w /\ UNCHANGED <<loop_done, broken>>
      BY <2>4 DEF FirstInvoked, QueueForks, QueuePrepares, BreakBeforePoll, Gather, Iterate,
                  Invoked, At
    <3> QED BY <3>1, <3>2, PhaseBreakInv
  <2>5. CASE BeforePoll
    <3>1. /\ runs # <<>> /\ Top.cb = pending_w /\ Goto("poll")
          /\ loop_done = "EVBREAK_CANCEL" /\ UNCHANGED broken
          /\ loop_done' = IF NDEBUG THEN loop_done ELSE "EVBREAK_RECURSE"
      BY <2>5 DEF BeforePoll, Invoked, At
    <3>2. FramesInv' /\ Depth' = Depth
      BY <3>1, GotoFrames, GotoTop DEF BreakInv, FramesInv, Leads, Phases
    <3>3. broken = {} /\ broken' = {}
      BY <3>1 DEF BreakInv
    <3>4. BreakInv'
      BY <3>1, <3>2, <3>3 DEF BreakInv, Hows
    <3> QED BY <3>3, <3>4
  <2>6. CASE PollReturns
    <3>1. /\ runs # <<>> /\ Top.cb = pending_w /\ Goto("gather") /\ At("poll")
          /\ UNCHANGED broken
          /\ loop_done' = IF NDEBUG THEN loop_done ELSE "EVBREAK_CANCEL"
      BY <2>6 DEF PollReturns, At
    <3>2. CASE NDEBUG
      BY <3>1, <3>2, PhaseBreakInv
    <3>3. CASE ~NDEBUG
      <4>1. loop_done = "EVBREAK_RECURSE" /\ broken = {}
        BY <3>1, <3>3 DEF BreakInv
      <4>2. FramesInv' /\ ~At("poll")'
        BY <3>1, GotoFrames DEF BreakInv, Leads, Phases
      <4> QED BY <3>1, <3>3, <4>1, <4>2 DEF BreakInv, Hows
    <3> QED BY <3>2, <3>3
  <2>7. CASE Finish
    BY <2>7, FinishBreakInv
  <2> QED BY <1>1, <2>1, <2>2, <2>3, <2>4, <2>5, <2>6, <2>7 DEF LoopStep
<1>2. CASE UserStep
  <2>1. CASE \E w \in Watchers : Start(w) \/ Stop(w) \/ EvFeedEvent(w)
    BY <2>1, OtherBreakInv DEF Start, Stop, EvFeedEvent
  <2>2. CASE (\E n \in {-1, 1} : EvRefUnref(n)) \/ EvLoopFork
    BY <2>2, OtherBreakInv DEF EvRefUnref, EvLoopFork
  <2>3. CASE \E how \in Hows : EvBreak(how)
    <3>1. PICK how \in Hows : EvBreak(how)
      BY <2>3
    <3>2. ~At("poll")
      BY <3>1 DEF EvBreak, InUserCode, At
    <3> QED BY <3>1, <3>2, BreakBreakInv DEF EvBreak
  <2>4. CASE \E flags \in RunFlags : EvRun(flags)
    BY <2>4, EvRunBreakInv
  <2> QED BY <1>2, <2>1, <2>2, <2>3, <2>4 DEF UserStep
<1>3. CASE OtherThread
  <2>1. CASE \E w \in Watchers : EvAsyncSend(w)
    BY <2>1, OtherBreakInv DEF EvAsyncSend
  <2>2. CASE \E how \in Hows : RemoteBreak(how)
    BY <2>2, BreakBreakInv DEF RemoteBreak
  <2> QED BY <1>3, <2>1, <2>2 DEF OtherThread
<1>4. CASE UNCHANGED vars
  BY <1>4, OtherBreakInv DEF vars
<1> QED BY <1>1, <1>2, <1>3, <1>4 DEF Next

\* An ev_run that ev_break told to return does not poll again, at any depth of
\* nesting and with any watchers: without assertions (NDEBUG), or if no other
\* thread uses the loop while it polls.  The run loop_release shows that one of
\* the two is necessary.
THEOREM BreakIsObeyed ==
  ASSUME NDEBUG \/ ~RELEASE
  PROVE  Spec => BreakObeyed
<1>1. BreakInv /\ [Next]_vars => BreakInv'
  BY StepBreakInv
<1>2. BreakInv /\ [Next]_vars => [~At("poll") /\ At("poll")' => Depth \notin broken]_vars
  BY StepBreakInv
<1> QED BY InitBreakInv, <1>1, <1>2, PTL DEF Spec, BreakObeyed

-----------------------------------------------------------------------------
\* Watchers, their arrays and the reference count.

Active == {w \in User : IsActive(w)}

\* Every array holds watchers of its own, each at its active index.
ArraysInv ==
  /\ active \in [Watchers -> Nat]
  /\ arrays \in [Arrays -> Seq(User)]
  /\ \A a \in Arrays : \A i \in 1 .. Len(arrays[a]) :
       LET w == arrays[a][i] IN InArray(w) /\ ArrayOf(w) = a /\ active[w] = i
  /\ \A w \in User : InArray(w) /\ IsActive(w) =>
       active[w] <= Len(arrays[ArrayOf(w)]) /\ arrays[ArrayOf(w)][active[w]] = w

LoopInv ==
  /\ ArraysInv
  /\ activecnt \in Int /\ refs \in Int
  /\ RefsCounted

LEMMA UserFinite == IsFiniteSet(User) /\ \A S \in SUBSET User : IsFiniteSet(S)
  BY LoopAssumption, FS_Subset DEF User

\* RefsCounted, with a name for the set
LEMMA RefsOfActive == RefsCounted <=> activecnt = Cardinality(Active) + refs
  BY DEF RefsCounted, Active

LEMMA InitLoopInv == Init => LoopInv
<1> SUFFICES ASSUME Init PROVE LoopInv
  OBVIOUS
<1>1. ArraysInv
  <2>1. active \in [Watchers -> Nat] /\ arrays \in [Arrays -> Seq(User)]
    BY DEF Init
  <2>2. \A a \in Arrays : Len(arrays[a]) = 0
    BY DEF Init
  <2>3. \A w \in User : ~IsActive(w)
    BY DEF Init, User, IsActive
  <2> QED BY <2>1, <2>2, <2>3 DEF ArraysInv
<1>2. Active = {}
  BY DEF Init, Active, IsActive, User
<1>3. RefsCounted
  <2>1. Cardinality(Active) = 0
    BY <1>2, FS_EmptySet
  <2> QED BY <2>1, RefsOfActive DEF Init
<1> QED BY <1>1, <1>3 DEF Init, LoopInv

\* The count of the active watchers, as a number
LEMMA ActiveCount ==
  ASSUME LoopInv
  PROVE  Cardinality(Active) \in Nat /\ Cardinality(Active) = activecnt - refs
<1>1. Cardinality(Active) \in Nat
  BY UserFinite, FS_CardinalityType DEF Active
<1> QED BY <1>1, RefsOfActive DEF LoopInv

\* A step that leaves the watchers alone
LEMMA OtherLoopInv ==
  ASSUME LoopInv, UNCHANGED <<active, arrays>>, NEW d \in Int,
         activecnt' = activecnt + d, refs' = refs + d
  PROVE  LoopInv'
<1>1. ArraysInv'
  BY DEF LoopInv, ArraysInv, IsActive
<1>2. Active' = Active
  BY DEF Active, IsActive
<1>3. activecnt' = Cardinality(Active') + refs'
  <2>1. Cardinality(Active') = Cardinality(Active)
    BY <1>2
  <2>2. activecnt \in Int /\ refs \in Int
    BY DEF LoopInv
  <2>3. Cardinality(Active) \in Nat /\ Cardinality(Active) = activecnt - refs
    BY ActiveCount
  <2> QED BY <2>1, <2>2, <2>3
<1>4. RefsCounted'
  BY <1>3 DEF RefsCounted, Active
<1> QED BY <1>1, <1>4 DEF LoopInv

\* Starting a watcher activates it, and no other one of the user's.
LEMMA StartActive ==
  ASSUME ArraysInv, NEW w \in Watchers, Start(w)
  PROVE  LET n == Len(arrays[ArrayOf(w)])
         IN  /\ n \in Nat
             /\ active' \in [Watchers -> Nat]
             /\ active'[w] = IF InArray(w) THEN n + 1 ELSE 1
             /\ \A x \in User \ {w} : active'[x] = active[x]
<1> DEFINE n == Len(arrays[ArrayOf(w)])
           k == IF InArray(w) THEN n + 1 ELSE 1
           m == IF Kind[w] = "async" THEN 1 ELSE active[pipe_w]
<1>1. /\ w \in User /\ w # pipe_w /\ active \in [Watchers -> Nat]
      /\ arrays[ArrayOf(w)] \in Seq(User)
  BY DEF Start, User, ArraysInv, Arrays
<1>2. active' = [active EXCEPT ![w] = k, ![pipe_w] = m]
  BY <1>1 DEF Start
<1>3. k \in Nat /\ m \in Nat /\ n \in Nat /\ pipe_w \in Watchers
  BY <1>1, LoopAssumption
<1>4. k = IF InArray(w) THEN n + 1 ELSE 1
  OBVIOUS
<1> HIDE DEF k, m, n
<1> QED BY <1>1, <1>2, <1>3, <1>4 DEF User, n

\* A watcher is started.
LEMMA StartLoopInv ==
  ASSUME LoopInv, NEW w \in Watchers, Start(w)
  PROVE  LoopInv'
<1> DEFINE n == Len(arrays[ArrayOf(w)])
<1>1. /\ w \in User /\ w # pipe_w /\ w \in Watchers /\ ~IsActive(w)
      /\ active \in [Watchers -> Nat] /\ arrays \in [Arrays -> Seq(User)]
      /\ ArrayOf(w) \in Arrays
  BY DEF Start, User, LoopInv, ArraysInv, Arrays
<1>2. arrays[ArrayOf(w)] \in Seq(User) /\ n \in Nat
  BY <1>1, LenProperties
<1>3. /\ active' \in [Watchers -> Nat]
      /\ active'[w] = IF InArray(w) THEN n + 1 ELSE 1
      /\ \A x \in User \ {w} : active'[x] = active[x]
  BY StartActive DEF LoopInv
<1>4. Active' = Active \cup {w} /\ w \notin Active
  <2>1. active'[w] # 0
    BY <1>2, <1>3
  <2> QED BY <1>1, <1>3, <2>1 DEF Active, IsActive
<1>5. RefsCounted' /\ activecnt' \in Int /\ refs' \in Int
  <2>1. Cardinality(Active') = Cardinality(Active) + 1
    BY <1>4, UserFinite, FS_AddElement DEF Active
  <2>2. activecnt' = Cardinality(Active') + refs'
    BY <2>1, ActiveCount DEF Start, LoopInv
  <2> QED BY <2>2 DEF RefsCounted, Active, Start, LoopInv
<1>6. CASE ~InArray(w)
  <2>1. arrays' = arrays
    BY <1>6 DEF Start
  <2>2. \A x \in User : InArray(x) => x # w
    BY <1>6
  <2>3. \A a \in Arrays : \A i \in 1 .. Len(arrays[a]) :
          arrays[a][i] \in User /\ InArray(arrays[a][i])
    BY <1>1 DEF LoopInv, ArraysInv
  <2>4. ArraysInv'
    BY ZenonT(40), <1>1, <1>3, <2>1, <2>2, <2>3 DEF LoopInv, ArraysInv, IsActive
  <2> QED BY <1>5, <2>4 DEF LoopInv
<1>7. CASE InArray(w)
  <2> DEFINE b == Append(arrays[ArrayOf(w)], w)
  <2>1. arrays' = [arrays EXCEPT ![ArrayOf(w)] = b]
    BY <1>7 DEF Start
  <2>2. /\ b \in Seq(User) /\ Len(b) = n + 1 /\ b[n + 1] = w
        /\ \A i \in 1 .. n : b[i] = arrays[ArrayOf(w)][i]
    BY <1>1, <1>2, AppendProperties
  <2> HIDE DEF b
  <2>3. /\ arrays' \in [Arrays -> Seq(User)]
        /\ arrays'[ArrayOf(w)] = b
        /\ \A a \in Arrays \ {ArrayOf(w)} : arrays'[a] = arrays[a]
    BY <1>1, <2>1, <2>2
  <2>4. \A a \in Arrays : \A i \in 1 .. Len(arrays[a]) :
          arrays[a][i] \in User \ {w}
    BY <1>1 DEF LoopInv, ArraysInv, IsActive
  <2>5. \A a \in Arrays : \A i \in 1 .. Len(arrays'[a]) :
          LET x == arrays'[a][i] IN InArray(x) /\ ArrayOf(x) = a /\ active'[x] = i
    <3> TAKE a \in Arrays
    <3> TAKE i \in 1 .. Len(arrays'[a])
    <3>1. CASE i \in 1 .. Len(arrays[a]) /\ arrays'[a][i] = arrays[a][i]
      BY <1>3, <2>4, <3>1 DEF LoopInv, ArraysInv
    <3>2. CASE a = ArrayOf(w) /\ i = n + 1
      BY <1>3, <1>7, <2>2, <2>3, <3>2
    <3> QED BY <1>2, <2>2, <2>3, <3>1, <3>2
  <2>6. \A x \in User : InArray(x) /\ active'[x] # 0 =>
          /\ active'[x] <= Len(arrays'[ArrayOf(x)])
          /\ arrays'[ArrayOf(x)][active'[x]] = x
    <3> TAKE x \in User
    <3>1. CASE x = w
      BY <1>2, <1>3, <1>7, <2>2, <2>3, <3>1
    <3>2. CASE x # w
      <4>1. active'[x] = active[x] /\ ArrayOf(x) \in Arrays /\ active[x] \in Nat
        BY <1>1, <1>3, <3>2 DEF Arrays, User
      <4>2. InArray(x) /\ active[x] # 0 =>
              active[x] \in 1 .. Len(arrays[ArrayOf(x)]) /\ arrays[ArrayOf(x)][active[x]] = x
        BY <4>1 DEF LoopInv, ArraysInv, IsActive
      <4> QED BY <1>2, <2>2, <2>3, <4>1, <4>2
    <3> QED BY <3>1, <3>2
  <2>7. ArraysInv'
    BY <1>3, <2>3, <2>5, <2>6 DEF ArraysInv, IsActive
  <2> QED BY SMTT(40), <1>5, <2>7 DEF LoopInv
<1> QED BY <1>6, <1>7

\* A watcher is taken out of its array.
LEMMA TakeOutArraysInv ==
  ASSUME ArraysInv, NEW w \in User, InArray(w), IsActive(w), TakeOut(w)
  PROVE  /\ ArraysInv' /\ active'[w] = 0
         /\ \A x \in User \ {w} : active'[x] # 0 <=> active[x] # 0
<1> DEFINE A == ArrayOf(w)
           a == arrays[A]
           n == Len(a)
           i == active[w]
           last == a[n]
           b == [j \in 1 .. n - 1 |-> IF j = i THEN last ELSE a[j]]
<1>1. /\ w \in Watchers /\ A \in Arrays /\ i \in Nat /\ i # 0 /\ a \in Seq(User)
      /\ n \in Nat /\ i \in 1 .. n /\ a[i] = w
  <2>1. w \in Watchers /\ A \in Arrays
    BY DEF User, Arrays
  <2>2. i \in Nat /\ i # 0 /\ a \in Seq(User) /\ i <= n /\ a[i] = w
    BY <2>1 DEF ArraysInv, IsActive
  <2> QED BY <2>1, <2>2
<1>2. \A j \in 1 .. n : a[j] \in User /\ InArray(a[j]) /\ ArrayOf(a[j]) = A /\ active[a[j]] = j
  <2>1. \A j \in 1 .. n : a[j] \in User
    BY <1>1
  <2> QED BY <1>1, <2>1 DEF ArraysInv
<1>3. /\ arrays' = [arrays EXCEPT ![A] = b]
      /\ active' = [active EXCEPT ![last] = i, ![w] = 0]
  BY DEF TakeOut
<1>4. /\ last \in User /\ last \in Watchers /\ InArray(last) /\ ArrayOf(last) = A
      /\ active[last] = n
  BY <1>1, <1>2 DEF User
<1>5. /\ b \in Seq(User) /\ Len(b) = n - 1
      /\ \A j \in 1 .. n - 1 : b[j] = IF j = i THEN last ELSE a[j]
  BY <1>1, <1>2, <1>4
<1> HIDE DEF b
<1>6. /\ arrays' \in [Arrays -> Seq(User)] /\ arrays'[A] = b
      /\ \A c \in Arrays \ {A} : arrays'[c] = arrays[c]
  BY <1>1, <1>3, <1>5 DEF ArraysInv
<1> HIDE DEF last
<1>7. /\ active' \in [Watchers -> Nat] /\ active'[w] = 0
      /\ last # w => active'[last] = i
      /\ \A x \in User \ {w, last} : active'[x] = active[x]
  BY <1>1, <1>3, <1>4 DEF ArraysInv, User
<1> HIDE DEF a, n, i, A
<1>8. \A x \in User \ {w} : active'[x] # 0 <=> active[x] # 0
  BY <1>1, <1>4, <1>7
<1>9. \A c \in Arrays : \A j \in 1 .. Len(arrays'[c]) :
        LET x == arrays'[c][j] IN InArray(x) /\ ArrayOf(x) = c /\ active'[x] = j
  <2> TAKE c \in Arrays
  <2> TAKE j \in 1 .. Len(arrays'[c])
  <2>1. CASE c # A
    <3>1. arrays'[c] = arrays[c]
      BY <1>6, <2>1
    <3>2. arrays[c][j] \in User /\ InArray(arrays[c][j]) /\ ArrayOf(arrays[c][j]) = c
          /\ active[arrays[c][j]] = j
      BY <3>1 DEF ArraysInv
    <3>3. arrays[c][j] \notin {w, last}
      BY <1>4, <2>1, <3>2 DEF A
    <3> QED BY <1>7, <3>1, <3>2, <3>3
  <2>2. CASE c = A /\ j = i
    <3>1. i \in 1 .. n - 1 /\ arrays'[c][j] = last
      BY <1>1, <1>5, <1>6, <2>2
    <3>2. last # w
      BY <1>1, <1>4, <3>1 DEF i
    <3> QED BY <1>4, <1>7, <2>2, <3>1, <3>2
  <2>3. CASE c = A /\ j # i
    <3>1. j \in 1 .. n - 1 /\ arrays'[c][j] = a[j]
      BY <1>1, <1>5, <1>6, <2>3
    <3>2. a[j] \in User /\ InArray(a[j]) /\ ArrayOf(a[j]) = A /\ active[a[j]] = j
      BY <1>1, <1>2, <3>1
    <3>3. a[j] \notin {w, last}
      BY <1>1, <1>4, <2>3, <3>1, <3>2 DEF i
    <3> QED BY <1>7, <2>3, <3>1, <3>2, <3>3
  <2> QED BY <2>1, <2>2, <2>3
<1>10. \A x \in User : InArray(x) /\ active'[x] # 0 =>
         /\ active'[x] <= Len(arrays'[ArrayOf(x)])
         /\ arrays'[ArrayOf(x)][active'[x]] = x
  <2> SUFFICES ASSUME NEW x \in User, InArray(x), active'[x] # 0
               PROVE  /\ active'[x] <= Len(arrays'[ArrayOf(x)])
                      /\ arrays'[ArrayOf(x)][active'[x]] = x
    OBVIOUS
  <2>1. x # w /\ ArrayOf(x) \in Arrays
    BY <1>7 DEF Arrays, User
  <2>2. CASE x = last
    <3>1. i \in 1 .. n - 1
      BY <1>1, <1>4, <2>1, <2>2 DEF last
    <3> QED BY <1>1, <1>4, <1>5, <1>6, <1>7, <2>1, <2>2, <3>1
  <2>3. CASE x # last
    <3>1. /\ active'[x] = active[x] /\ active[x] \in Nat \ {0}
          /\ active[x] <= Len(arrays[ArrayOf(x)]) /\ arrays[ArrayOf(x)][active[x]] = x
      BY <1>7, <2>1, <2>3 DEF ArraysInv, IsActive, User
    <3>2. CASE ArrayOf(x) # A
      BY <1>6, <2>1, <3>1, <3>2
    <3>3. CASE ArrayOf(x) = A
      <4>1. active[x] \in 1 .. n /\ a[active[x]] = x
        BY <1>1, <3>1, <3>3 DEF a, n
      <4>2. active[x] # n /\ active[x] # i
        BY <1>1, <2>1, <2>3, <4>1 DEF last
      <4>3. active[x] \in 1 .. n - 1
        BY <1>1, <4>1, <4>2
      <4> QED BY SMTT(40), <1>1, <1>5, <1>6, <3>1, <3>3, <4>1, <4>2, <4>3
    <3> QED BY <3>2, <3>3
  <2> QED BY <2>2, <2>3
<1>11. ArraysInv'
  BY <1>6, <1>7, <1>9, <1>10 DEF ArraysInv, IsActive
<1> QED BY <1>7, <1>8, <1>11

\* Stopping a watcher makes it inactive, and no other one of the user's.
LEMMA StopArraysInv ==
  ASSUME ArraysInv, NEW w \in Watchers, Stop(w)
  PROVE  /\ ArraysInv' /\ active'[w] = 0
         /\ \A x \in User \ {w} : active'[x] # 0 <=> active[x] # 0
<1>1. w \in User
  BY DEF Stop
<1>2. CASE ~IsActive(w)
  <2>1. UNCHANGED <<active, arrays>>
    BY <1>2 DEF Stop, wvars
  <2> QED BY <1>2, <2>1 DEF ArraysInv, IsActive
<1>3. CASE IsActive(w) /\ InArray(w)
  BY <1>1, <1>3, TakeOutArraysInv DEF Stop
<1>4. CASE IsActive(w) /\ ~InArray(w)
  <2>1. arrays' = arrays /\ active' = [active EXCEPT ![w] = 0]
    BY <1>4 DEF Stop
  <2>2. /\ active' \in [Watchers -> Nat] /\ active'[w] = 0
        /\ \A x \in User \ {w} : active'[x] = active[x]
    BY <1>1, <2>1 DEF ArraysInv, User
  <2>3. \A a \in Arrays : \A i \in 1 .. Len(arrays[a]) :
          arrays[a][i] \in User /\ InArray(arrays[a][i])
    BY DEF ArraysInv
  <2>4. ArraysInv'
    BY <1>4, <2>1, <2>2, <2>3 DEF ArraysInv, IsActive
  <2> QED BY <2>2, <2>4
<1> QED BY <1>2, <1>3, <1>4

\* A watcher is stopped, active or not.
LEMMA StopLoopInv ==
  ASSUME LoopInv, NEW w \in Watchers, Stop(w)
  PROVE  LoopInv'
<1>1. w \in User /\ refs' = refs
  BY DEF Stop
<1>2. CASE ~IsActive(w)
  <2>1. UNCHANGED <<active, arrays>> /\ activecnt' = activecnt + 0 /\ refs' = refs + 0
    BY <1>1, <1>2 DEF Stop, wvars, LoopInv
  <2> QED BY <2>1, OtherLoopInv
<1>3. CASE IsActive(w)
  <2>1. /\ ArraysInv' /\ active'[w] = 0
        /\ \A x \in User \ {w} : active'[x] # 0 <=> active[x] # 0
    BY StopArraysInv DEF LoopInv
  <2>2. Active' = Active \ {w} /\ w \in Active
    BY <1>1, <1>3, <2>1 DEF Active, IsActive
  <2>3. Cardinality(Active') = Cardinality(Active) - 1
    BY <2>2, UserFinite, FS_RemoveElement DEF Active
  <2>4. activecnt' = activecnt - 1
    BY <1>3 DEF Stop
  <2>5. activecnt' = Cardinality(Active') + refs'
    BY <1>1, <2>3, <2>4, ActiveCount DEF LoopInv
  <2>6. RefsCounted'
    BY <2>5 DEF RefsCounted, Active
  <2> QED BY <1>1, <2>1, <2>4, <2>6 DEF LoopInv
<1> QED BY <1>2, <1>3

LEMMA StepLoopInv == LoopInv /\ [Next]_vars => LoopInv'
<1> SUFFICES ASSUME LoopInv, [Next]_vars PROVE LoopInv'
  OBVIOUS
<1>1. ASSUME UNCHANGED <<wvars, refs>> PROVE LoopInv'
  <2>1. UNCHANGED <<active, arrays>> /\ activecnt' = activecnt + 0 /\ refs' = refs + 0
    BY <1>1 DEF wvars, LoopInv
  <2> QED BY <2>1, OtherLoopInv
<1>2. CASE LoopStep
  BY <1>1, <1>2 DEF LoopStep, InvokeDummy, InvokeUser, InvokePipecb, CallbackReturns,
       FirstInvoked, QueueForks, QueuePrepares, BreakBeforePoll, BeforePoll, PollReturns,
       GatherIo, Gather, Iterate, Finish
<1>3. CASE UserStep
  <2>1. CASE \E w \in Watchers : Start(w) \/ Stop(w)
    BY <2>1, StartLoopInv, StopLoopInv
  <2>2. CASE \E n \in {-1, 1} : EvRefUnref(n)
    <3>1. PICK n \in {-1, 1} : EvRefUnref(n)
      BY <2>2
    <3>2. UNCHANGED <<active, arrays>> /\ activecnt' = activecnt + n /\ refs' = refs + n
      BY <3>1 DEF EvRefUnref
    <3> QED BY <3>1, <3>2, OtherLoopInv
  <2>3. CASE \/ \E w \in Watchers : EvFeedEvent(w)
             \/ \E how \in Hows : EvBreak(how)
             \/ EvLoopFork
             \/ \E flags \in RunFlags : EvRun(flags)
    BY <1>1, <2>3 DEF EvFeedEvent, EvBreak, EvLoopFork, EvRun
  <2> QED BY <1>3, <2>1, <2>2, <2>3 DEF UserStep
<1>4. CASE OtherThread
  BY <1>1, <1>4 DEF OtherThread, EvAsyncSend, RemoteBreak
<1>5. CASE UNCHANGED vars
  BY <1>1, <1>5 DEF vars
<1> QED BY <1>2, <1>3, <1>4, <1>5 DEF Next

-----------------------------------------------------------------------------
\* The phases an ev_run comes to

LEMMA InitFramesInv == Init => FramesInv
  BY DEF Init, FramesInv, Depth

LEMMA SameFrames ==
  ASSUME FramesInv, UNCHANGED runs
  PROVE  FramesInv' /\ \A pc : (At(pc)' <=> At(pc)) /\ (InPhase(pc)' <=> InPhase(pc))
BY DEF FramesInv, At, InPhase, Top, Depth

\* What leads into the phases that the invariants are about, with nesting: the
\* poll and what follows it are the innermost ev_run's.
PhaseSteps ==
  /\ FramesInv'
  /\ At("poll")' => BeforePoll \/ (At("poll") /\ UNCHANGED runs)
  /\ At("gather")' => PollReturns \/ (At("gather") /\ UNCHANGED runs)
  /\ InPhase("fork")' => QueueForks \/ InPhase("fork")
  /\ InPhase("prepare")' => QueuePrepares \/ InPhase("prepare")

LEMMA StepPhases ==
  ASSUME FramesInv, [Next]_vars
  PROVE  PhaseSteps
<1>0. ASSUME UNCHANGED runs PROVE PhaseSteps
  BY <1>0, SameFrames DEF PhaseSteps
<1>1. ASSUME NEW A, Leads(A), {"poll", "gather", "fork", "prepare"} \cap A = {}
      PROVE  PhaseSteps
  BY <1>1 DEF Leads, PhaseSteps, Phases, Invoking
<1>2. ASSUME NEW pc \in Phases, Goto(pc), runs # <<>>, Top.cb = pending_w
      PROVE  Leads({pc})
  BY <1>2, GotoFrames
<1>3. ASSUME NEW cb \in Watchers \cup {pending_w}, runs # <<>>, Top.pc \in Invoking,
             runs' = [runs EXCEPT ![Depth].cb = cb]
      PROVE  PhaseSteps
  <2>1. Leads(Invoking) /\ \A pc \in Phases : InPhase(pc)' => InPhase(pc)
    BY <1>3, CbFrames
  <2> QED BY <2>1 DEF Leads, PhaseSteps, Phases, Invoking
<1>4. CASE LoopStep
  <2>1. CASE InvokeDummy \/ InvokePipecb \/ \E w \in Watchers : GatherIo(w)
    BY <1>0, <2>1 DEF InvokeDummy, InvokePipecb, GatherIo
  <2>2. CASE InvokeUser
    BY <1>3, <2>2 DEF InvokeUser, MayInvoke, User
  <2>3. CASE CallbackReturns
    <3>1. Depth \in 1 .. Depth /\ runs # <<>> /\ Top.cb # pending_w
      BY <2>3, TopFrame DEF CallbackReturns, FramesInv
    <3>2. Top.pc \in Invoking
      BY <3>1 DEF FramesInv, Top
    <3> QED BY <1>3, <2>3, <3>1, <3>2 DEF CallbackReturns
  <2>4. CASE FirstInvoked \/ BreakBeforePoll \/ Gather \/ Iterate
    <3>1. /\ runs # <<>> /\ Top.cb = pending_w
          /\ Goto("top") \/ Goto("finish") \/ Goto("iterate")
      BY <2>4 DEF FirstInvoked, BreakBeforePoll, Gather, Iterate, Invoked, At
    <3>2. Leads({"top"}) \/ Leads({"finish"}) \/ Leads({"iterate"})
      BY <1>2, <3>1 DEF Phases, Invoking
    <3> QED BY <1>1, <3>2
  <2>5. CASE QueueForks
    <3>1. Leads({"fork"})
      BY <1>2, <2>5 DEF QueueForks, At, Phases, Invoking
    <3> QED BY <2>5, <3>1 DEF Leads, PhaseSteps, Phases, Invoking
  <2>6. CASE QueuePrepares
    <3>1. Leads({"prepare"})
      BY <1>2, <2>6 DEF QueuePrepares, Invoked, At, Phases, Invoking
    <3> QED BY <2>6, <3>1 DEF Leads, PhaseSteps, Phases, Invoking
  <2>7. CASE BeforePoll
    <3>1. Leads({"poll"})
      BY <1>2, <2>7 DEF BeforePoll, Invoked, At, Phases, Invoking
    <3> QED BY <2>7, <3>1 DEF Leads, PhaseSteps, Phases, Invoking
  <2>8. CASE PollReturns
    <3>1. Leads({"gather"})
      BY <1>2, <2>8 DEF PollReturns, At, Phases, Invoking
    <3> QED BY <2>8, <3>1 DEF Leads, PhaseSteps, Phases, Invoking
  <2>9. CASE Finish
    BY <1>1, <2>9, FinishFrames
  <2> QED BY <1>4, <2>1, <2>2, <2>3, <2>4, <2>5, <2>6, <2>7, <2>8, <2>9 DEF LoopStep
<1>5. CASE UserStep
  <2>1. CASE \E flags \in RunFlags : EvRun(flags)
    BY <1>1, <2>1, EvRunFrames
  <2>2. CASE ~\E flags \in RunFlags : EvRun(flags)
    BY <1>0, <1>5, <2>2 DEF UserStep, Start, Stop, EvFeedEvent, EvRefUnref, EvBreak, EvLoopFork
  <2> QED BY <2>1, <2>2
<1>6. CASE OtherThread
  BY <1>0, <1>6 DEF OtherThread, EvAsyncSend, RemoteBreak
<1>7. CASE UNCHANGED vars
  BY <1>0, <1>7 DEF vars
<1> QED BY <1>4, <1>5, <1>6, <1>7 DEF Next

-----------------------------------------------------------------------------
\* What the watchers are queued for

FdKinds == {"io", "pipe"}

\* Events go to watchers of their kind; an idle watcher is queued only with
\* everything that the poll reported, G, below its priority.
EventsRight(s, G, w) ==
  /\ "EV_READ" \in EventsAt(s, w) => Kind[w] \in FdKinds
  /\ "EV_CHECK" \in EventsAt(s, w) => Kind[w] = "check"
  /\ "EV_IDLE" \in EventsAt(s, w) =>
       Kind[w] = "idle" /\ \A g \in G : Priority[g] < Priority[w]

\* The check watchers were queued after what the poll reported: they are first.
ChecksLast(s) ==
  \A c, r \in Watchers :
    Priority[c] = Priority[r] /\ "EV_CHECK" \in EventsAt(s, c) /\ "EV_READ" \in EventsAt(s, r)
      => s.pending[c] > s.pending[r]

QueuesOK(s, G) ==
  /\ Good(s) /\ s.priority = Priority
  /\ \A w \in Watchers : EventsRight(s, G, w)
  /\ ChecksLast(s)

\* Nothing but io watchers and pipe_w is queued.
OnlyFds(s) == \A w \in Watchers : IsPending(s, w) => Kind[w] \in FdKinds

LEMMA EventsInFlags ==
  \A e \in {"EV_READ", "EV_PREPARE", "EV_CHECK", "EV_FORK", "EV_IDLE", "EV_ASYNC",
            "EV_CUSTOM"} : {e} \in SUBSET Flags
BY LoopAssumption

LEMMA EmptyQueuesOK ==
  ASSUME NEW G
  PROVE  QueuesOK(InitQueue(Priority), G)
<1> DEFINE s == InitQueue(Priority)
<1>1. /\ s.priority = Priority /\ \A w \in Watchers : s.pending[w] = 0
      /\ \A p \in Pri : s.pendings[p] = <<>>
      /\ s \in QueueState
  BY LoopAssumption DEF InitQueue, QueueState
<1>2. Good(s)
  BY <1>1 DEF Good, IndexToEntry, EntryToIndex, IsPending
<1>3. \A w \in Watchers : EventsAt(s, w) = {}
  BY <1>1 DEF EventsAt, IsPending
<1> HIDE DEF s
<1> QED BY <1>1, <1>2, <1>3 DEF QueuesOK, EventsRight, ChecksLast, s

\* An entry is taken or cleared.
LEMMA ShrunkOK ==
  ASSUME NEW s, NEW G, QueuesOK(s, G), NEW w, NEW t, Shrunk(s, t, w)
  PROVE  QueuesOK(t, G)
<1>1. Good(t) /\ t.priority = Priority
  BY DEF Shrunk, QueuesOK
<1>2. ASSUME NEW v \in Watchers
      PROVE  \/ EventsAt(t, v) = {}
             \/ EventsAt(t, v) = EventsAt(s, v) /\ t.pending[v] = s.pending[v]
  BY DEF Shrunk, EventsAt, IsPending
<1>3. ASSUME NEW v \in Watchers PROVE EventsRight(t, G, v)
  <2>1. EventsRight(s, G, v)
    BY DEF QueuesOK
  <2> QED BY <1>2, <2>1 DEF EventsRight
<1>4. ChecksLast(t)
  <2> SUFFICES ASSUME NEW c \in Watchers, NEW r \in Watchers, Priority[c] = Priority[r],
                      "EV_CHECK" \in EventsAt(t, c), "EV_READ" \in EventsAt(t, r)
               PROVE  t.pending[c] > t.pending[r]
    BY DEF ChecksLast
  <2>1. /\ EventsAt(t, c) = EventsAt(s, c) /\ t.pending[c] = s.pending[c]
        /\ EventsAt(t, r) = EventsAt(s, r) /\ t.pending[r] = s.pending[r]
    BY <1>2
  <2> QED BY <2>1 DEF QueuesOK, ChecksLast
<1> QED BY <1>1, <1>3, <1>4 DEF QueuesOK

\* Watchers are fed other events.
LEMMA GrownOK ==
  ASSUME NEW s, NEW G, QueuesOK(s, G), NEW S, NEW R, NEW t, Grown(s, t, S, R),
         R \cap {"EV_READ", "EV_CHECK", "EV_IDLE"} = {}
  PROVE  QueuesOK(t, G)
<1>1. Good(t) /\ t.priority = Priority
  BY DEF Grown, QueuesOK
<1>2. ASSUME NEW v \in Watchers, NEW e \in {"EV_READ", "EV_CHECK", "EV_IDLE"}, e \in EventsAt(t, v)
      PROVE  e \in EventsAt(s, v) /\ t.pending[v] = s.pending[v]
  <2>1. FedTo(s, t, S, R, v)
    BY DEF Grown
  <2>2. e \in EventsAt(s, v)
    BY <1>2, <2>1 DEF FedTo
  <2>3. IsPending(s, v)
    BY <2>2 DEF EventsAt
  <2> QED BY <2>1, <2>2, <2>3 DEF FedTo
<1>3. ASSUME NEW v \in Watchers PROVE EventsRight(t, G, v)
  <2>1. EventsRight(s, G, v)
    BY DEF QueuesOK
  <2> QED BY <1>2, <2>1 DEF EventsRight
<1>4. ChecksLast(t)
  <2> SUFFICES ASSUME NEW c \in Watchers, NEW r \in Watchers, Priority[c] = Priority[r],
                      "EV_CHECK" \in EventsAt(t, c), "EV_READ" \in EventsAt(t, r)
               PROVE  t.pending[c] > t.pending[r]
    BY DEF ChecksLast
  <2>1. /\ "EV_CHECK" \in EventsAt(s, c) /\ t.pending[c] = s.pending[c]
        /\ "EV_READ" \in EventsAt(s, r) /\ t.pending[r] = s.pending[r]
    BY <1>2
  <2> QED BY <2>1 DEF QueuesOK, ChecksLast
<1> QED BY <1>1, <1>3, <1>4 DEF QueuesOK

\* The poll feeds an io watcher or pipe_w, while nothing else is queued.
LEMMA ReadFedOK ==
  ASSUME NEW s, NEW G, QueuesOK(s, G), OnlyFds(s), NEW w \in Watchers, Kind[w] \in FdKinds,
         NEW t, Grown(s, t, {w}, {"EV_READ"})
  PROVE  QueuesOK(t, G) /\ OnlyFds(t)
<1>1. Good(t) /\ t.priority = Priority
  BY DEF Grown, QueuesOK
<1>2. ASSUME NEW v \in Watchers
      PROVE  /\ EventsAt(t, v) \subseteq EventsAt(s, v) \cup {"EV_READ"}
             /\ v # w => EventsAt(t, v) = EventsAt(s, v)
             /\ IsPending(t, v) => Kind[v] \in FdKinds
  <2>1. FedTo(s, t, {w}, {"EV_READ"}, v)
    BY DEF Grown
  <2> QED BY <2>1 DEF FedTo, OnlyFds, IsPending
<1>3. ASSUME NEW v \in Watchers PROVE EventsRight(t, G, v)
  <2>1. EventsRight(s, G, v)
    BY DEF QueuesOK
  <2> QED BY <1>2, <2>1 DEF EventsRight
<1>4. ASSUME NEW v \in Watchers PROVE "EV_CHECK" \notin EventsAt(t, v)
  BY <1>2, <1>3 DEF EventsRight, EventsAt, FdKinds
<1> QED BY <1>1, <1>2, <1>3, <1>4 DEF QueuesOK, ChecksLast, OnlyFds

\* Idle watchers are queued, above everything that the poll reported.
LEMMA IdleFedOK ==
  ASSUME NEW s, NEW G, QueuesOK(s, G), NEW S, NEW t, Grown(s, t, S, {"EV_IDLE"}),
         \A w \in S : Kind[w] = "idle" /\ \A g \in G : Priority[g] < Priority[w]
  PROVE  QueuesOK(t, G)
<1>1. Good(t) /\ t.priority = Priority
  BY DEF Grown, QueuesOK
<1>2. ASSUME NEW v \in Watchers, NEW e \in {"EV_READ", "EV_CHECK"}, e \in EventsAt(t, v)
      PROVE  e \in EventsAt(s, v) /\ t.pending[v] = s.pending[v]
  <2>1. FedTo(s, t, S, {"EV_IDLE"}, v)
    BY DEF Grown
  <2>2. e \in EventsAt(s, v)
    BY <1>2, <2>1 DEF FedTo
  <2>3. IsPending(s, v)
    BY <2>2 DEF EventsAt
  <2> QED BY <2>1, <2>2, <2>3 DEF FedTo
<1>3. ASSUME NEW v \in Watchers PROVE EventsRight(t, G, v)
  <2>1. EventsRight(s, G, v) /\ FedTo(s, t, S, {"EV_IDLE"}, v)
    BY DEF QueuesOK, Grown
  <2>2. "EV_IDLE" \in EventsAt(t, v) => v \in S \/ "EV_IDLE" \in EventsAt(s, v)
    BY <2>1 DEF FedTo
  <2> QED BY <1>2, <2>1, <2>2 DEF EventsRight
<1>4. ChecksLast(t)
  <2> SUFFICES ASSUME NEW c \in Watchers, NEW r \in Watchers, Priority[c] = Priority[r],
                      "EV_CHECK" \in EventsAt(t, c), "EV_READ" \in EventsAt(t, r)
               PROVE  t.pending[c] > t.pending[r]
    BY DEF ChecksLast
  <2>1. /\ "EV_CHECK" \in EventsAt(s, c) /\ t.pending[c] = s.pending[c]
        /\ "EV_READ" \in EventsAt(s, r) /\ t.pending[r] = s.pending[r]
    BY <1>2
  <2> QED BY <2>1 DEF QueuesOK, ChecksLast
<1> QED BY <1>1, <1>3, <1>4 DEF QueuesOK

\* Check watchers, which were not queued, are.
LEMMA CheckFedOK ==
  ASSUME NEW s, NEW G, QueuesOK(s, G), NEW S, NEW t, Grown(s, t, S, {"EV_CHECK"}),
         \A w \in S : w \in Watchers /\ Kind[w] = "check" /\ ~IsPending(s, w)
  PROVE  QueuesOK(t, G)
<1>1. Good(t) /\ t.priority = Priority /\ Good(s) /\ s.priority = Priority
  BY DEF Grown, QueuesOK
<1>2. ASSUME NEW v \in Watchers PROVE FedTo(s, t, S, {"EV_CHECK"}, v)
  BY DEF Grown
<1>3. ASSUME NEW v \in Watchers, NEW e \in {"EV_READ", "EV_IDLE"}, e \in EventsAt(t, v)
      PROVE  e \in EventsAt(s, v) /\ t.pending[v] = s.pending[v] /\ IsPending(s, v)
  <2>1. e \in EventsAt(s, v)
    BY <1>2, <1>3 DEF FedTo
  <2>2. IsPending(s, v)
    BY <2>1 DEF EventsAt
  <2> QED BY <1>2, <2>1, <2>2 DEF FedTo
<1>4. ASSUME NEW v \in Watchers PROVE EventsRight(t, G, v)
  <2>1. EventsRight(s, G, v)
    BY DEF QueuesOK
  <2>2. "EV_CHECK" \in EventsAt(t, v) => v \in S \/ "EV_CHECK" \in EventsAt(s, v)
    BY <1>2 DEF FedTo
  <2> QED BY <1>3, <2>1, <2>2 DEF EventsRight
<1>5. ChecksLast(t)
  <2> SUFFICES ASSUME NEW c \in Watchers, NEW r \in Watchers, Priority[c] = Priority[r],
                      "EV_CHECK" \in EventsAt(t, c), "EV_READ" \in EventsAt(t, r)
               PROVE  t.pending[c] > t.pending[r]
    BY DEF ChecksLast
  <2>1. "EV_READ" \in EventsAt(s, r) /\ t.pending[r] = s.pending[r] /\ IsPending(s, r)
    BY <1>3
  <2>2. CASE c \in S
    <3>1. t.pending[c] > Len(s.pendings[Priority[c]]) /\ t.pending[c] \in Nat
      BY <1>1, <1>2, <2>2, EntryAt DEF FedTo
    <3>2. s.pending[r] \in 1 .. Len(s.pendings[Priority[r]]) /\ Len(s.pendings[Priority[r]]) \in Nat
      BY <1>1, <2>1, EntryAt
    <3> QED BY <2>1, <3>1, <3>2
  <2>3. CASE c \notin S
    <3>1. "EV_CHECK" \in EventsAt(s, c) /\ t.pending[c] = s.pending[c]
      BY <1>2, <2>3 DEF FedTo
    <3> QED BY <2>1, <3>1 DEF QueuesOK, ChecksLast
  <2> QED BY <2>2, <2>3
<1> QED BY <1>1, <1>4, <1>5 DEF QueuesOK

\* A poll begins with no idle watcher queued.
LEMMA RegatheredOK ==
  ASSUME NEW s, NEW G, QueuesOK(s, G), OnlyFds(s), NEW H
  PROVE  QueuesOK(s, H)
<1>1. ASSUME NEW w \in Watchers PROVE EventsRight(s, H, w)
  <2>1. "EV_IDLE" \notin EventsAt(s, w)
    BY DEF QueuesOK, EventsRight, OnlyFds, EventsAt, FdKinds
  <2> QED BY <2>1 DEF QueuesOK, EventsRight
<1> QED BY <1>1 DEF QueuesOK

-----------------------------------------------------------------------------
\* The arrays as ev_run goes through them

\* An array has watchers of its kind, in the idle arrays of the priority, and
\* all that are active.
LEMMA ArrayHas ==
  ASSUME ArraysInv, NEW kind, NEW p
  PROVE  /\ Array(kind, p) \in Seq(Watchers)
         /\ \A i \in 1 .. Len(Array(kind, p)) :
              LET w == Array(kind, p)[i]
              IN  Kind[w] = kind /\ (kind = "idle" => Priority[w] = p)
         /\ \A w \in User :
              InArray(w) /\ IsActive(w) /\ kind = Kind[w] /\ kind # "idle" /\ p = 0
                => \E i \in 1 .. Len(Array(kind, p)) : Array(kind, p)[i] = w
<1>1. CASE <<kind, p>> \in Arrays
  <2> DEFINE a == arrays[<<kind, p>>]
  <2>1. Array(kind, p) = a
    BY <1>1 DEF Array
  <2>2. a \in Seq(User)
    BY <1>1 DEF ArraysInv
  <2>3. a \in Seq(Watchers)
    BY <2>2 DEF User
  <2>4. ASSUME NEW i \in 1 .. Len(a)
        PROVE  Kind[a[i]] = kind /\ (kind = "idle" => Priority[a[i]] = p)
    <3>1. ArrayOf(a[i]) = <<kind, p>>
      BY <1>1 DEF ArraysInv
    <3> HIDE DEF a
    <3> QED BY <3>1 DEF ArrayOf
  <2>5. ASSUME NEW w \in User, InArray(w), IsActive(w), kind = Kind[w], kind # "idle", p = 0
        PROVE  \E i \in 1 .. Len(a) : a[i] = w
    <3>1. ArrayOf(w) = <<kind, p>>
      BY <2>5 DEF ArrayOf
    <3>2. active[w] <= Len(a) /\ a[active[w]] = w
      BY <2>5, <3>1 DEF ArraysInv
    <3>3. active[w] \in Nat /\ active[w] # 0 /\ Len(a) \in Nat
      BY <2>2, <2>5 DEF ArraysInv, IsActive, User
    <3> HIDE DEF a
    <3> QED BY <3>2, <3>3
  <2> HIDE DEF a
  <2> QED BY <2>1, <2>3, <2>4, <2>5
<1>2. CASE <<kind, p>> \notin Arrays
  <2>1. Array(kind, p) = <<>>
    BY <1>2 DEF Array
  <2>2. ASSUME NEW w \in User, kind = Kind[w], kind # "idle", p = 0 PROVE FALSE
    <3>1. ArrayOf(w) = <<kind, p>> /\ w \in Watchers
      BY <2>2 DEF ArrayOf, User
    <3> QED BY <1>2, <3>1 DEF Arrays
  <2> QED BY <2>1, <2>2
<1> QED BY <1>1, <1>2

\* pipecb feeds some watchers.
LEMMA FeedAsyncsGrows ==
  ASSUME ArraysInv, NEW s, Good(s)
  PROVE  \E S : Grown(s, FeedAsyncs(s), S, {"EV_ASYNC"})
<1> DEFINE ws == Reverse(Array("async", 0))
           N == Len(ws)
           Step(g, n) == IF n = 0 THEN s
                         ELSE IF ws[n] \in sent THEN FeedEvent(g[n - 1], ws[n], {"EV_ASYNC"})
                         ELSE g[n - 1]
           X == {m \in Nat : \E g : g = [n \in 0 .. m |-> Step(g, n)]}
<1>1. N \in Nat /\ \A n \in 1 .. N : ws[n] \in Watchers
  <2>1. Array("async", 0) \in Seq(Watchers)
    BY ArrayHas
  <2> QED BY <2>1 DEF Reverse
<1>2. 0 \in X
  <2> DEFINE g == [n \in 0 .. 0 |-> s]
  <2>1. g = [n \in 0 .. 0 |-> Step(g, n)]
    OBVIOUS
  <2> QED BY <2>1
<1>3. ASSUME NEW m \in Nat, m \in X PROVE m + 1 \in X
  <2>1. PICK g : g = [n \in 0 .. m |-> Step(g, n)]
    BY <1>3
  <2> DEFINE h == [n \in 0 .. m + 1 |-> Step(g, n)]
  <2>2. ASSUME NEW n \in 0 .. m + 1 PROVE Step(h, n) = Step(g, n)
    <3>1. CASE n = 0
      BY <3>1
    <3>2. CASE n # 0
      <4>1. n - 1 \in 0 .. m /\ n - 1 \in 0 .. m + 1
        BY <3>2
      <4>2. h[n - 1] = g[n - 1]
        BY <2>1, <4>1
      <4> HIDE DEF h
      <4> QED BY <3>2, <4>2
    <3> QED BY <3>1, <3>2
  <2>3. h = [n \in 0 .. m + 1 |-> Step(h, n)]
    <3>1. \A n \in 0 .. m + 1 : Step(h, n) = Step(g, n)
      BY <2>2
    <3>2. h = [n \in 0 .. m + 1 |-> Step(g, n)]
      OBVIOUS
    <3> HIDE DEF h, Step
    <3> QED BY <3>1, <3>2
  <2>4. \E f : f = [n \in 0 .. m + 1 |-> Step(f, n)]
    <3> HIDE DEF h
    <3> WITNESS h
    <3> QED BY <2>3
  <2> HIDE DEF Step
  <2> QED BY <2>4
<1>4. N \in X
  <2>1. \A m \in Nat : m \in X
    <3> HIDE DEF X
    <3> QED BY <1>2, <1>3, InductOnNat
  <2> HIDE DEF X
  <2> QED BY <1>1, <2>1
<1> DEFINE feed == CHOOSE g : g = [n \in 0 .. N |-> Step(g, n)]
<1>5. feed = [n \in 0 .. N |-> Step(feed, n)]
  BY <1>4
<1>6. FeedAsyncs(s) = feed[N]
  BY DEF FeedAsyncs
<1> HIDE DEF feed, X
<1>7. /\ feed[0] = s
      /\ \A n \in 1 .. N :
           feed[n] = IF ws[n] \in sent THEN FeedEvent(feed[n - 1], ws[n], {"EV_ASYNC"})
                                       ELSE feed[n - 1]
  <2> HIDE DEF Step
  <2>1. \A n \in 0 .. N : feed[n] = Step(feed, n)
    BY <1>5
  <2>2. 0 \in 0 .. N /\ \A n \in 1 .. N : n \in 0 .. N /\ n # 0
    BY <1>1
  <2> QED BY <2>1, <2>2 DEF Step
<1>8. FeedsThose(feed, s, N, ws, sent, {"EV_ASYNC"})
  BY <1>1, <1>7 DEF FeedsThose
<1>9. Grown(s, feed[N], Those(ws, N, sent), {"EV_ASYNC"})
  <2>1. {"EV_ASYNC"} \in SUBSET Flags
    BY EventsInFlags
  <2> HIDE DEF ws, N
  <2> QED BY <1>1, <1>8, <2>1, ChainGrows
<1> HIDE DEF ws, N
<1> QED BY <1>6, <1>9

\* The highest priority with idle watchers
LEMMA MaxIdle ==
  ASSUME NEW idle, idle = {p \in Pri : Array("idle", p) # <<>>}, idle # {}
  PROVE  Max(idle) \in idle
<1> DEFINE s == [pendings |-> [p \in Pri |-> Array("idle", p)]]
<1>1. \A p \in Pri : s.pendings[p] = Array("idle", p)
  OBVIOUS
<1> HIDE DEF s
<1>2. HasPending(s)
  BY <1>1 DEF HasPending
<1>3. /\ NextPri(s) \in Pri /\ s.pendings[NextPri(s)] # <<>>
      /\ \A o \in Pri : o > NextPri(s) => s.pendings[o] = <<>>
  BY <1>2, NextPriHasEntry
<1>4. NextPri(s) \in idle /\ \A y \in idle : NextPri(s) >= y
  <2>1. NextPri(s) \in idle
    BY <1>1, <1>3
  <2>2. ASSUME NEW y \in idle PROVE NextPri(s) >= y
    <3>1. y \in Pri /\ s.pendings[y] # <<>>
      BY <1>1
    <3>2. y \in Int /\ NextPri(s) \in Int
      BY <1>3, <3>1, PendingAssumption DEF Pri
    <3> QED BY <1>3, <3>1, <3>2
  <2> QED BY <2>1, <2>2
<1> QED BY <1>4 DEF Max

-----------------------------------------------------------------------------
\* What the steps do to the queues

\* t has all entries and events of s.
Kept(s, t) ==
  \A v \in Watchers : EventsAt(s, v) \subseteq EventsAt(t, v)
                      /\ (IsPending(s, v) => IsPending(t, v))

LEMMA GrownKept ==
  ASSUME NEW s, NEW t, NEW S, NEW R, Good(s), Grown(s, t, S, R)
  PROVE  Kept(s, t) /\ Good(t)
<1>1. ASSUME NEW v \in Watchers
      PROVE  EventsAt(s, v) \subseteq EventsAt(t, v) /\ (IsPending(s, v) => IsPending(t, v))
  <2>1. FedTo(s, t, S, R, v)
    BY DEF Grown
  <2> QED BY <2>1 DEF FedTo, IsPending
<1> QED BY <1>1 DEF Kept, Grown

\* ev_invoke_pending takes the entry it calls.
LEMMA Popped ==
  ASSUME NEW G, QueuesOK(q, G), HasPending(q)
  PROVE  /\ NextPri(q) \in Pri
         /\ Shrunk(q, PopEntry(q, NextPri(q)), NextEntry.w)
         /\ NextEntry \in Entry
         /\ NextEntry.w \in Watchers =>
              /\ IsPending(q, NextEntry.w)
              /\ Priority[NextEntry.w] = NextPri(q)
              /\ q.pending[NextEntry.w] = Len(q.pendings[NextPri(q)])
              /\ EventsAt(q, NextEntry.w) = NextEntry.events
<1>1. NextPri(q) \in Pri /\ q.pendings[NextPri(q)] # <<>>
  BY NextPriHasEntry
<1>2. Good(q) /\ q.priority = Priority
  BY DEF QueuesOK
<1> QED BY <1>1, <1>2, PopShrinks DEF NextEntry

\* queue_events with an array of the loop
LEMMA ArrayGrows ==
  ASSUME ArraysInv, NEW s, Good(s), NEW kind, NEW p, NEW e, {e} \in SUBSET Flags
  PROVE  /\ Grown(s, QueueEvents(s, Array(kind, p), {e}), ToSet(Array(kind, p)), {e})
         /\ \A w \in ToSet(Array(kind, p)) :
              w \in Watchers /\ Kind[w] = kind /\ (kind = "idle" => Priority[w] = p)
<1> DEFINE ws == Array(kind, p)
<1>1. /\ ws \in Seq(Watchers)
      /\ \A i \in 1 .. Len(ws) : Kind[ws[i]] = kind /\ (kind = "idle" => Priority[ws[i]] = p)
  BY ArrayHas
<1> HIDE DEF ws
<1>2. ToSet(ws) = {ws[i] : i \in 1 .. Len(ws)}
  BY <1>1 DEF ToSet
<1>3. Grown(s, QueueEvents(s, ws, {e}), {ws[i] : i \in 1 .. Len(ws)}, {e})
  BY <1>1, QueueEventsGrows
<1> QED BY <1>1, <1>2, <1>3 DEF ws

\* loop_fork feeds pipe_w at most.
LEMMA LoopForkOK ==
  ASSUME NEW G, QueuesOK(q, G), ~HasPending(q), LoopFork
  PROVE  \A H : QueuesOK(q', H) /\ OnlyFds(q')
<1>1. \A w \in Watchers : ~IsPending(q, w)
  BY NothingPending DEF QueuesOK
<1>2. OnlyFds(q)
  BY <1>1 DEF OnlyFds
<1>3. CASE postfork = 1 /\ IsActive(pipe_w)
  <2>1. pipe_w \in Watchers /\ Kind[pipe_w] = "pipe" /\ {"EV_CUSTOM"} \in SUBSET Flags
    BY LoopAssumption, EventsInFlags
  <2>2. ClearPending(q, pipe_w) = q
    BY <1>1, <2>1 DEF ClearPending
  <2>3. Grown(q, q', {pipe_w}, {"EV_CUSTOM"})
    BY <1>3, <2>1, <2>2, FeedGrows DEF LoopFork, QueuesOK
  <2>4. QueuesOK(q', G)
    BY <2>3, GrownOK
  <2>5. OnlyFds(q')
    <3> SUFFICES ASSUME NEW w \in Watchers, IsPending(q', w) PROVE Kind[w] \in FdKinds
      BY DEF OnlyFds
    <3>1. FedTo(q, q', {pipe_w}, {"EV_CUSTOM"}, w)
      BY <2>3 DEF Grown
    <3>2. w = pipe_w
      BY <1>1, <3>1 DEF FedTo, IsPending
    <3> QED BY <2>1, <3>2 DEF FdKinds
  <2> QED BY <2>4, <2>5, RegatheredOK
<1>4. CASE ~(postfork = 1 /\ IsActive(pipe_w))
  <2>1. q' = q
    BY <1>4 DEF LoopFork
  <2> QED BY <1>2, <2>1, RegatheredOK
<1> QED BY <1>3, <1>4

\* After the poll: pipe_w if a write was skipped, idle watchers, check watchers
LEMMA GatheredOK ==
  ASSUME ArraysInv, QueuesOK(q, gathered), OnlyFds(q), gathered \subseteq Watchers,
         \A w \in gathered : IsPending(q, w)
  PROVE  QueuesOK(Gathered, gathered) /\ Kept(q, Gathered)
<1> DEFINE noticed == IF pipe_write_skipped THEN FeedEvent(q, pipe_w, {"EV_CUSTOM"}) ELSE q
           idle == {p \in Pri : Array("idle", p) # <<>>}
           m == Max(idle)
           reified == IdleReify(noticed)
           checks == ToSet(Array("check", 0))
<1>1. Good(q) /\ pipe_w \in Watchers /\ Kind[pipe_w] = "pipe" /\ {"EV_CUSTOM"} \in SUBSET Flags
  BY LoopAssumption, EventsInFlags DEF QueuesOK
<1>2. QueuesOK(noticed, gathered) /\ OnlyFds(noticed) /\ Kept(q, noticed)
  <2>1. CASE pipe_write_skipped
    <3>1. Grown(q, noticed, {pipe_w}, {"EV_CUSTOM"})
      BY <1>1, <2>1, FeedGrows
    <3> HIDE DEF noticed
    <3>2. QueuesOK(noticed, gathered) /\ Kept(q, noticed)
      BY <1>1, <3>1, GrownOK, GrownKept
    <3>3. ASSUME NEW w \in Watchers, IsPending(noticed, w) PROVE Kind[w] \in FdKinds
      <4>1. FedTo(q, noticed, {pipe_w}, {"EV_CUSTOM"}, w)
        BY <3>1 DEF Grown
      <4>2. w = pipe_w \/ IsPending(q, w)
        BY <3>3, <4>1 DEF FedTo, IsPending
      <4> QED BY <1>1, <4>2 DEF FdKinds, OnlyFds
    <3> QED BY <3>2, <3>3 DEF OnlyFds
  <2>2. CASE ~pipe_write_skipped
    BY <2>2 DEF Kept
  <2> QED BY <2>1, <2>2
<1> HIDE DEF noticed
<1>3. Good(noticed) /\ noticed.priority = Priority
  BY <1>2 DEF QueuesOK
<1>4. /\ QueuesOK(reified, gathered) /\ Kept(noticed, reified)
      /\ \A w \in Watchers : Kind[w] = "check" => ~IsPending(reified, w)
  <2>0. \A w \in Watchers : Kind[w] = "check" => ~IsPending(noticed, w)
    BY <1>2 DEF OnlyFds, FdKinds
  <2>1. CASE idle # {} /\ \A p \in m .. NUMPRI - 1 : noticed.pendings[p] = <<>>
    <3>1. m \in Pri
      BY <2>1, MaxIdle
    <3>2. reified = QueueEvents(noticed, Array("idle", m), {"EV_IDLE"})
      BY <2>1 DEF IdleReify
    <3>3. {"EV_IDLE"} \in SUBSET Flags
      BY EventsInFlags
    <3> HIDE DEF idle, m, reified
    <3>4. /\ Grown(noticed, reified, ToSet(Array("idle", m)), {"EV_IDLE"})
          /\ \A w \in ToSet(Array("idle", m)) :
               w \in Watchers /\ Kind[w] = "idle" /\ Priority[w] = m
      BY <1>3, <3>2, <3>3, ArrayGrows
    <3>5. ASSUME NEW g \in gathered PROVE Priority[g] < m
      <4>1. IsPending(noticed, g)
        BY <1>2 DEF Kept
      <4>2. Priority[g] \in Pri /\ noticed.pendings[Priority[g]] # <<>>
        BY ZenonT(40), <1>3, <4>1, EntryAt
      <4>3. Priority[g] \notin m .. NUMPRI - 1
        BY <2>1, <4>2
      <4> QED BY <3>1, <4>2, <4>3, PendingAssumption DEF Pri
    <3>6. QueuesOK(reified, gathered)
      BY <1>2, <3>4, <3>5, IdleFedOK
    <3>7. ASSUME NEW w \in Watchers, Kind[w] = "check" PROVE ~IsPending(reified, w)
      <4>1. FedTo(noticed, reified, ToSet(Array("idle", m)), {"EV_IDLE"}, w)
        BY <3>4 DEF Grown
      <4>2. w \notin ToSet(Array("idle", m))
        BY <3>4, <3>7
      <4> QED BY <2>0, <3>7, <4>1, <4>2 DEF FedTo, IsPending
    <3> QED BY <1>3, <3>4, <3>6, <3>7, GrownKept
  <2>2. CASE ~(idle # {} /\ \A p \in m .. NUMPRI - 1 : noticed.pendings[p] = <<>>)
    <3>1. reified = noticed
      BY <2>2 DEF IdleReify
    <3> QED BY <1>2, <2>0, <3>1 DEF Kept
  <2> QED BY <2>1, <2>2
<1>5. Gathered = QueueEvents(reified, Array("check", 0), {"EV_CHECK"})
  BY DEF Gathered, noticed
<1> HIDE DEF reified
<1>6. Good(reified) /\ {"EV_CHECK"} \in SUBSET Flags
  BY <1>4, EventsInFlags DEF QueuesOK
<1>7. /\ Grown(reified, Gathered, checks, {"EV_CHECK"})
      /\ \A w \in checks : w \in Watchers /\ Kind[w] = "check"
  BY <1>5, <1>6, ArrayGrows
<1>8. QueuesOK(Gathered, gathered)
  <2> HIDE DEF checks
  <2> QED BY <1>4, <1>7, CheckFedOK
<1>9. Kept(reified, Gathered)
  BY <1>6, <1>7, GrownKept
<1>10. Kept(q, Gathered)
  BY <1>2, <1>4, <1>9 DEF Kept
<1> QED BY <1>8, <1>10

-----------------------------------------------------------------------------
\* The inductive invariant

\* While the innermost ev_run polls, nothing is queued but what it gathers.
GatherInv ==
  /\ At("poll") \/ At("gather") => OnlyFds(q)
  /\ At("gather") => /\ ready \subseteq gathered
                     /\ gathered \subseteq {w \in Watchers : Kind[w] \in FdKinds}
                     /\ \A w \in gathered \ ready : IsPending(q, w)

\* A sent async has been fed, or someone will: there is a byte in evpipe, a
\* write was skipped, which the loop notices before it blocks and after the
\* poll, or pipe_w is pending.
AsyncInv ==
  /\ {async_pending, pipe_write_skipped, pipe, blocking} \subseteq BOOLEAN
  /\ sent \subseteq {w \in User : Kind[w] = "async"}
  /\ async_pending \/ AllFed
  /\ async_pending => pipe \/ pipe_write_skipped \/ IsPending(q, pipe_w)
  /\ At("poll") /\ blocking => ~pipe_write_skipped

\* The fork watchers that do not know yet are queued when some ev_run calls
\* them, and there are none when one goes on to the poll.
ForkInv ==
  /\ postfork # 1 => unforked = {}
  /\ At("poll") => postfork = 0
  /\ unforked \subseteq {w \in User : Kind[w] = "fork" /\ IsActive(w)}
  /\ InPhase("fork") => \A w \in unforked : "EV_FORK" \in EventsAt(q, w)
  /\ InPhase("prepare") => unforked = {}

PhasesInv ==
  /\ FramesInv /\ ArraysInv
  /\ QueuesOK(q, gathered)
  /\ GatherInv /\ AsyncInv /\ ForkInv

LEMMA InitPhasesInv == Init => PhasesInv
<1> SUFFICES ASSUME Init PROVE PhasesInv
  OBVIOUS
<1>1. FramesInv /\ ArraysInv
  BY InitFramesInv, InitLoopInv DEF LoopInv
<1>2. QueuesOK(q, gathered)
  BY EmptyQueuesOK DEF Init
<1>3. runs = <<>> /\ Depth = 0
  BY DEF Init, Depth
<1>4. GatherInv /\ AsyncInv /\ ForkInv
  BY <1>3 DEF Init, GatherInv, AsyncInv, ForkInv, At, InPhase, AllFed
<1> QED BY <1>1, <1>2, <1>4 DEF PhasesInv

\* Steps that leave the queues alone
LEMMA SameQueues ==
  ASSUME QueuesOK(q, gathered), UNCHANGED <<q, gathered>>
  PROVE  QueuesOK(q', gathered')
OBVIOUS

LEMMA StepQueues ==
  ASSUME PhasesInv, [Next]_vars
  PROVE  QueuesOK(q', gathered')
<1> USE DEF PhasesInv
<1>1. CASE LoopStep
  <2>1. CASE InvokeDummy \/ InvokeUser
    <3>1. HasPending(q) /\ q' = PopEntry(q, NextPri(q)) /\ gathered' = gathered
      BY <2>1 DEF InvokeDummy, InvokeUser, pvars
    <3>2. Shrunk(q, q', NextEntry.w)
      BY <3>1, Popped
    <3> QED BY <3>1, <3>2, ShrunkOK
  <2>2. CASE InvokePipecb
    <3> DEFINE popped == PopEntry(q, NextPri(q))
    <3>1. HasPending(q) /\ gathered' = gathered
      BY <2>2 DEF InvokePipecb, pvars
    <3>2. Shrunk(q, popped, NextEntry.w)
      BY <3>1, Popped
    <3>3. q' = popped \/ q' = FeedAsyncs(popped)
      BY <2>2 DEF InvokePipecb
    <3> HIDE DEF popped
    <3>4. QueuesOK(popped, gathered) /\ Good(popped)
      BY <3>2, ShrunkOK DEF QueuesOK
    <3>5. CASE q' = FeedAsyncs(popped)
      <4>1. PICK S : Grown(popped, FeedAsyncs(popped), S, {"EV_ASYNC"})
        BY <3>4, FeedAsyncsGrows
      <4> QED BY <3>1, <3>4, <3>5, <4>1, GrownOK
    <3> QED BY <3>1, <3>3, <3>4, <3>5
  <2>3. CASE QueueForks \/ QueuePrepares
    <3>1. /\ gathered' = gathered
          /\ \/ q' = q
             \/ q' = QueueEvents(q, Array("fork", 0), {"EV_FORK"})
             \/ q' = QueueEvents(q, Array("prepare", 0), {"EV_PREPARE"})
      BY <2>3 DEF QueueForks, QueuePrepares, pvars
    <3>2. Good(q) /\ {"EV_FORK"} \in SUBSET Flags /\ {"EV_PREPARE"} \in SUBSET Flags
      BY EventsInFlags DEF QueuesOK
    <3>3. CASE q' = QueueEvents(q, Array("fork", 0), {"EV_FORK"})
      <4>1. Grown(q, q', ToSet(Array("fork", 0)), {"EV_FORK"})
        BY <3>2, <3>3, ArrayGrows
      <4> QED BY <3>1, <4>1, GrownOK
    <3>4. CASE q' = QueueEvents(q, Array("prepare", 0), {"EV_PREPARE"})
      <4>1. Grown(q, q', ToSet(Array("prepare", 0)), {"EV_PREPARE"})
        BY <3>2, <3>4, ArrayGrows
      <4> QED BY <3>1, <4>1, GrownOK
    <3> QED BY <3>1, <3>3, <3>4
  <2>4. CASE BeforePoll
    <3>1. ~HasPending(q) /\ LoopFork
      BY <2>4 DEF BeforePoll, Invoked
    <3> QED BY <3>1, LoopForkOK
  <2>5. CASE PollReturns
    <3>1. OnlyFds(q) /\ q' = q
      BY <2>5 DEF PollReturns, GatherInv
    <3> QED BY <3>1, RegatheredOK
  <2>6. CASE \E w \in Watchers : GatherIo(w)
    <3>1. PICK w \in Watchers : GatherIo(w)
      BY <2>6
    <3>2. Kind[w] \in FdKinds /\ OnlyFds(q) /\ gathered' = gathered
      BY <3>1 DEF GatherIo, GatherInv
    <3>3. Grown(q, q', {w}, {"EV_READ"})
      <4>1. Good(q) /\ {"EV_READ"} \in SUBSET Flags
        BY EventsInFlags DEF QueuesOK
      <4> QED BY <3>1, <4>1, FeedGrows DEF GatherIo
    <3> QED BY <3>2, <3>3, ReadFedOK
  <2>7. CASE Gather
    <3>1. /\ OnlyFds(q) /\ gathered \subseteq Watchers /\ \A w \in gathered : IsPending(q, w)
          /\ q' = Gathered /\ gathered' = gathered
      BY <2>7 DEF Gather, GatherInv, pvars
    <3> QED BY <3>1, GatheredOK
  <2>8. CASE CallbackReturns \/ FirstInvoked \/ BreakBeforePoll \/ Iterate \/ Finish
    BY <2>8, SameQueues DEF CallbackReturns, FirstInvoked, BreakBeforePoll, Iterate, Finish, pvars
  <2> QED BY <1>1, <2>1, <2>2, <2>3, <2>4, <2>5, <2>6, <2>7, <2>8 DEF LoopStep
<1>2. CASE UserStep
  <2>1. CASE \E w \in Watchers : Stop(w)
    <3>1. PICK w \in Watchers : Stop(w)
      BY <2>1
    <3>2. Shrunk(q, q', w) /\ gathered' = gathered
      BY <3>1, ClearShrinks DEF Stop, QueuesOK, pvars
    <3> QED BY <3>2, ShrunkOK
  <2>2. CASE \E w \in Watchers : EvFeedEvent(w)
    <3>1. PICK w \in Watchers : EvFeedEvent(w)
      BY <2>2
    <3>2. Good(q) /\ {"EV_CUSTOM"} \in SUBSET Flags
      BY EventsInFlags DEF QueuesOK
    <3>3. Grown(q, q', {w}, {"EV_CUSTOM"}) /\ gathered' = gathered
      BY <3>1, <3>2, FeedGrows DEF EvFeedEvent, pvars
    <3> QED BY <3>3, GrownOK
  <2>3. CASE \/ \E w \in Watchers : Start(w)
             \/ \E n \in {-1, 1} : EvRefUnref(n)
             \/ \E how \in Hows : EvBreak(how)
             \/ EvLoopFork
             \/ \E flags \in RunFlags : EvRun(flags)
    BY <2>3, SameQueues DEF Start, EvRefUnref, EvBreak, EvLoopFork, EvRun, pvars
  <2> QED BY <1>2, <2>1, <2>2, <2>3 DEF UserStep
<1>3. CASE OtherThread
  BY <1>3, SameQueues DEF OtherThread, EvAsyncSend, RemoteBreak, pvars
<1>4. CASE UNCHANGED vars
  BY <1>4, SameQueues DEF vars, pvars
<1> QED BY <1>1, <1>2, <1>3, <1>4 DEF Next

\* Polling and gathering, only other threads do anything else.
LEMMA PollOnly ==
  ASSUME At("poll"), [Next]_vars
  PROVE  PollReturns \/ UNCHANGED <<q, runs, postfork, blocking>>
<1>1. CASE LoopStep
  <2>1. CASE PollReturns
    BY <2>1
  <2>2. CASE ~PollReturns
    BY <1>1, <2>2 DEF LoopStep, InvokeDummy, InvokeUser, InvokePipecb, MayInvoke, Invoking,
       CallbackReturns, FirstInvoked, QueueForks, QueuePrepares, BreakBeforePoll, BeforePoll,
       Invoked, GatherIo, Gather, Iterate, Finish, At
  <2> QED BY <2>1, <2>2
<1>2. CASE UserStep
  <2>1. ~InUserCode
    BY DEF InUserCode, At
  <2> QED BY <1>2, <2>1 DEF UserStep, Start, Stop, EvFeedEvent, EvRefUnref, EvBreak,
        EvLoopFork, EvRun
<1>3. CASE OtherThread
  BY <1>3 DEF OtherThread, EvAsyncSend, RemoteBreak, pvars
<1>4. CASE UNCHANGED vars
  BY <1>4 DEF vars, pvars
<1> QED BY <1>1, <1>2, <1>3, <1>4 DEF Next

LEMMA GatherOnly ==
  ASSUME At("gather"), [Next]_vars
  PROVE  \/ \E w \in Watchers : GatherIo(w)
         \/ Gather
         \/ UNCHANGED <<q, ready, gathered>>
<1>1. CASE LoopStep
  <2>1. CASE Gather \/ \E w \in Watchers : GatherIo(w)
    BY <2>1
  <2>2. CASE ~(Gather \/ \E w \in Watchers : GatherIo(w))
    BY <1>1, <2>2 DEF LoopStep, InvokeDummy, InvokeUser, InvokePipecb, MayInvoke, Invoking,
       CallbackReturns, FirstInvoked, QueueForks, QueuePrepares, BreakBeforePoll, BeforePoll,
       Invoked, PollReturns, Iterate, Finish, At
  <2> QED BY <2>1, <2>2
<1>2. CASE UserStep
  <2>1. ~InUserCode
    BY DEF InUserCode, At
  <2> QED BY <1>2, <2>1 DEF UserStep, Start, Stop, EvFeedEvent, EvRefUnref, EvBreak,
        EvLoopFork, EvRun
<1>3. CASE OtherThread
  BY <1>3 DEF OtherThread, EvAsyncSend, RemoteBreak, pvars
<1>4. CASE UNCHANGED vars
  BY <1>4 DEF vars, pvars
<1> QED BY <1>1, <1>2, <1>3, <1>4 DEF Next

LEMMA StepGather ==
  ASSUME PhasesInv, [Next]_vars
  PROVE  GatherInv'
<1>0. PhaseSteps
  BY StepPhases DEF PhasesInv
<1>1. ASSUME At("poll")' PROVE OnlyFds(q')
  <2>1. CASE BeforePoll
    <3>1. ~HasPending(q) /\ LoopFork /\ QueuesOK(q, gathered)
      BY <2>1 DEF BeforePoll, Invoked, PhasesInv
    <3> QED BY <3>1, LoopForkOK
  <2>2. CASE At("poll") /\ UNCHANGED runs
    <3>1. OnlyFds(q)
      BY <2>2 DEF PhasesInv, GatherInv
    <3>2. q' = q
      BY <2>2, PollOnly DEF PollReturns
    <3> QED BY <3>1, <3>2
  <2> QED BY <1>0, <1>1, <2>1, <2>2 DEF PhaseSteps
<1>2. ASSUME At("gather")'
      PROVE  /\ OnlyFds(q') /\ ready' \subseteq gathered'
             /\ gathered' \subseteq {w \in Watchers : Kind[w] \in FdKinds}
             /\ \A w \in gathered' \ ready' : IsPending(q', w)
  <2>1. CASE PollReturns
    <3>1. q' = q /\ gathered' = ready' /\ OnlyFds(q)
      BY <2>1 DEF PollReturns, PhasesInv, GatherInv
    <3>2. PICK io \in SUBSET {w \in User : Kind[w] = "io" /\ IsActive(w)} :
            ready' = IF pipe THEN io \cup {pipe_w} ELSE io
      BY <2>1 DEF PollReturns
    <3>3. ready' \subseteq {w \in Watchers : Kind[w] \in FdKinds}
      BY <3>2, LoopAssumption DEF FdKinds, User
    <3> QED BY <3>1, <3>3
  <2>2. CASE At("gather") /\ UNCHANGED runs
    <3>1. /\ OnlyFds(q) /\ ready \subseteq gathered
          /\ gathered \subseteq {w \in Watchers : Kind[w] \in FdKinds}
          /\ \A w \in gathered \ ready : IsPending(q, w)
          /\ QueuesOK(q, gathered) /\ FramesInv
      BY <2>2 DEF PhasesInv, GatherInv
    <3>2. CASE \E w \in Watchers : GatherIo(w)
      <4>1. PICK w \in Watchers : GatherIo(w)
        BY <3>2
      <4>2. /\ w \in gathered /\ Kind[w] \in FdKinds
            /\ gathered' = gathered /\ ready' = ready \ {w}
        BY <3>1, <4>1 DEF GatherIo
      <4>3. Good(q) /\ {"EV_READ"} \in SUBSET Flags
        BY <3>1, EventsInFlags DEF QueuesOK
      <4>4. Grown(q, q', {w}, {"EV_READ"})
        BY <4>1, <4>3, FeedGrows DEF GatherIo
      <4>5. OnlyFds(q')
        BY <3>1, <4>2, <4>4, ReadFedOK
      <4>6. ASSUME NEW x \in gathered' \ ready' PROVE IsPending(q', x)
        <5>1. x \in Watchers /\ FedTo(q, q', {w}, {"EV_READ"}, x)
          BY <3>1, <4>2, <4>4 DEF Grown
        <5>2. x = w \/ IsPending(q, x)
          BY <3>1, <4>2
        <5> QED BY <5>1, <5>2 DEF FedTo, IsPending
      <4> QED BY <3>1, <4>2, <4>5, <4>6
    <3>3. CASE Gather
      <4>1. Top'.pc = "iterate"
        BY <2>2, <3>1, <3>3, GotoTop DEF Gather, At, FramesInv, Invoking
      <4> QED BY <1>2, <4>1 DEF At
    <3>4. CASE UNCHANGED <<q, ready, gathered>>
      BY <3>1, <3>4
    <3> QED BY <2>2, <3>2, <3>3, <3>4, GatherOnly
  <2> QED BY <1>0, <1>2, <2>1, <2>2 DEF PhaseSteps
<1> QED BY <1>1, <1>2 DEF GatherInv

\* Sends, fed asyncs and pipe_w

LEMMA StepAsync ==
  ASSUME PhasesInv, LoopInv, [Next]_vars
  PROVE  AsyncInv'
<1>0. /\ PhaseSteps /\ ArraysInv /\ AsyncInv
      /\ QueuesOK(q, gathered) /\ Good(q)
      /\ pipe_w \in Watchers /\ pipe_w \notin User /\ Kind[pipe_w] = "pipe"
  BY StepPhases, LoopAssumption DEF PhasesInv, QueuesOK, User
\* the poll begins with no write skipped, and does not see one being skipped
<1>1. ASSUME At("poll") /\ pipe_write_skipped' => pipe_write_skipped
      PROVE  At("poll")' /\ blocking' => ~pipe_write_skipped'
  <2>1. CASE BeforePoll
    BY <2>1 DEF BeforePoll, MayBlock
  <2>2. CASE At("poll") /\ UNCHANGED runs
    <3>1. PollReturns \/ blocking' = blocking
      BY <2>2, PollOnly
    <3>2. PollReturns => blocking' = blocking
      BY DEF PollReturns
    <3> QED BY <1>0, <1>1, <2>2, <3>1, <3>2 DEF AsyncInv
  <2> QED BY <1>0, <2>1, <2>2 DEF PhaseSteps
<1>2. ASSUME UNCHANGED avars, blocking' \in BOOLEAN,
             \A w \in sent : IsActive(w)' => IsActive(w),
             IsPending(q, pipe_w) => IsPending(q', pipe_w)
      PROVE  AsyncInv'
  BY <1>0, <1>1, <1>2 DEF AsyncInv, avars, AllFed
<1>3. ASSUME UNCHANGED <<avars, active, blocking>>, IsPending(q, pipe_w) => IsPending(q', pipe_w)
      PROVE  AsyncInv'
  BY <1>0, <1>2, <1>3 DEF IsActive, AsyncInv
<1>4. CASE LoopStep
  <2>1. CASE InvokeDummy \/ InvokeUser
    <3>1. /\ HasPending(q) /\ q' = PopEntry(q, NextPri(q)) /\ NextEntry.w # pipe_w
          /\ UNCHANGED <<avars, active, blocking>>
      BY <1>0, <2>1, PendingAssumption DEF InvokeDummy, InvokeUser, wvars, pvars
    <3>2. Shrunk(q, q', NextEntry.w)
      BY <1>0, <3>1, Popped
    <3>3. q'.pending[pipe_w] = q.pending[pipe_w]
      BY <1>0, <3>1, <3>2 DEF Shrunk
    <3> QED BY <1>3, <3>1, <3>3 DEF IsPending
  <2>2. CASE InvokePipecb
    <3>1. /\ async_pending' = FALSE /\ pipe_write_skipped' = FALSE
          /\ pipe' = (pipe /\ "EV_READ" \notin NextEntry.events)
          /\ sent' = IF async_pending THEN sent \ ToSet(Array("async", 0)) ELSE sent
          /\ UNCHANGED <<active, blocking>>
      BY <2>2 DEF InvokePipecb, wvars, pvars
    <3>2. ASSUME NEW w \in sent' PROVE ~IsActive(w)
      <4>1. CASE async_pending
        <5>1. w \in User /\ Kind[w] = "async" /\ w \notin ToSet(Array("async", 0))
          BY <1>0, <3>1, <3>2, <4>1 DEF AsyncInv
        <5>2. IsActive(w) => \E i \in 1 .. Len(Array("async", 0)) : Array("async", 0)[i] = w
          BY <1>0, <5>1, ArrayHas DEF InArray
        <5>3. Array("async", 0) \in Seq(Watchers)
          BY <1>0, ArrayHas
        <5> QED BY <5>1, <5>2, <5>3 DEF ToSet
      <4>2. CASE ~async_pending
        BY <1>0, <3>1, <3>2, <4>2 DEF AsyncInv, AllFed
      <4> QED BY <4>1, <4>2
    <3>3. AllFed'
      BY <3>1, <3>2 DEF AllFed, IsActive
    <3>4. {async_pending', pipe_write_skipped', pipe', blocking'} \subseteq BOOLEAN
      BY <1>0, <3>1 DEF AsyncInv
    <3>5. sent' \subseteq {w \in User : Kind[w] = "async"}
      BY <1>0, <3>1 DEF AsyncInv
    <3> QED BY <3>1, <3>3, <3>4, <3>5 DEF AsyncInv
  <2>3. CASE QueueForks \/ QueuePrepares
    <3>1. /\ UNCHANGED <<avars, active, blocking>>
          /\ \/ q' = q
             \/ q' = QueueEvents(q, Array("fork", 0), {"EV_FORK"})
             \/ q' = QueueEvents(q, Array("prepare", 0), {"EV_PREPARE"})
      BY <2>3 DEF QueueForks, QueuePrepares, wvars, pvars
    <3>2. {"EV_FORK"} \in SUBSET Flags /\ {"EV_PREPARE"} \in SUBSET Flags
      BY EventsInFlags
    <3>3. \/ q' = q
          \/ Grown(q, q', ToSet(Array("fork", 0)), {"EV_FORK"})
          \/ Grown(q, q', ToSet(Array("prepare", 0)), {"EV_PREPARE"})
      BY <1>0, <3>1, <3>2, ArrayGrows
    <3>4. q' = q \/ Kept(q, q')
      BY <1>0, <3>3, GrownKept
    <3> QED BY <1>0, <1>3, <3>1, <3>4 DEF Kept
  <2>4. CASE BeforePoll
    <3>1. /\ LoopFork /\ ~HasPending(q) /\ blocking' = MayBlock
          /\ UNCHANGED <<sent, async_pending, pipe_write_skipped, active>>
      BY <2>4 DEF BeforePoll, Invoked, wvars
    <3>2. MayBlock \in BOOLEAN
      BY DEF MayBlock
    <3>3. CASE UNCHANGED <<q, pipe>>
      BY <1>2, <3>1, <3>2, <3>3 DEF avars, IsActive
    <3>4. CASE ~UNCHANGED <<q, pipe>>
      <4>1. q' = FeedEvent(ClearPending(q, pipe_w), pipe_w, {"EV_CUSTOM"}) /\ pipe' = FALSE
        BY <3>1, <3>4 DEF LoopFork
      <4>2. {"EV_CUSTOM"} \in SUBSET Flags /\ Good(ClearPending(q, pipe_w))
        BY <1>0, EventsInFlags, ClearGood
      <4>3. IsPending(q', pipe_w)
        <5>1. Grown(ClearPending(q, pipe_w), q', {pipe_w}, {"EV_CUSTOM"})
          BY <1>0, <4>1, <4>2, FeedGrows
        <5> QED BY <1>0, <5>1 DEF Grown, FedTo
      <4>4. At("poll")' /\ blocking' => ~pipe_write_skipped'
        BY <1>1, <3>1
      <4> QED BY <1>0, <3>1, <3>2, <4>1, <4>3, <4>4 DEF AsyncInv, AllFed, IsActive
    <3> QED BY <3>3, <3>4
  <2>5. CASE \E w \in Watchers : GatherIo(w)
    <3>1. PICK w \in Watchers : GatherIo(w)
      BY <2>5
    <3>2. {"EV_READ"} \in SUBSET Flags
      BY EventsInFlags
    <3>3. Grown(q, q', {w}, {"EV_READ"})
      BY <1>0, <3>1, <3>2, FeedGrows DEF GatherIo
    <3>4. Kept(q, q')
      BY <1>0, <3>3, GrownKept
    <3> QED BY <1>0, <1>3, <3>1, <3>4 DEF Kept, GatherIo, wvars
  <2>6. CASE Gather
    <3>1. /\ OnlyFds(q) /\ gathered \subseteq Watchers /\ \A w \in gathered : IsPending(q, w)
          /\ q' = Gathered /\ UNCHANGED <<avars, active, blocking>>
      BY <2>6 DEF Gather, PhasesInv, GatherInv, wvars, pvars
    <3>2. Kept(q, q')
      BY <1>0, <3>1, GatheredOK
    <3> QED BY <1>0, <1>3, <3>1, <3>2 DEF Kept
  <2>7. CASE \/ CallbackReturns \/ FirstInvoked \/ BreakBeforePoll \/ PollReturns
             \/ Iterate \/ Finish
    BY <1>3, <2>7 DEF CallbackReturns, FirstInvoked, BreakBeforePoll, PollReturns, Iterate,
       Finish, wvars, pvars
  <2> QED BY <1>4, <2>1, <2>2, <2>3, <2>4, <2>5, <2>6, <2>7 DEF LoopStep
<1>5. CASE UserStep
  <2>1. CASE \E w \in Watchers : Start(w)
    <3>1. PICK w \in Watchers : Start(w)
      BY <2>1
    <3>2. /\ sent' = sent \ {w}
          /\ UNCHANGED <<q, async_pending, pipe_write_skipped, pipe, blocking>>
      BY <3>1 DEF Start, pvars
    <3>3. \A x \in User \ {w} : active'[x] = active[x]
      BY <1>0, <3>1, StartActive
    <3>4. At("poll")' /\ blocking' => ~pipe_write_skipped'
      BY <1>1, <3>2
    <3>5. AllFed => AllFed'
      BY <1>0, <3>2, <3>3 DEF AllFed, IsActive, AsyncInv
    <3> QED BY <1>0, <3>2, <3>4, <3>5 DEF AsyncInv
  <2>2. CASE \E w \in Watchers : Stop(w)
    <3>1. PICK w \in Watchers : Stop(w)
      BY <2>2
    <3>2. UNCHANGED <<avars, blocking>> /\ w # pipe_w /\ Shrunk(q, q', w)
      BY <1>0, <3>1, ClearShrinks DEF Stop, pvars
    <3>3. IsPending(q, pipe_w) => IsPending(q', pipe_w)
      BY <1>0, <3>2 DEF Shrunk, IsPending
    <3>4. ASSUME NEW x \in sent, IsActive(x)' PROVE IsActive(x)
      <4>1. x \in User
        BY <1>0 DEF AsyncInv
      <4>2. /\ active'[w] = 0
            /\ \A y \in User \ {w} : active'[y] # 0 <=> active[y] # 0
        BY <1>0, <3>1, StopArraysInv
      <4> QED BY <3>4, <4>1, <4>2 DEF IsActive
    <3>5. blocking' \in BOOLEAN
      BY <1>0, <3>2 DEF AsyncInv
    <3> QED BY <1>2, <3>2, <3>3, <3>4, <3>5
  <2>3. CASE \E w \in Watchers : EvFeedEvent(w)
    <3>1. PICK w \in Watchers : EvFeedEvent(w)
      BY <2>3
    <3>2. {"EV_CUSTOM"} \in SUBSET Flags
      BY EventsInFlags
    <3>3. Grown(q, q', {w}, {"EV_CUSTOM"})
      BY <1>0, <3>1, <3>2, FeedGrows DEF EvFeedEvent
    <3>4. Kept(q, q')
      BY <1>0, <3>3, GrownKept
    <3> QED BY <1>0, <1>3, <3>1, <3>4 DEF Kept, EvFeedEvent, wvars, pvars
  <2>4. CASE \/ \E n \in {-1, 1} : EvRefUnref(n)
             \/ \E how \in Hows : EvBreak(how)
             \/ EvLoopFork
             \/ \E flags \in RunFlags : EvRun(flags)
    BY <1>3, <2>4 DEF EvRefUnref, EvBreak, EvLoopFork, EvRun, wvars, pvars
  <2> QED BY <1>5, <2>1, <2>2, <2>3, <2>4 DEF UserStep
<1>6. CASE OtherThread
  <2>1. CASE \E w \in Watchers : EvAsyncSend(w)
    <3>1. PICK w \in Watchers : EvAsyncSend(w)
      BY <2>1
    <3>2. /\ sent' = sent \cup {w} /\ async_pending' = TRUE
          /\ pipe_write_skipped' = IF async_pending THEN pipe_write_skipped ELSE ~Wanted
          /\ pipe' = (pipe \/ (~async_pending /\ Wanted))
          /\ UNCHANGED <<q, blocking>>
          /\ w \in User /\ Kind[w] = "async"
      BY <3>1 DEF EvAsyncSend, pvars
    <3>3. At("poll") => Wanted
      BY DEF Wanted
    <3>4. At("poll")' /\ blocking' => ~pipe_write_skipped'
      BY <1>1, <3>2, <3>3
    <3>5. {async_pending', pipe_write_skipped', pipe', blocking'} \subseteq BOOLEAN
      BY <1>0, <3>2 DEF AsyncInv
    <3> QED BY <1>0, <3>2, <3>4, <3>5 DEF AsyncInv
  <2>2. CASE \E how \in Hows : RemoteBreak(how)
    BY <1>0, <1>2, <2>2 DEF RemoteBreak, wvars, pvars, IsActive, AsyncInv
  <2> QED BY <1>6, <2>1, <2>2 DEF OtherThread
<1>7. CASE UNCHANGED vars
  BY <1>0, <1>2, <1>7 DEF vars, wvars, pvars, IsActive, AsyncInv
<1> QED BY <1>4, <1>5, <1>6, <1>7 DEF Next

\* The fork watchers

LEMMA StepFork ==
  ASSUME PhasesInv, [Next]_vars
  PROVE  ForkInv'
<1>0. /\ PhaseSteps /\ FramesInv /\ ArraysInv /\ ForkInv
      /\ QueuesOK(q, gathered) /\ Good(q)
      /\ pipe_w \in Watchers /\ pipe_w \notin User /\ User \subseteq Watchers
      /\ unforked \subseteq User /\ pending_w \notin User
  BY StepPhases, LoopAssumption, PendingAssumption DEF PhasesInv, QueuesOK, User, ForkInv
<1> DEFINE Remain == /\ postfork' = postfork /\ unforked' \subseteq unforked
                     /\ \A w \in unforked' : IsActive(w)'
<1>1. ASSUME Remain,
             InPhase("fork")' => \A w \in unforked' : "EV_FORK" \in EventsAt(q', w),
             InPhase("prepare")' => unforked' = {}
      PROVE  ForkInv'
  <2>1. At("poll")' => postfork' = 0
    BY <1>0, <1>1 DEF PhaseSteps, ForkInv, BeforePoll, LoopFork
  <2> QED BY <1>0, <1>1, <2>1 DEF ForkInv
<1>2. ASSUME Remain, \A w \in unforked' : EventsAt(q, w) \subseteq EventsAt(q', w),
             InPhase("fork")' => InPhase("fork"), InPhase("prepare")' => InPhase("prepare")
      PROVE  ForkInv'
  BY <1>0, <1>1, <1>2 DEF ForkInv
<1>3. ASSUME UNCHANGED <<runs, postfork>>, unforked' \subseteq unforked,
             \A w \in unforked' : IsActive(w)',
             \A w \in unforked' : EventsAt(q, w) \subseteq EventsAt(q', w)
      PROVE  ForkInv'
  BY <1>0, <1>2, <1>3, SameFrames
<1>4. ASSUME ~QueueForks, ~QueuePrepares, UNCHANGED <<q, postfork, unforked, active>>
      PROVE  ForkInv'
  <2>1. \A w \in unforked : IsActive(w)'
    BY <1>0, <1>4 DEF ForkInv, IsActive
  <2>2. (InPhase("fork")' => InPhase("fork")) /\ (InPhase("prepare")' => InPhase("prepare"))
    BY <1>0, <1>4 DEF PhaseSteps
  <2> QED BY <1>2, <1>4, <2>1, <2>2
<1>5. ASSUME NEW t, Kept(q, t), q' = t, UNCHANGED <<runs, postfork, unforked, active>>
      PROVE  ForkInv'
  <2>1. \A w \in unforked : IsActive(w)' /\ EventsAt(q, w) \subseteq EventsAt(q', w)
    BY <1>0, <1>5 DEF ForkInv, IsActive, Kept
  <2> QED BY <1>3, <1>5, <2>1
<1>6. \A pc \in Phases : At(pc) => InPhase(pc)
  BY <1>0, TopFrame DEF At, InPhase, Top, FramesInv
<1> HIDE DEF Remain
<1>7. CASE LoopStep
  <2>1. CASE InvokeDummy \/ InvokePipecb
    <3> DEFINE popped == PopEntry(q, NextPri(q))
    <3>1. /\ HasPending(q) /\ NextEntry.w \notin User
          /\ UNCHANGED <<runs, postfork, unforked, active>>
          /\ q' = popped \/ q' = FeedAsyncs(popped)
      BY <1>0, <2>1 DEF InvokeDummy, InvokePipecb, wvars
    <3>2. Shrunk(q, popped, NextEntry.w)
      BY <1>0, <3>1, Popped
    <3> HIDE DEF popped
    <3>3. Good(popped) /\ \A w \in unforked : EventsAt(popped, w) = EventsAt(q, w)
      BY <1>0, <3>1, <3>2 DEF Shrunk
    <3>4. q' = popped \/ Kept(popped, q')
      <4>1. PICK S : Grown(popped, FeedAsyncs(popped), S, {"EV_ASYNC"})
        BY <1>0, <3>3, FeedAsyncsGrows
      <4> QED BY <3>1, <3>3, <4>1, GrownKept
    <3>5. \A w \in unforked : IsActive(w)' /\ EventsAt(q, w) \subseteq EventsAt(q', w)
      BY <1>0, <3>1, <3>3, <3>4 DEF Kept, ForkInv, IsActive
    <3> QED BY <1>3, <3>1, <3>5
  <2>2. CASE InvokeUser
    <3>1. /\ HasPending(q) /\ NextEntry.w \in User /\ q' = PopEntry(q, NextPri(q))
          /\ UNCHANGED <<postfork, active>>
          /\ unforked' = IF "EV_FORK" \in NextEntry.events THEN unforked \ {NextEntry.w}
                                                            ELSE unforked
      BY <2>2 DEF InvokeUser, wvars
    <3>2. ~QueueForks /\ ~QueuePrepares
      BY <2>2 DEF InvokeUser, MayInvoke, Invoking, QueueForks, QueuePrepares, Invoked, At
    <3>3. Shrunk(q, q', NextEntry.w) /\ EventsAt(q, NextEntry.w) = NextEntry.events
      BY <1>0, <3>1, Popped
    <3>4. ASSUME InPhase("fork")', NEW w \in unforked' PROVE "EV_FORK" \in EventsAt(q', w)
      <4>1. w \in unforked /\ "EV_FORK" \in EventsAt(q, w)
        BY <1>0, <3>1, <3>2, <3>4 DEF PhaseSteps, ForkInv
      <4>2. w # NextEntry.w
        BY <3>1, <3>3, <3>4, <4>1
      <4> QED BY <1>0, <3>3, <4>1, <4>2 DEF Shrunk
    <3>5. Remain
      BY <1>0, <3>1 DEF Remain, ForkInv, IsActive
    <3>6. InPhase("prepare")' => unforked' = {}
      BY <1>0, <3>1, <3>2 DEF PhaseSteps, ForkInv
    <3> QED BY <1>1, <3>4, <3>5, <3>6
  <2>3. CASE \/ CallbackReturns \/ FirstInvoked \/ BreakBeforePoll \/ Iterate \/ Finish
    <3>1. ~QueueForks /\ ~QueuePrepares
      BY <2>3 DEF CallbackReturns, FirstInvoked, BreakBeforePoll, Iterate, Finish,
         QueueForks, QueuePrepares, Invoked, At
    <3> QED BY <1>4, <2>3, <3>1 DEF CallbackReturns, FirstInvoked, BreakBeforePoll, Iterate,
            Finish, wvars
  <2>4. CASE QueueForks
    <3>1. /\ UNCHANGED <<postfork, unforked, active>> /\ At("top")
          /\ q' = IF postfork # 0 THEN QueueEvents(q, Array("fork", 0), {"EV_FORK"}) ELSE q
      BY <2>4 DEF QueueForks, wvars
    <3>2. {"EV_FORK"} \in SUBSET Flags
      BY EventsInFlags
    <3>3. ASSUME NEW w \in unforked PROVE "EV_FORK" \in EventsAt(q', w)
      <4>1. /\ postfork = 1 /\ w \in User /\ w \in Watchers
            /\ InArray(w) /\ IsActive(w) /\ Kind[w] = "fork"
        BY <1>0, <3>3 DEF ForkInv, InArray
      <4>2. Grown(q, q', ToSet(Array("fork", 0)), {"EV_FORK"})
        BY <1>0, <3>1, <3>2, <4>1, ArrayGrows
      <4>3. /\ Array("fork", 0) \in Seq(Watchers)
            /\ \E i \in 1 .. Len(Array("fork", 0)) : Array("fork", 0)[i] = w
        BY <1>0, <4>1, ArrayHas
      <4>4. w \in ToSet(Array("fork", 0))
        BY <4>3 DEF ToSet
      <4> QED BY <4>1, <4>2, <4>4 DEF Grown, FedTo
    <3>4. Remain
      BY <1>0, <3>1 DEF Remain, ForkInv, IsActive
    <3>5. ~QueuePrepares
      BY <3>1 DEF QueuePrepares, Invoked, At
    <3>6. InPhase("prepare")' => unforked' = {}
      BY <1>0, <3>1, <3>5 DEF PhaseSteps, ForkInv
    <3> QED BY <1>1, <3>1, <3>3, <3>4, <3>6
  <2>5. CASE QueuePrepares
    <3>1. UNCHANGED <<postfork, unforked, active>> /\ At("fork") /\ ~HasPending(q)
      BY <2>5 DEF QueuePrepares, Invoked, wvars
    <3>2. \A w \in Watchers : EventsAt(q, w) = {}
      BY <1>0, <3>1, NothingPending, EntryAt
    <3>3. InPhase("fork")
      BY <1>6, <3>1 DEF Phases, Invoking
    <3>4. unforked = {}
      BY <1>0, <3>2, <3>3 DEF ForkInv
    <3>5. Remain
      BY <3>1, <3>4 DEF Remain
    <3> QED BY <1>1, <3>1, <3>4, <3>5
  <2>6. CASE BeforePoll
    <3>1. InPhase("prepare")
      BY <1>6, <2>6 DEF BeforePoll, Invoked, Phases, Invoking
    <3>2. unforked' = {} /\ postfork' = 0
      BY <1>0, <2>6, <3>1 DEF BeforePoll, LoopFork, ForkInv
    <3> QED BY <3>2 DEF ForkInv
  <2>7. CASE PollReturns
    <3>1. At("poll") /\ unforked' = unforked
      BY <2>7 DEF PollReturns
    <3>2. unforked' = {}
      BY <1>0, <3>1 DEF ForkInv
    <3>3. Leads({"gather"})
      BY <1>0, <2>7, GotoFrames DEF PollReturns, At, Phases, Invoking
    <3>4. ~At("poll")'
      BY <3>3 DEF Leads, Phases, Invoking
    <3> QED BY <3>2, <3>4 DEF ForkInv
  <2>8. CASE \E w \in Watchers : GatherIo(w)
    <3>1. PICK w \in Watchers : GatherIo(w)
      BY <2>8
    <3>2. {"EV_READ"} \in SUBSET Flags
      BY EventsInFlags
    <3>3. Grown(q, q', {w}, {"EV_READ"})
      BY <1>0, <3>1, <3>2, FeedGrows DEF GatherIo
    <3>4. Kept(q, q')
      BY <1>0, <3>3, GrownKept
    <3> QED BY <1>5, <3>1, <3>4 DEF GatherIo, wvars
  <2>9. CASE Gather
    <3>1. /\ OnlyFds(q) /\ gathered \subseteq Watchers /\ \A w \in gathered : IsPending(q, w)
          /\ q' = Gathered /\ UNCHANGED <<postfork, unforked, active>>
      BY <2>9 DEF Gather, PhasesInv, GatherInv, wvars
    <3>2. Kept(q, q')
      BY <1>0, <3>1, GatheredOK
    <3>3. ~QueueForks /\ ~QueuePrepares
      BY <2>9 DEF Gather, QueueForks, QueuePrepares, Invoked, At
    <3>4. (InPhase("fork")' => InPhase("fork")) /\ (InPhase("prepare")' => InPhase("prepare"))
      BY <1>0, <3>3 DEF PhaseSteps
    <3>5. Remain /\ \A w \in unforked' : EventsAt(q, w) \subseteq EventsAt(q', w)
      BY <1>0, <3>1, <3>2 DEF Remain, ForkInv, IsActive, Kept
    <3> QED BY <1>2, <3>4, <3>5
  <2> QED BY <1>7, <2>1, <2>2, <2>3, <2>4, <2>5, <2>6, <2>7, <2>8, <2>9 DEF LoopStep
<1>8. CASE UserStep
  <2>1. CASE \E w \in Watchers : Start(w)
    <3>1. PICK w \in Watchers : Start(w)
      BY <2>1
    <3>2. UNCHANGED <<q, runs, postfork, unforked>>
      BY <3>1 DEF Start
    <3>3. \A x \in User : active[x] # 0 => active'[x] # 0
      BY <1>0, <3>1, StartActive
    <3>4. \A x \in unforked : IsActive(x)'
      BY <1>0, <3>3 DEF ForkInv, IsActive
    <3> QED BY <1>3, <3>2, <3>4
  <2>2. CASE \E w \in Watchers : Stop(w)
    <3>1. PICK w \in Watchers : Stop(w)
      BY <2>2
    <3>2. UNCHANGED <<runs, postfork>> /\ unforked' = unforked \ {w} /\ Shrunk(q, q', w)
      BY <1>0, <3>1, ClearShrinks DEF Stop
    <3>3. \A x \in User \ {w} : active'[x] # 0 <=> active[x] # 0
      BY <1>0, <3>1, StopArraysInv
    <3>4. \A x \in unforked' : IsActive(x)' /\ EventsAt(q, x) = EventsAt(q', x)
      BY <1>0, <3>2, <3>3 DEF ForkInv, IsActive, Shrunk
    <3> QED BY <1>3, <3>2, <3>4
  <2>3. CASE \E w \in Watchers : EvFeedEvent(w)
    <3>1. PICK w \in Watchers : EvFeedEvent(w)
      BY <2>3
    <3>2. {"EV_CUSTOM"} \in SUBSET Flags
      BY EventsInFlags
    <3>3. Grown(q, q', {w}, {"EV_CUSTOM"})
      BY <1>0, <3>1, <3>2, FeedGrows DEF EvFeedEvent
    <3>4. Kept(q, q')
      BY <1>0, <3>3, GrownKept
    <3> QED BY <1>5, <3>1, <3>4 DEF EvFeedEvent, wvars
  <2>4. CASE EvLoopFork
    <3>1. /\ UNCHANGED <<runs, active>> /\ postfork' = 1 /\ ~InPhase("fork") /\ ~InPhase("prepare")
          /\ unforked' = {w \in User : Kind[w] = "fork" /\ IsActive(w)}
      BY <2>4 DEF EvLoopFork, InPhase, wvars
    <3>2. ~At("poll")
      BY <2>4 DEF EvLoopFork, InUserCode, At
    <3>3. ~At("poll")' /\ ~InPhase("fork")' /\ ~InPhase("prepare")'
      BY <1>0, <3>1, <3>2, SameFrames
    <3> QED BY <3>1, <3>3 DEF ForkInv, IsActive
  <2>5. CASE \/ \E n \in {-1, 1} : EvRefUnref(n)
             \/ \E how \in Hows : EvBreak(how)
             \/ \E flags \in RunFlags : EvRun(flags)
    <3>1. ~QueueForks /\ ~QueuePrepares
      BY <2>5 DEF EvRefUnref, EvBreak, EvRun, InUserCode, QueueForks, QueuePrepares, Invoked, At
    <3> QED BY <1>4, <2>5, <3>1 DEF EvRefUnref, EvBreak, EvRun, wvars
  <2> QED BY <1>8, <2>1, <2>2, <2>3, <2>4, <2>5 DEF UserStep
<1>9. ASSUME UNCHANGED <<q, runs, postfork, unforked, active>> PROVE ForkInv'
  <2>1. \A x \in unforked : IsActive(x)'
    BY <1>0, <1>9 DEF ForkInv, IsActive
  <2> QED BY <1>3, <1>9, <2>1
<1>10. CASE OtherThread
  BY <1>9, <1>10 DEF OtherThread, EvAsyncSend, RemoteBreak, wvars
<1>11. CASE UNCHANGED vars
  BY <1>9, <1>11 DEF vars, wvars
<1> QED BY <1>7, <1>8, <1>10, <1>11 DEF Next

-----------------------------------------------------------------------------
\* What holds of every run

LEMMA StepPhasesInv ==
  PhasesInv /\ LoopInv /\ [Next]_vars => PhasesInv' /\ LoopInv'
<1> SUFFICES ASSUME PhasesInv, LoopInv, [Next]_vars PROVE PhasesInv' /\ LoopInv'
  OBVIOUS
<1>1. FramesInv'
  BY StepPhases DEF PhasesInv, PhaseSteps
<1>2. LoopInv'
  BY StepLoopInv
<1>3. QueuesOK(q', gathered') /\ GatherInv' /\ AsyncInv' /\ ForkInv'
  BY StepQueues, StepGather, StepAsync, StepFork
<1> QED BY <1>1, <1>2, <1>3 DEF PhasesInv, LoopInv

\* The invariant of the phases of ev_run: what is queued, polled, sent and not
\* forked yet fits the phase, for any watchers, priorities and nesting, and
\* whatever callbacks and other threads do.
THEOREM SpecPhasesInv == Spec => [](PhasesInv /\ LoopInv)
BY InitPhasesInv, InitLoopInv, StepPhasesInv, PTL DEF Spec

\* The rest of the loop's state is what it may be; the bounds are the model's.
RangesInv ==
  /\ postfork \in 0 .. 2
  /\ loop_done \in Hows \cup {"EVBREAK_RECURSE"}
  /\ ready \subseteq Watchers /\ gathered \subseteq Watchers
  /\ refs \in -MaxRefs .. MaxRefs
  /\ broken \subseteq 1 .. MaxDepth
  /\ Depth \in 0 .. MaxDepth

LEMMA InitRangesInv == Init => RangesInv
<1> SUFFICES ASSUME Init PROVE RangesInv
  OBVIOUS
<1>1. Depth = 0
  BY DEF Init, Depth
<1>2. 0 \in -MaxRefs .. MaxRefs /\ 0 \in 0 .. MaxDepth
  BY LoopAssumption
<1> QED BY <1>1, <1>2 DEF Init, RangesInv, Hows

LEMMA StepRangesInv ==
  ASSUME RangesInv, FramesInv, [Next]_vars
  PROVE  RangesInv'
<1> DEFINE SameDepth == Depth' = Depth
<1>0. runs \in Seq(Frame) /\ Depth \in Nat /\ MaxDepth \in Nat /\ MaxRefs \in Nat
  BY LoopAssumption DEF FramesInv, Depth
<1>1. ASSUME UNCHANGED runs PROVE SameDepth
  BY <1>1 DEF Depth
<1>2. ASSUME NEW f, runs' = [runs EXCEPT ![Depth] = f] PROVE SameDepth
  BY <1>0, <1>2 DEF Depth
<1>3. ASSUME NEW pc, Goto(pc) PROVE SameDepth
  BY <1>0, <1>3 DEF Goto, Depth
<1>4. ASSUME NEW cb, runs' = [runs EXCEPT ![Depth].cb = cb] PROVE SameDepth
  BY <1>0, <1>4 DEF Depth
<1>5. ASSUME SameDepth, UNCHANGED <<postfork, loop_done, ready, gathered, refs, broken>>
      PROVE  RangesInv'
  BY <1>5 DEF RangesInv
<1>6. ASSUME NEW how \in Hows, Break(how), UNCHANGED <<runs, postfork, ready, gathered, refs>>
      PROVE  RangesInv'
  <2>1. loop_done' \in Hows /\ broken' \subseteq 1 .. MaxDepth
    BY <1>0, <1>6 DEF Break, RangesInv, Hows
  <2> QED BY <1>1, <1>6, <2>1 DEF RangesInv
<1>7. CASE LoopStep
  <2>1. CASE InvokeDummy \/ InvokePipecb
    BY <1>1, <1>5, <2>1 DEF InvokeDummy, InvokePipecb, pvars
  <2>2. CASE InvokeUser
    <3>1. /\ runs' = [runs EXCEPT ![Depth].cb = NextEntry.w]
          /\ UNCHANGED <<postfork, loop_done, ready, gathered, refs, broken>>
      BY <2>2 DEF InvokeUser, pvars
    <3> QED BY <1>4, <1>5, <3>1
  <2>3. CASE CallbackReturns
    <3>1. /\ runs' = [runs EXCEPT ![Depth].cb = pending_w]
          /\ UNCHANGED <<postfork, loop_done, ready, gathered, refs, broken>>
      BY <2>3 DEF CallbackReturns, pvars
    <3> QED BY <1>4, <1>5, <3>1
  <2>4. CASE FirstInvoked \/ QueueForks \/ QueuePrepares \/ BreakBeforePoll \/ Gather \/ Iterate
    <3>1. /\ \E pc \in {"top", "fork", "prepare", "finish", "iterate"} : Goto(pc)
          /\ UNCHANGED <<postfork, loop_done, ready, gathered, refs, broken>>
      BY <2>4 DEF FirstInvoked, QueueForks, QueuePrepares, BreakBeforePoll, Gather, Iterate, pvars
    <3> QED BY <1>3, <1>5, <3>1
  <2>5. CASE BeforePoll
    <3>1. /\ Goto("poll") /\ postfork' = 0 /\ gathered' = {}
          /\ loop_done' = IF NDEBUG THEN loop_done ELSE "EVBREAK_RECURSE"
          /\ UNCHANGED <<ready, refs, broken>>
      BY <2>5 DEF BeforePoll, LoopFork
    <3>2. SameDepth
      BY <1>3, <3>1
    <3> QED BY <3>1, <3>2 DEF RangesInv
  <2>6. CASE PollReturns
    <3>1. /\ Goto("gather") /\ gathered' = ready'
          /\ loop_done' = IF NDEBUG THEN loop_done ELSE "EVBREAK_CANCEL"
          /\ postfork' \in {postfork, 2}
          /\ UNCHANGED <<refs, broken>>
      BY <2>6 DEF PollReturns
    <3>2. ready' \subseteq Watchers
      BY <2>6, LoopAssumption DEF PollReturns, User
    <3>3. SameDepth
      BY <1>3, <3>1
    <3> QED BY <3>1, <3>2, <3>3 DEF RangesInv, Hows
  <2>7. ASSUME NEW w \in Watchers, GatherIo(w) PROVE RangesInv'
    BY <1>1, <2>7 DEF GatherIo, RangesInv
  <2>8. CASE Finish
    <3>1. /\ runs # <<>> /\ runs' = Front(runs) /\ broken' = broken \ {Depth}
          /\ loop_done' \in {loop_done, "EVBREAK_CANCEL"}
          /\ UNCHANGED <<postfork, ready, gathered, refs>>
      BY <2>8 DEF Finish, At, pvars
    <3>2. Depth' = Depth - 1 /\ Depth >= 1
      <4>1. Len(runs) \in Nat /\ Len(runs) # 0
        BY <1>0, <3>1, EmptySeq
      <4>2. Front(runs) = [i \in 1 .. Len(runs) - 1 |-> runs[i]]
        BY <4>1 DEF Front
      <4> QED BY <1>0, <3>1, <4>1, <4>2 DEF Depth
    <3>3. Depth' \in 0 .. MaxDepth
      BY <1>0, <3>2 DEF RangesInv
    <3> QED BY <3>1, <3>3 DEF RangesInv, Hows
  <2> QED BY <1>7, <2>1, <2>2, <2>3, <2>4, <2>5, <2>6, <2>7, <2>8 DEF LoopStep
<1>8. CASE UserStep
  <2>1. CASE \E w \in Watchers : Start(w) \/ Stop(w) \/ EvFeedEvent(w)
    BY <1>1, <1>5, <2>1 DEF Start, Stop, EvFeedEvent, pvars
  <2>2. CASE \E n \in {-1, 1} : EvRefUnref(n)
    BY <1>1, <2>2 DEF EvRefUnref, pvars, RangesInv
  <2>3. CASE \E how \in Hows : EvBreak(how)
    BY <1>6, <2>3 DEF EvBreak, pvars
  <2>4. CASE EvLoopFork
    BY <1>1, <2>4 DEF EvLoopFork, pvars, RangesInv
  <2>5. ASSUME NEW flags \in RunFlags, EvRun(flags) PROVE RangesInv'
    <3>1. /\ Depth < MaxDepth /\ loop_done' = "EVBREAK_CANCEL" /\ broken' = {}
          /\ runs' = Append(runs, [flags |-> flags, cb |-> pending_w, pc |-> "first"])
          /\ UNCHANGED <<postfork, ready, gathered, refs>>
      BY <2>5 DEF EvRun, pvars
    <3>2. Depth' \in 0 .. MaxDepth
      BY <1>0, <3>1 DEF Depth
    <3> QED BY <3>1, <3>2 DEF RangesInv, Hows
  <2> QED BY <1>8, <2>1, <2>2, <2>3, <2>4, <2>5 DEF UserStep
<1>9. CASE OtherThread
  BY <1>1, <1>5, <1>6, <1>9 DEF OtherThread, EvAsyncSend, RemoteBreak, pvars
<1>10. CASE UNCHANGED vars
  BY <1>1, <1>5, <1>10 DEF vars, pvars
<1> QED BY <1>7, <1>8, <1>9, <1>10 DEF Next

(***************************************************************************)
(* The state of the loop is what it may be, the reference count is right   *)
(* and every watcher is in its place, whatever any number of nested        *)
(* callbacks start, stop, count and break.                                 *)
(***************************************************************************)
THEOREM LoopStaysConsistent == Spec => []LoopConsistent
<1>1. Init => RangesInv /\ PhasesInv /\ LoopInv
  BY InitRangesInv, InitPhasesInv, InitLoopInv
<1>2. RangesInv /\ PhasesInv /\ LoopInv /\ [Next]_vars => (RangesInv /\ PhasesInv /\ LoopInv)'
  <2> SUFFICES ASSUME RangesInv, PhasesInv, LoopInv, [Next]_vars
               PROVE  (RangesInv /\ PhasesInv /\ LoopInv)'
    OBVIOUS
  <2>1. RangesInv'
    BY StepRangesInv DEF PhasesInv
  <2> QED BY <2>1, StepPhasesInv
<1>3. RangesInv /\ PhasesInv /\ LoopInv => LoopConsistent
  <2> SUFFICES ASSUME RangesInv, PhasesInv, LoopInv PROVE LoopConsistent
    OBVIOUS
  <2>1. q \in QueueState
    BY DEF PhasesInv, QueuesOK, Good
  <2>2. TypeOK
    BY <2>1 DEF TypeOK, RangesInv, PhasesInv, LoopInv, ArraysInv, FramesInv, AsyncInv, ForkInv
  <2>3. RefsCounted /\ ArraysConsistent
    BY DEF LoopInv, ArraysInv, ArraysConsistent
  <2> QED BY <2>2, <2>3 DEF LoopConsistent
<1> QED BY <1>1, <1>2, <1>3, PTL DEF Spec

\* The loop never blocks with nothing in evpipe while an async that was sent
\* waits, unless pipe_w is pending: async_pending says that someone will feed
\* it, and of the three who might, a byte and a skipped write are excluded.
THEOREM NoAsyncLost == Spec => []AsyncNotLost
<1>1. PhasesInv => AsyncNotLost
  BY DEF PhasesInv, AsyncInv, AsyncNotLost, Blocked
<1> QED BY <1>1, SpecPhasesInv, PTL

LEMMA StepForkWatchersCalled ==
  ASSUME PhasesInv, [Next]_vars, postfork = 1, postfork' = 0
  PROVE  unforked = {}
<1>1. CASE BeforePoll
  <2>1. InPhase("prepare")
    BY <1>1, TopFrame DEF BeforePoll, Invoked, At, InPhase, Top, PhasesInv, FramesInv
  <2> QED BY <2>1 DEF PhasesInv, ForkInv
<1>2. CASE LoopStep /\ ~BeforePoll
  <2>1. postfork' # 0
    BY <1>2 DEF LoopStep, InvokeDummy, InvokeUser, InvokePipecb, CallbackReturns,
       FirstInvoked, QueueForks, QueuePrepares, BreakBeforePoll, PollReturns,
       GatherIo, Gather, Iterate, Finish
  <2> QED BY <2>1
<1>3. CASE UserStep
  <2>1. postfork' # 0
    BY <1>3 DEF UserStep, Start, Stop, EvFeedEvent, EvRefUnref, EvBreak, EvLoopFork, EvRun
  <2> QED BY <2>1
<1>4. CASE OtherThread
  BY <1>4 DEF OtherThread, EvAsyncSend, RemoteBreak
<1>5. CASE UNCHANGED vars
  BY <1>5 DEF vars
<1> QED BY <1>1, <1>2, <1>3, <1>4, <1>5 DEF Next

\* The entry that is called is the last one of its queue, the first of which
\* are the ones that the poll reported; the check watchers of its priority
\* come after those, and the queues of higher priorities are empty.
LEMMA StepCheckBeforeGathered ==
  ASSUME PhasesInv, InvokeUser, "EV_READ" \in NextEntry.events
  PROVE  ~CheckWaits(NextEntry.w)
<1> DEFINE w == NextEntry.w
<1>1. /\ Good(q) /\ q.priority = Priority /\ ChecksLast(q) /\ HasPending(q)
      /\ w \in User /\ User \subseteq Watchers
  BY DEF PhasesInv, QueuesOK, InvokeUser, User
<1>2. /\ NextPri(q) \in Pri /\ Priority[w] = NextPri(q)
      /\ q.pending[w] = Len(q.pendings[NextPri(q)])
      /\ EventsAt(q, w) = NextEntry.events
  BY <1>1, Popped DEF PhasesInv
<1> HIDE DEF w
<1> SUFFICES ASSUME NEW c \in User, Priority[c] >= Priority[w], "EV_CHECK" \in EventsOf(c)
             PROVE  FALSE
  BY DEF CheckWaits, w
<1>3. /\ c \in Watchers /\ IsPending(q, c) /\ "EV_CHECK" \in EventsAt(q, c)
  BY <1>1 DEF EventsOf, EventsAt
<1>4. /\ Priority[c] \in Pri /\ q.pendings[Priority[c]] # <<>>
      /\ q.pending[c] \in 1 .. Len(q.pendings[Priority[c]])
      /\ Len(q.pendings[Priority[c]]) \in Nat
  BY <1>1, <1>3, EntryAt
<1>5. \A o \in Pri : o > NextPri(q) => q.pendings[o] = <<>>
  BY <1>1, NextPriHasEntry
<1>6. Priority[c] = Priority[w]
  BY <1>2, <1>4, <1>5, PendingAssumption DEF Pri
<1>7. q.pending[c] > q.pending[w]
  BY <1>1, <1>2, <1>3, <1>6 DEF ChecksLast, w
<1> QED BY <1>2, <1>4, <1>6, <1>7

\* Idle watchers are queued only above everything that the poll reported.
LEMMA StepIdleOnlyWhenIdle ==
  ASSUME PhasesInv, InvokeUser, "EV_IDLE" \in NextEntry.events
  PROVE  \A g \in gathered : Priority[g] < Priority[NextEntry.w]
<1>1. HasPending(q) /\ NextEntry.w \in Watchers
  BY DEF InvokeUser, User
<1>2. EventsAt(q, NextEntry.w) = NextEntry.events
  BY <1>1, Popped DEF PhasesInv
<1> QED BY <1>1, <1>2 DEF PhasesInv, QueuesOK, EventsRight

\* Fork watchers are called before the kernel state is made anew, check
\* watchers before what the poll reported, idle watchers only when nothing of
\* their priority was, in every run of ev_run, nested or not.
THEOREM PhasesStayInOrder == Spec => PhasesInOrder
<1>1. PhasesInv /\ [Next]_vars => [postfork = 1 /\ postfork' = 0 => unforked = {}]_vars
  BY StepForkWatchersCalled
<1>2. PhasesInv /\ [Next]_vars
        => [InvokeUser /\ "EV_READ" \in NextEntry.events => ~CheckWaits(NextEntry.w)]_vars
  BY StepCheckBeforeGathered
<1>3. PhasesInv /\ [Next]_vars
        => [InvokeUser /\ "EV_IDLE" \in NextEntry.events
              => \A w \in gathered : Priority[w] < Priority[NextEntry.w]]_vars
  BY StepIdleOnlyWhenIdle
<1>4. Spec => ForkWatchersCalled
  BY <1>1, SpecPhasesInv, PTL DEF Spec, ForkWatchersCalled
<1>5. Spec => CheckBeforeGathered
  BY <1>2, SpecPhasesInv, PTL DEF Spec, CheckBeforeGathered
<1>6. Spec => IdleOnlyWhenIdle
  BY <1>3, SpecPhasesInv, PTL DEF Spec, IdleOnlyWhenIdle
<1> QED BY <1>4, <1>5, <1>6 DEF PhasesInOrder

=============================================================================
