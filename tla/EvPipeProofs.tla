---------------------------- MODULE EvPipeProofs ----------------------------
(***************************************************************************)
(* Proofs about the wake-up protocol EvPipe with sequentially consistent   *)
(* memory, for any number of threads, handlers, signals and asyncs; and    *)
(* about the descriptors it uses (EvLifecycle), for tables of any size,    *)
(* any number of forks and restarts, and any features.                     *)
(***************************************************************************)
EXTENDS EvPipe, EvLifecycle, TLAPS

\* without store buffers nothing is ever buffered
NoBuffers == buf = [cpu \in Cpus |-> <<>>]

IInv == TypeOK /\ NoBuffers /\ WakeupChain

\* A load returns what is in memory.
LEMMA ReadMemory ==
  ASSUME NoBuffers, NEW cpu \in Cpus, NEW a
  PROVE  Read(cpu, a) = mem[a]
<1>1. buf[cpu] = <<>>
  BY DEF NoBuffers
<1>2. {i \in 1 .. Len(buf[cpu]) : buf[cpu][i].addr = a} = {}
  BY <1>1
<1> QED BY <1>2 DEF Read

\* A store is visible at once.
LEMMA WriteMemory ==
  ASSUME StoreBuffers = FALSE, NEW cpu, NEW a, NEW v, Write(cpu, a, v)
  PROVE  /\ mem' = [mem EXCEPT ![a] = v]
         /\ unseen' = IF v THEN unseen \cup ({a} \cap Targets) ELSE unseen
         /\ buf' = buf
         /\ a \in Globals => unseen' = unseen
BY TargetAssumption DEF Write, Commit

LEMMA InitIInv == Init => IInv
<1> SUFFICES ASSUME Init PROVE IInv
  OBVIOUS
<1> USE PipeAssumption
<1>1. \A a \in Addr : mem[a] = FALSE
  BY DEF Init
<1>2. mem \in [Addr -> BOOLEAN]
  BY DEF Init
<1>3. buf \in [Cpus -> Seq(Store)]
  BY DEF Init
<1>4. spc \in [Senders -> {"idle"}]
  BY DEF Init
<1>5. TypeOK
  <2>1. blocking \in BOOLEAN
    BY DEF Init
  <2>2. pipe \in 0 .. PIPE_SIZE
    BY DEF Init
  <2>3. spc \in [Senders -> {"idle", "test_flag", "set_flag", "set_skipped",
                            "test_wanted", "clear_skipped", "write"}]
    BY <1>4
  <2> QED BY <1>2, <1>3, <2>1, <2>2, <2>3 DEF Init, TypeOK
<1>6. \A t \in Targets : ~mem[t]
  BY <1>1 DEF Addr
<1>7. \A f \in Globals : ~mem[f]
  BY <1>1 DEF Addr
<1>8. WakeupChain
  BY <1>6, <1>7 DEF Init, WakeupChain, UnseenIsMarked, MarkIsFlagged,
                    FlagIsNoticed, SkipIsMadeUpFor, Globals, Asleep
<1> QED BY <1>5, <1>8 DEF IInv, NoBuffers, Init

\* What a store to shared memory keeps of the type invariant.
LEMMA WriteType ==
  ASSUME StoreBuffers = FALSE, TypeOK, NEW cpu, NEW a \in Addr,
         NEW v \in BOOLEAN, Write(cpu, a, v)
  PROVE  /\ mem' \in [Addr -> BOOLEAN]
         /\ unseen' \subseteq Targets
         /\ buf' = buf
<1>1. /\ mem' = [mem EXCEPT ![a] = v]
      /\ unseen' = IF v THEN unseen \cup ({a} \cap Targets) ELSE unseen
      /\ buf' = buf
  BY DEF Write, Commit
<1>2. mem \in [Addr -> BOOLEAN] /\ unseen \subseteq Targets
  BY DEF TypeOK
<1>3. mem' \in [Addr -> BOOLEAN]
  BY <1>1, <1>2
<1> QED BY <1>1, <1>2, <1>3

LEMMA GotoType ==
  ASSUME TypeOK, NEW s \in Senders, NEW pc, Goto(s, pc),
         pc \in {"idle", "test_flag", "set_flag", "set_skipped",
                 "test_wanted", "clear_skipped", "write"}
  PROVE  /\ spc' \in [Senders -> {"idle", "test_flag", "set_flag",
                        "set_skipped", "test_wanted", "clear_skipped", "write"}]
         /\ spc'[s] = pc
         /\ \A r \in Senders : r # s => spc'[r] = spc[r]
BY DEF TypeOK, Goto

LEMMA FlagType == \A t \in Targets : Flag(t) \in Addr /\ t \in Addr
BY DEF Flag, Addr, Globals

LEMMA SenderType ==
  ASSUME StoreBuffers = FALSE, TypeOK, NoBuffers, NEW s \in Senders,
         EvAsyncSend(s) \/ EvFeedSignal(s) \/ EvPipeWrite(s)
  PROVE  TypeOK' /\ NoBuffers'
<1> USE PipeAssumption, FlagType
<1>1. target[s] \in Targets
  BY DEF TypeOK
<1>2. ASSUME NEW t \in Targets, Send(s, t)
      PROVE  TypeOK' /\ NoBuffers'
  BY <1>2, WriteType, GotoType DEF Send, TypeOK, NoBuffers, lvars
<1>3. CASE SenderTestFlag(s)
  BY <1>3, GotoType DEF SenderTestFlag, TypeOK, NoBuffers, lvars
<1>4. CASE SenderSetFlag(s)
  BY <1>1, <1>4, WriteType, GotoType DEF SenderSetFlag, TypeOK, NoBuffers, lvars
<1>5. CASE SenderSetSkipped(s)
  BY <1>5, WriteType, GotoType
     DEF SenderSetSkipped, TypeOK, NoBuffers, lvars, Addr, Globals
<1>6. CASE SenderTestWanted(s)
  BY <1>6, GotoType DEF SenderTestWanted, TypeOK, NoBuffers, lvars
<1>7. CASE SenderClearSkipped(s)
  BY <1>7, WriteType, GotoType
     DEF SenderClearSkipped, TypeOK, NoBuffers, lvars, Addr, Globals
<1>8. CASE SenderWrite(s)
  <2>1. pipe' \in 0 .. PIPE_SIZE
    BY <1>8 DEF SenderWrite, TypeOK
  <2> QED BY <1>8, <2>1, GotoType DEF SenderWrite, TypeOK, NoBuffers, lvars
<1> QED BY <1>2, <1>3, <1>4, <1>5, <1>6, <1>7, <1>8
        DEF EvAsyncSend, EvFeedSignal, EvPipeWrite, Targets

LEMMA LoopType ==
  ASSUME StoreBuffers = FALSE, TypeOK, NoBuffers, LoopStep \/ PollOther
  PROVE  TypeOK' /\ NoBuffers'
<1> USE PipeAssumption, FlagType
<1>1. "wanted" \in Addr /\ "skipped" \in Addr /\ flag \in Addr
  BY DEF TypeOK, Addr, Globals
<1>2. CASE LoopWant
  BY <1>1, <1>2, WriteType DEF LoopWant, LoopAt, TypeOK, NoBuffers, svars
<1>3. CASE LoopTest
  <2>1. blocking' \in BOOLEAN
    BY <1>3 DEF LoopTest
  <2> QED BY <1>3, <2>1 DEF LoopTest, LoopAt, TypeOK, NoBuffers, svars
<1>4. CASE PollEnds
  BY <1>4 DEF PollEnds, LoopAt, TypeOK, NoBuffers, svars
<1>5. CASE LoopUnwant
  BY <1>1, <1>5, WriteType DEF LoopUnwant, LoopAt, TypeOK, NoBuffers, svars
<1>6. CASE LoopSkipped
  BY <1>6 DEF LoopSkipped, LoopAt, TypeOK, NoBuffers, svars
<1>7. CASE PipecbRead
  <2>1. pipe' \in 0 .. PIPE_SIZE
    BY <1>7 DEF PipecbRead, TypeOK
  <2> QED BY <1>7, <2>1 DEF PipecbRead, LoopAt, TypeOK, NoBuffers, svars
<1>8. CASE PipecbUnskip
  BY <1>1, <1>8, WriteType DEF PipecbUnskip, LoopAt, TypeOK, NoBuffers, svars
<1>9. CASE PipecbTestFlag
  BY <1>9 DEF PipecbTestFlag, AfterFlag, LoopAt, TypeOK, NoBuffers, svars
<1>10. CASE PipecbClearFlag
  <2>1. TargetsOf(flag) \subseteq Targets
    BY DEF TargetsOf, Targets
  <2> QED BY <1>1, <1>10, <2>1, WriteType
          DEF PipecbClearFlag, LoopAt, TypeOK, NoBuffers, svars
<1>11. CASE PipecbScan
  <2> PICK t \in todo :
        /\ todo' = todo \ {t}
        /\ IF Read("loop", t)
             THEN Write("loop", t, FALSE) /\ queued' = queued \cup {t}
             ELSE UNCHANGED <<mem, buf, unseen, queued>>
    BY <1>11 DEF PipecbScan
  <2>1. t \in Targets /\ t \in Addr
    BY DEF TypeOK, Addr
  <2>2. /\ mem' \in [Addr -> BOOLEAN] /\ unseen' \subseteq Targets
        /\ buf' = buf /\ queued' \subseteq Targets
    BY <2>1, WriteType DEF TypeOK
  <2> QED BY <1>11, <2>2 DEF PipecbScan, LoopAt, TypeOK, NoBuffers, svars
<1>12. CASE PipecbScanned
  BY <1>12 DEF PipecbScanned, AfterFlag, LoopAt, TypeOK, NoBuffers, svars
<1>13. CASE Callback
  BY <1>13 DEF Callback, LoopAt, TypeOK, NoBuffers, svars
<1>14. CASE LoopIterate
  BY <1>14 DEF LoopIterate, LoopAt, TypeOK, NoBuffers, svars
<1> QED BY <1>2, <1>3, <1>4, <1>5, <1>6, <1>7, <1>8, <1>9, <1>10, <1>11,
           <1>12, <1>13, <1>14 DEF LoopStep, PollReturns, PollOther

-----------------------------------------------------------------------------
\* The names of the flags and targets are different addresses.
LEMMA Addresses ==
  /\ \A t \in Targets : /\ t \in Addr /\ t \notin Globals
                        /\ Flag(t) \in {"sig_pending", "async_pending"}
                        /\ t \in TargetsOf(Flag(t))
                        /\ \A f \in {"sig_pending", "async_pending"} :
                              t \in TargetsOf(f) => f = Flag(t)
  /\ {"wanted", "skipped", "sig_pending", "async_pending"} \subseteq Addr
BY PipeAssumption, TargetAssumption
   DEF Targets, TargetsOf, Flag, Addr, Globals

\* The senders' steps keep the chain of wake-ups.
LEMMA SenderChain ==
  ASSUME StoreBuffers = FALSE, IInv, NEW s \in Senders,
         EvAsyncSend(s) \/ EvFeedSignal(s) \/ EvPipeWrite(s)
  PROVE  WakeupChain'
<1> USE Addresses
<1>1. /\ TypeOK /\ NoBuffers /\ WakeupChain
      /\ target[s] \in Targets
      /\ Flag(target[s]) \in Addr
      /\ CpuOf(s) \in Cpus
  BY DEF IInv, TypeOK, CpuOf, Senders, Cpus
<1>2. ASSUME NEW t \in Targets, Send(s, t)
      PROVE  WakeupChain'
  <2>1. /\ mem' = [mem EXCEPT ![t] = TRUE]
        /\ unseen' = unseen \cup {t}
    BY <1>2, WriteMemory DEF Send
  <2>2. /\ spc[s] = "idle" /\ spc'[s] = "test_flag" /\ target'[s] = t
        /\ \A r \in Senders : r # s => spc'[r] = spc[r] /\ target'[r] = target[r]
        /\ UNCHANGED <<pipe, lpc, blocking, revents, flag, todo, queued>>
    BY <1>1, <1>2, GotoType DEF Send, TypeOK, lvars
  <2>3. /\ mem'[t] = TRUE /\ \A a \in Addr : a # t => mem'[a] = mem[a]
    BY <2>1 DEF IInv, TypeOK
  <2>4. UnseenIsMarked'
    BY <1>1, <2>1, <2>2, <2>3 DEF WakeupChain, UnseenIsMarked, TypeOK
  <2>5. MarkIsFlagged'
    BY <1>1, <2>1, <2>2, <2>3 DEF WakeupChain, MarkIsFlagged, Globals
  <2>6. FlagIsNoticed'
    BY <1>1, <2>1, <2>2, <2>3
       DEF WakeupChain, FlagIsNoticed, SenderIn, PipecbComing, Globals
  <2>7. SkipIsMadeUpFor'
    BY <1>1, <2>1, <2>2, <2>3
       DEF WakeupChain, SkipIsMadeUpFor, SenderIn, Asleep, Globals
  <2> QED BY <1>1, <2>2, <2>3, <2>4, <2>5, <2>6, <2>7 DEF WakeupChain, Globals
<1>3. ASSUME NEW pc, Goto(s, pc), UNCHANGED target
      PROVE  /\ spc'[s] = pc /\ target'[s] = target[s]
             /\ \A r \in Senders : r # s => spc'[r] = spc[r] /\ target'[r] = target[r]
  BY <1>1, <1>3 DEF Goto, TypeOK
<1>4. CASE SenderTestFlag(s)
  <2>1. /\ UNCHANGED <<mem, pipe, lpc, blocking, revents, flag, todo, queued, unseen>>
        /\ spc[s] = "test_flag"
        /\ Goto(s, IF mem[Flag(target[s])] THEN "idle" ELSE "set_flag")
        /\ UNCHANGED target
    BY <1>1, <1>4, ReadMemory DEF SenderTestFlag, lvars
  <2>2. UnseenIsMarked'
    BY <1>1, <2>1 DEF WakeupChain, UnseenIsMarked
  <2>3. MarkIsFlagged'
    BY <1>1, <1>3, <2>1 DEF WakeupChain, MarkIsFlagged
  <2>4. FlagIsNoticed'
    BY <1>1, <1>3, <2>1 DEF WakeupChain, FlagIsNoticed, SenderIn, PipecbComing
  <2>5. SkipIsMadeUpFor'
    BY <1>1, <1>3, <2>1 DEF WakeupChain, SkipIsMadeUpFor, SenderIn, Asleep
  <2> QED BY <1>1, <2>1, <2>2, <2>3, <2>4, <2>5 DEF WakeupChain
<1>5. CASE SenderSetFlag(s)
  <2>1. /\ UNCHANGED <<pipe, lpc, blocking, revents, flag, todo, queued>>
        /\ spc[s] = "set_flag"
        /\ Goto(s, "set_skipped")
        /\ UNCHANGED target
        /\ mem' = [mem EXCEPT ![Flag(target[s])] = TRUE]
        /\ unseen' = unseen
    BY <1>1, <1>5, WriteMemory DEF SenderSetFlag, lvars, Flag, Globals
  <2>2. /\ mem'[Flag(target[s])] = TRUE
        /\ \A a \in Addr : a # Flag(target[s]) => mem'[a] = mem[a]
    BY <2>1 DEF IInv, TypeOK
  <2>3. UnseenIsMarked'
    BY <1>1, <2>1, <2>2 DEF WakeupChain, UnseenIsMarked, Globals, TypeOK
  <2>4. MarkIsFlagged'
    BY <1>1, <1>3, <2>1, <2>2 DEF WakeupChain, MarkIsFlagged, Globals
  <2>5. FlagIsNoticed'
    BY <1>1, <1>3, <2>1, <2>2
       DEF WakeupChain, FlagIsNoticed, SenderIn, PipecbComing, Globals
  <2>6. SkipIsMadeUpFor'
    BY <1>1, <1>3, <2>1, <2>2
       DEF WakeupChain, SkipIsMadeUpFor, SenderIn, Asleep, Globals
  <2> QED BY <1>1, <2>1, <2>2, <2>3, <2>4, <2>5, <2>6 DEF WakeupChain
<1>6. CASE SenderSetSkipped(s)
  <2>1. /\ UNCHANGED <<pipe, lpc, blocking, revents, flag, todo, queued>>
        /\ spc[s] = "set_skipped"
        /\ Goto(s, "test_wanted")
        /\ UNCHANGED target
        /\ mem' = [mem EXCEPT !["skipped"] = TRUE]
        /\ unseen' = unseen
    BY <1>1, <1>6, WriteMemory DEF SenderSetSkipped, lvars, Globals
  <2>2. mem'["skipped"] = TRUE /\ \A a \in Addr : a # "skipped" => mem'[a] = mem[a]
    BY <2>1 DEF IInv, TypeOK
  <2>3. UnseenIsMarked'
    BY <1>1, <2>1, <2>2 DEF WakeupChain, UnseenIsMarked, Globals, TypeOK
  <2>4. MarkIsFlagged'
    BY <1>1, <1>3, <2>1, <2>2 DEF WakeupChain, MarkIsFlagged, Globals
  <2>5. FlagIsNoticed'
    BY <2>2 DEF FlagIsNoticed
  <2>6. SkipIsMadeUpFor'
    BY <1>3, <2>1 DEF SkipIsMadeUpFor, SenderIn
  <2> QED BY <1>1, <2>1, <2>2, <2>3, <2>4, <2>5, <2>6 DEF WakeupChain
<1>7. CASE SenderTestWanted(s)
  <2>1. /\ UNCHANGED <<mem, pipe, lpc, blocking, revents, flag, todo, queued, unseen>>
        /\ spc[s] = "test_wanted"
        /\ Goto(s, IF mem["wanted"] THEN "clear_skipped" ELSE "idle")
        /\ UNCHANGED target
    BY <1>1, <1>7, ReadMemory DEF SenderTestWanted, lvars
  <2>2. UnseenIsMarked'
    BY <1>1, <2>1 DEF WakeupChain, UnseenIsMarked
  <2>3. MarkIsFlagged'
    BY <1>1, <1>3, <2>1 DEF WakeupChain, MarkIsFlagged
  <2>4. FlagIsNoticed'
    BY <1>1, <1>3, <2>1 DEF WakeupChain, FlagIsNoticed, SenderIn, PipecbComing
  <2>5. SkipIsMadeUpFor'
    BY <1>1, <1>3, <2>1 DEF WakeupChain, SkipIsMadeUpFor, SenderIn, Asleep
  <2> QED BY <1>1, <2>1, <2>2, <2>3, <2>4, <2>5 DEF WakeupChain
<1>8. CASE SenderClearSkipped(s)
  <2>1. /\ UNCHANGED <<pipe, lpc, blocking, revents, flag, todo, queued>>
        /\ spc[s] = "clear_skipped"
        /\ Goto(s, "write")
        /\ UNCHANGED target
        /\ mem' = [mem EXCEPT !["skipped"] = FALSE]
        /\ unseen' = unseen
    BY <1>1, <1>8, WriteMemory DEF SenderClearSkipped, lvars
  <2>2. mem'["skipped"] = FALSE /\ \A a \in Addr : a # "skipped" => mem'[a] = mem[a]
    BY <2>1 DEF IInv, TypeOK
  <2>3. UnseenIsMarked'
    BY <1>1, <2>1, <2>2 DEF WakeupChain, UnseenIsMarked, Globals, TypeOK
  <2>4. MarkIsFlagged'
    BY <1>1, <1>3, <2>1, <2>2 DEF WakeupChain, MarkIsFlagged, Globals
  <2>5. FlagIsNoticed'
    BY <1>3, <2>1 DEF FlagIsNoticed, SenderIn
  <2>6. SkipIsMadeUpFor'
    BY <2>2 DEF SkipIsMadeUpFor
  <2> QED BY <1>1, <2>1, <2>2, <2>3, <2>4, <2>5, <2>6 DEF WakeupChain
<1>9. CASE SenderWrite(s)
  <2>1. /\ UNCHANGED <<mem, lpc, blocking, revents, flag, todo, queued, unseen>>
        /\ spc[s] = "write"
        /\ Goto(s, "idle")
        /\ UNCHANGED target
    BY <1>9 DEF SenderWrite, lvars
  <2>2. pipe' > 0
    BY <1>1, <1>9, PipeAssumption DEF SenderWrite, TypeOK
  <2>3. UnseenIsMarked'
    BY <1>1, <2>1 DEF WakeupChain, UnseenIsMarked
  <2>4. MarkIsFlagged'
    BY <1>1, <1>3, <2>1 DEF WakeupChain, MarkIsFlagged
  <2>5. FlagIsNoticed'
    BY <2>2 DEF FlagIsNoticed
  <2>6. SkipIsMadeUpFor'
    BY <1>1, <1>3, <2>1 DEF WakeupChain, SkipIsMadeUpFor, SenderIn, Asleep
  <2> QED BY <1>1, <2>1, <2>3, <2>4, <2>5, <2>6 DEF WakeupChain
<1> QED BY <1>2, <1>4, <1>5, <1>6, <1>7, <1>8, <1>9
        DEF EvAsyncSend, EvFeedSignal, EvPipeWrite, Targets

\* The loop's steps keep the chain of wake-ups.
LEMMA LoopChain ==
  ASSUME StoreBuffers = FALSE, IInv, LoopStep \/ PollOther
  PROVE  WakeupChain'
<1> USE Addresses
<1>1. /\ TypeOK /\ NoBuffers /\ WakeupChain
      /\ flag \in {"sig_pending", "async_pending"} /\ flag \in Addr
      /\ "loop" \in Cpus
  BY DEF IInv, TypeOK, Cpus
<1>2. \A a \in Addr, v \in BOOLEAN :
        mem' = [mem EXCEPT ![a] = v] =>
          mem'[a] = v /\ \A b \in Addr : b # a => mem'[b] = mem[b]
  BY DEF IInv, TypeOK
<1>3. CASE LoopWant
  <2>1. /\ UNCHANGED <<pipe, spc, target, blocking, revents, flag, todo, queued>>
        /\ lpc = "want" /\ lpc' = "test"
        /\ mem' = [mem EXCEPT !["wanted"] = TRUE]
        /\ unseen' = unseen
    BY <1>1, <1>3, WriteMemory DEF LoopWant, LoopAt, svars, Globals
  <2>2. mem'["wanted"] = TRUE /\ \A a \in Addr : a # "wanted" => mem'[a] = mem[a]
    BY <1>2, <2>1
  <2>3. UnseenIsMarked'
    BY <1>1, <2>1, <2>2 DEF WakeupChain, UnseenIsMarked, Globals, TypeOK
  <2>4. MarkIsFlagged'
    BY <1>1, <2>1, <2>2 DEF WakeupChain, MarkIsFlagged, Globals
  <2>5. FlagIsNoticed'
    BY <1>1, <2>1, <2>2 DEF WakeupChain, FlagIsNoticed, SenderIn, PipecbComing
  <2>6. SkipIsMadeUpFor'
    BY <2>1 DEF SkipIsMadeUpFor, Asleep
  <2> QED BY <1>1, <2>1, <2>2, <2>3, <2>4, <2>5, <2>6 DEF WakeupChain
<1>4. CASE LoopTest
  <2>1. /\ UNCHANGED <<mem, pipe, spc, target, revents, flag, todo, queued, unseen>>
        /\ lpc = "test" /\ lpc' = "poll"
        /\ blocking' => ~mem["skipped"]
    BY <1>1, <1>4, ReadMemory DEF LoopTest, LoopAt, svars
  <2>2. UnseenIsMarked'
    BY <1>1, <2>1 DEF WakeupChain, UnseenIsMarked
  <2>3. MarkIsFlagged'
    BY <1>1, <2>1 DEF WakeupChain, MarkIsFlagged
  <2>4. FlagIsNoticed'
    BY <1>1, <2>1 DEF WakeupChain, FlagIsNoticed, SenderIn, PipecbComing
  <2>5. SkipIsMadeUpFor'
    BY <2>1 DEF SkipIsMadeUpFor, Asleep
  <2> QED BY <1>1, <2>1, <2>2, <2>3, <2>4, <2>5 DEF WakeupChain
<1>5. CASE PollEnds
  <2>1. /\ UNCHANGED <<mem, pipe, spc, target, flag, todo, queued, unseen>>
        /\ lpc = "poll" /\ lpc' = "unwant"
    BY <1>5 DEF PollEnds, LoopAt, svars
  <2>2. UnseenIsMarked'
    BY <1>1, <2>1 DEF WakeupChain, UnseenIsMarked
  <2>3. MarkIsFlagged'
    BY <1>1, <2>1 DEF WakeupChain, MarkIsFlagged
  <2>4. FlagIsNoticed'
    BY <1>1, <2>1 DEF WakeupChain, FlagIsNoticed, SenderIn, PipecbComing
  <2>5. SkipIsMadeUpFor'
    BY <2>1 DEF SkipIsMadeUpFor, Asleep
  <2> QED BY <1>1, <2>1, <2>2, <2>3, <2>4, <2>5 DEF WakeupChain
<1>6. CASE LoopUnwant
  <2>1. /\ UNCHANGED <<pipe, spc, target, blocking, revents, flag, todo, queued>>
        /\ lpc = "unwant" /\ lpc' = "skipped"
        /\ mem' = [mem EXCEPT !["wanted"] = FALSE]
        /\ unseen' = unseen
    BY <1>1, <1>6, WriteMemory DEF LoopUnwant, LoopAt, svars, Globals
  <2>2. \A a \in Addr : a # "wanted" => mem'[a] = mem[a]
    BY <1>2, <2>1
  <2>3. UnseenIsMarked'
    BY <1>1, <2>1, <2>2 DEF WakeupChain, UnseenIsMarked, Globals, TypeOK
  <2>4. MarkIsFlagged'
    BY <1>1, <2>1, <2>2 DEF WakeupChain, MarkIsFlagged, Globals
  <2>5. FlagIsNoticed'
    BY <1>1, <2>1, <2>2 DEF WakeupChain, FlagIsNoticed, SenderIn, PipecbComing
  <2>6. SkipIsMadeUpFor'
    BY <2>1 DEF SkipIsMadeUpFor, Asleep
  <2> QED BY <1>1, <2>1, <2>3, <2>4, <2>5, <2>6 DEF WakeupChain
<1>7. CASE LoopSkipped
  <2>1. /\ UNCHANGED <<mem, pipe, spc, target, blocking, flag, todo, queued, unseen>>
        /\ lpc = "skipped" /\ lpc' \in {"callbacks", "pipecb"}
        /\ mem["skipped"] => lpc' = "pipecb"
    BY <1>1, <1>7, ReadMemory DEF LoopSkipped, LoopAt, svars
  <2>2. UnseenIsMarked'
    BY <1>1, <2>1 DEF WakeupChain, UnseenIsMarked
  <2>3. MarkIsFlagged'
    BY <1>1, <2>1 DEF WakeupChain, MarkIsFlagged
  <2>4. FlagIsNoticed'
    BY <1>1, <2>1 DEF WakeupChain, FlagIsNoticed, SenderIn, PipecbComing
  <2>5. SkipIsMadeUpFor'
    BY <2>1 DEF SkipIsMadeUpFor, Asleep
  <2> QED BY <1>1, <2>1, <2>2, <2>3, <2>4, <2>5 DEF WakeupChain
<1>8. CASE PipecbRead
  <2>1. /\ UNCHANGED <<mem, spc, target, blocking, flag, todo, queued, unseen>>
        /\ lpc = "pipecb" /\ lpc' = "unskip"
    BY <1>8 DEF PipecbRead, LoopAt, svars
  <2>2. UnseenIsMarked'
    BY <1>1, <2>1 DEF WakeupChain, UnseenIsMarked
  <2>3. MarkIsFlagged'
    BY <1>1, <2>1 DEF WakeupChain, MarkIsFlagged
  <2>4. FlagIsNoticed'
    BY <2>1 DEF FlagIsNoticed, PipecbComing
  <2>5. SkipIsMadeUpFor'
    BY <2>1 DEF SkipIsMadeUpFor, Asleep
  <2> QED BY <1>1, <2>1, <2>2, <2>3, <2>4, <2>5 DEF WakeupChain
<1>9. CASE PipecbUnskip
  <2>1. /\ UNCHANGED <<pipe, spc, target, blocking, todo, queued>>
        /\ lpc = "unskip" /\ lpc' = "test_flag" /\ flag' = "sig_pending"
        /\ mem' = [mem EXCEPT !["skipped"] = FALSE]
        /\ unseen' = unseen
    BY <1>1, <1>9, WriteMemory DEF PipecbUnskip, LoopAt, svars, Globals
  <2>2. \A a \in Addr : a # "skipped" => mem'[a] = mem[a]
    BY <1>2, <2>1
  <2>3. UnseenIsMarked'
    BY <1>1, <2>1, <2>2 DEF WakeupChain, UnseenIsMarked, Globals, TypeOK
  <2>4. MarkIsFlagged'
    BY <1>1, <2>1, <2>2 DEF WakeupChain, MarkIsFlagged, Globals
  <2>5. FlagIsNoticed'
    BY <2>1 DEF FlagIsNoticed, PipecbComing
  <2>6. SkipIsMadeUpFor'
    BY <2>1 DEF SkipIsMadeUpFor, Asleep
  <2> QED BY <1>1, <2>1, <2>3, <2>4, <2>5, <2>6 DEF WakeupChain
<1>10. ASSUME UNCHANGED <<mem, pipe, spc, target, todo, queued, unseen>>,
              \/ lpc = "test_flag" /\ ~mem[flag]
              \/ lpc = "scan" /\ todo = {},
              AfterFlag
       PROVE  WakeupChain'
  <2>1. lpc' \in {"test_flag", "callbacks"}
    BY <1>10 DEF AfterFlag
  <2>2. UnseenIsMarked'
    BY <1>1, <1>10 DEF WakeupChain, UnseenIsMarked
  <2>3. MarkIsFlagged'
    <3> SUFFICES ASSUME NEW t \in Targets, mem[t]
                 PROVE  \/ mem[Flag(t)]
                        \/ \E s \in Senders :
                              target[s] = t /\ spc[s] \in {"test_flag", "set_flag"}
      BY <1>10 DEF MarkIsFlagged
    <3>1. ~(lpc = "scan" /\ flag = Flag(t) /\ t \in todo) \/ mem[Flag(t)]
      BY <1>10
    <3> QED BY <1>1, <3>1 DEF WakeupChain, MarkIsFlagged
  <2>4. FlagIsNoticed'
    BY <1>1, <1>10 DEF WakeupChain, FlagIsNoticed, SenderIn, PipecbComing, AfterFlag
  <2>5. SkipIsMadeUpFor'
    BY <2>1 DEF SkipIsMadeUpFor, Asleep
  <2> QED BY <1>1, <1>10, <2>1, <2>2, <2>3, <2>4, <2>5 DEF WakeupChain
<1>11. CASE PipecbTestFlag
  <2>1. /\ UNCHANGED <<mem, pipe, spc, target, blocking, todo, queued, unseen>>
        /\ lpc = "test_flag"
        /\ IF mem[flag] THEN lpc' = "clear_flag" /\ UNCHANGED flag ELSE AfterFlag
    BY <1>1, <1>11, ReadMemory DEF PipecbTestFlag, LoopAt, svars
  <2>2. CASE ~mem[flag]
    <3>1. AfterFlag
      BY <2>1, <2>2
    <3>2. /\ UNCHANGED <<mem, pipe, spc, target, todo, queued, unseen>>
          /\ lpc = "test_flag"
      BY <2>1
    <3> QED BY <1>10, <2>2, <3>1, <3>2
  <2>3. CASE mem[flag]
    <3>1. lpc' = "clear_flag" /\ flag' = flag
      BY <2>1, <2>3
    <3>2. UnseenIsMarked'
      BY <1>1, <2>1 DEF WakeupChain, UnseenIsMarked
    <3>3. MarkIsFlagged'
      BY <1>1, <2>1 DEF WakeupChain, MarkIsFlagged
    <3>4. FlagIsNoticed'
      BY <1>1, <2>1, <3>1 DEF WakeupChain, FlagIsNoticed, SenderIn, PipecbComing
    <3>5. SkipIsMadeUpFor'
      BY <3>1 DEF SkipIsMadeUpFor, Asleep
    <3> QED BY <1>1, <2>1, <3>1, <3>2, <3>3, <3>4, <3>5 DEF WakeupChain
  <2> QED BY <2>2, <2>3
<1>12. CASE PipecbClearFlag
  <2>1. /\ UNCHANGED <<pipe, spc, target, blocking, flag, queued>>
        /\ lpc = "clear_flag" /\ lpc' = "scan" /\ todo' = TargetsOf(flag)
        /\ mem' = [mem EXCEPT ![flag] = FALSE]
        /\ unseen' = unseen
    BY <1>1, <1>12, WriteMemory DEF PipecbClearFlag, LoopAt, svars, Globals
  <2>2. mem'[flag] = FALSE /\ \A a \in Addr : a # flag => mem'[a] = mem[a]
    BY <1>1, <1>2, <2>1
  <2>3. UnseenIsMarked'
    BY <1>1, <2>1, <2>2 DEF WakeupChain, UnseenIsMarked, Globals, TypeOK
  <2>4. MarkIsFlagged'
    BY <1>1, <2>1, <2>2 DEF WakeupChain, MarkIsFlagged, Globals
  <2>5. FlagIsNoticed'
    BY <1>1, <2>1, <2>2 DEF WakeupChain, FlagIsNoticed, SenderIn, PipecbComing
  <2>6. SkipIsMadeUpFor'
    BY <2>1 DEF SkipIsMadeUpFor, Asleep
  <2> QED BY <1>1, <2>1, <2>3, <2>4, <2>5, <2>6 DEF WakeupChain
<1>13. CASE PipecbScan
  <2> PICK t \in todo :
        /\ todo' = todo \ {t}
        /\ IF Read("loop", t)
             THEN Write("loop", t, FALSE) /\ queued' = queued \cup {t}
             ELSE UNCHANGED <<mem, buf, unseen, queued>>
    BY <1>13 DEF PipecbScan
  <2>1. /\ UNCHANGED <<pipe, spc, target, lpc, blocking, flag>>
        /\ lpc = "scan" /\ t \in Targets
    BY <1>1, <1>13 DEF PipecbScan, LoopAt, svars, TypeOK
  <2>2. CASE mem[t]
    <3>1. /\ mem' = [mem EXCEPT ![t] = FALSE]
          /\ unseen' = unseen
          /\ queued' = queued \cup {t}
      <4>1. Read("loop", t) = mem[t]
        BY <1>1, ReadMemory
      <4>2. Write("loop", t, FALSE) /\ queued' = queued \cup {t}
        BY <2>2, <4>1
      <4> QED BY <4>2 DEF Write, Commit
    <3>2. mem'[t] = FALSE /\ \A a \in Addr : a # t => mem'[a] = mem[a]
      BY <1>2, <2>1, <3>1
    <3>3. UnseenIsMarked'
      BY <1>1, <2>1, <3>1, <3>2 DEF WakeupChain, UnseenIsMarked, TypeOK
    <3>4. MarkIsFlagged'
      BY <1>1, <2>1, <3>1, <3>2 DEF WakeupChain, MarkIsFlagged, Globals
    <3>5. FlagIsNoticed'
      BY <1>1, <2>1, <3>1, <3>2
         DEF WakeupChain, FlagIsNoticed, SenderIn, PipecbComing, Globals
    <3>6. SkipIsMadeUpFor'
      BY <2>1 DEF SkipIsMadeUpFor, Asleep
    <3> QED BY <1>1, <2>1, <3>3, <3>4, <3>5, <3>6 DEF WakeupChain
  <2>3. CASE ~mem[t]
    <3>1. UNCHANGED <<mem, unseen, queued>>
      BY <1>1, <2>3, ReadMemory
    <3>2. UnseenIsMarked'
      BY <1>1, <3>1 DEF WakeupChain, UnseenIsMarked
    <3>3. MarkIsFlagged'
      BY <1>1, <2>1, <2>3, <3>1 DEF WakeupChain, MarkIsFlagged
    <3>4. FlagIsNoticed'
      BY <1>1, <2>1, <3>1 DEF WakeupChain, FlagIsNoticed, SenderIn, PipecbComing
    <3>5. SkipIsMadeUpFor'
      BY <2>1 DEF SkipIsMadeUpFor, Asleep
    <3> QED BY <1>1, <2>1, <3>1, <3>2, <3>3, <3>4, <3>5 DEF WakeupChain
  <2> QED BY <2>2, <2>3
<1>14. CASE PipecbScanned
  BY <1>10, <1>14 DEF PipecbScanned, LoopAt, svars
<1>15. CASE Callback
  <2> PICK t \in queued : queued' = queued \ {t} /\ unseen' = unseen \ {t}
    BY <1>15 DEF Callback
  <2>1. /\ UNCHANGED <<mem, pipe, spc, target, lpc, blocking, flag, todo>>
        /\ lpc = "callbacks"
    BY <1>15 DEF Callback, LoopAt, svars
  <2>2. UnseenIsMarked'
    BY <1>1, <2>1 DEF WakeupChain, UnseenIsMarked
  <2>3. MarkIsFlagged'
    BY <1>1, <2>1 DEF WakeupChain, MarkIsFlagged
  <2>4. FlagIsNoticed'
    BY <1>1, <2>1 DEF WakeupChain, FlagIsNoticed, SenderIn, PipecbComing
  <2>5. SkipIsMadeUpFor'
    BY <2>1 DEF SkipIsMadeUpFor, Asleep
  <2> QED BY <1>1, <2>1, <2>2, <2>3, <2>4, <2>5 DEF WakeupChain
<1>16. CASE LoopIterate
  <2>1. /\ UNCHANGED <<mem, pipe, spc, target, blocking, flag, todo, queued, unseen>>
        /\ lpc = "callbacks" /\ lpc' = "want" /\ queued = {}
    BY <1>16 DEF LoopIterate, LoopAt, svars
  <2>2. UnseenIsMarked'
    BY <1>1, <2>1 DEF WakeupChain, UnseenIsMarked
  <2>3. MarkIsFlagged'
    BY <1>1, <2>1 DEF WakeupChain, MarkIsFlagged
  <2>4. FlagIsNoticed'
    BY <1>1, <2>1 DEF WakeupChain, FlagIsNoticed, SenderIn, PipecbComing
  <2>5. SkipIsMadeUpFor'
    BY <2>1 DEF SkipIsMadeUpFor, Asleep
  <2> QED BY <1>1, <2>1, <2>2, <2>3, <2>4, <2>5 DEF WakeupChain
<1> QED BY <1>3, <1>4, <1>5, <1>6, <1>7, <1>8, <1>9, <1>11, <1>12, <1>13,
           <1>14, <1>15, <1>16 DEF LoopStep, PollReturns, PollOther

\* Nothing drains a buffer that is empty.
LEMMA StepIInv ==
  StoreBuffers = FALSE /\ IInv /\ [Next]_vars => IInv'
<1> SUFFICES ASSUME StoreBuffers = FALSE, IInv, [Next]_vars PROVE IInv'
  OBVIOUS
<1>1. TypeOK /\ NoBuffers
  BY DEF IInv
<1>2. ASSUME NEW s \in Senders, EvAsyncSend(s) \/ EvFeedSignal(s) \/ EvPipeWrite(s)
      PROVE  IInv'
  BY <1>1, <1>2, SenderType, SenderChain DEF IInv
<1>3. ASSUME NEW cpu \in Cpus, Drain(cpu)
      PROVE  IInv'
  BY <1>1, <1>3 DEF Drain, Fenced, NoBuffers
<1>4. CASE LoopStep \/ PollOther
  BY <1>1, <1>4, LoopType, LoopChain DEF IInv
<1>5. CASE UNCHANGED vars
  BY <1>5 DEF vars, IInv, TypeOK, NoBuffers, WakeupChain, UnseenIsMarked,
              MarkIsFlagged, FlagIsNoticed, SkipIsMadeUpFor, Asleep, SenderIn,
              PipecbComing
<1> QED BY <1>2, <1>3, <1>4, <1>5 DEF Next

LEMMA SpecIInv ==
  ASSUME StoreBuffers = FALSE
  PROVE  Spec => []IInv
<1>1. IInv /\ [Next]_vars => IInv'
  BY StepIInv
<1> QED BY <1>1, InitIInv, PTL DEF Spec

\* Every send is remembered on its way to the callback: marked, flagged,
\* noticed, and made up for when its wake-up was skipped.
THEOREM ChainHolds ==
  ASSUME StoreBuffers = FALSE
  PROVE  Spec => []WakeupChain
<1>1. IInv => WakeupChain
  BY DEF IInv
<1> QED BY <1>1, SpecIInv, PTL

\* A loop asleep on an empty pipe has seen everything that was sent, with any
\* number of threads, handlers, signals and asyncs, pipe or eventfd.
THEOREM NoLostWakeup ==
  ASSUME StoreBuffers = FALSE
  PROVE  Spec => []NothingForgotten
<1>1. IInv => NothingForgotten
  <2> SUFFICES ASSUME IInv, Asleep, pipe = 0, \A s \in Senders : spc[s] = "idle",
                      NEW t \in unseen
               PROVE  FALSE
    BY DEF NothingForgotten
  <2>1. ~mem["skipped"]
    BY DEF IInv, WakeupChain, SkipIsMadeUpFor, SenderIn
  <2>2. t \in Targets /\ t \notin queued
    BY DEF IInv, TypeOK, WakeupChain, Asleep
  <2>3. mem[t]
    BY <2>2 DEF IInv, WakeupChain, UnseenIsMarked
  <2>4. mem[Flag(t)]
    BY <2>2, <2>3 DEF IInv, WakeupChain, MarkIsFlagged, Asleep
  <2> QED BY <2>1, <2>2, <2>4
          DEF IInv, WakeupChain, FlagIsNoticed, PipecbComing, SenderIn, Asleep, Flag
<1> QED BY <1>1, SpecIInv, PTL

\* The protocol's state stays well typed.
THEOREM TypeCorrect ==
  ASSUME StoreBuffers = FALSE
  PROVE  Spec => []TypeOK
<1>1. IInv => TypeOK
  BY DEF IInv
<1> QED BY <1>1, SpecIInv, PTL

-----------------------------------------------------------------------------
\* The descriptors of a loop: the inductive invariant

WriteEnds == {"pipe_w", "eventfd"}
Kinds == Own \cup {"other", "closed"}

LifeTypes ==
  /\ fdt \in [1 .. MaxFd -> [kind : Kinds, id : Nat]] /\ objects \in Nat
  /\ exists \in BOOLEAN
  /\ backend_fd \in Int /\ {evpipe[1], evpipe[2], fds[1], fds[2]} \subseteq Int
  /\ fd \in [Lazy -> Int]
  /\ postfork \in 0 .. 3
  /\ func \in {"idle", "fork", "create", "dup", "close"}
  /\ ~exists => func = "idle"
  /\ func = "idle" => renewals = {}
  /\ func = "fork" => postfork # 0 /\ renewals \subseteq {"backend"} \cup (Lazy \cap running)
  /\ func \in {"create", "dup", "close"} =>
       renewals \in {{}, {"pipe"}} /\ (renewals # {} => postfork \in {1, 3})

\* Descriptor n is open, and of one of kinds.
Open(n, kinds) == n \in 1 .. MaxFd /\ fdt[n].kind \in kinds

\* The loop knows where all descriptors of its own are ...
OwnKnown ==
  \A n \in 1 .. MaxFd :
    /\ fdt[n].kind \in Own => exists
    /\ fdt[n].kind = "backend" => n = backend_fd
    /\ \A k \in Lazy : fdt[n].kind = k => n = fd[k]
    /\ fdt[n].kind = "pipe_r" =>
         \/ n = evpipe[1] /\ ("pipe_w" \in running \/ func = "close")
         \/ n = fds[1] /\ func = "dup"
    /\ fdt[n].kind \in WriteEnds =>
         n = evpipe[2] \/ (n = fds[2] /\ func \in {"dup", "close"})

\* ... and that it has them: the backend, those made on first use, which are
\* tried once,
FdsOpen ==
  exists =>
    /\ Open(backend_fd, {"backend"})
    /\ \A k \in Lazy : fd[k] \in {-1, -2} \/ (Open(fd[k], {k}) /\ k \in running)

\* and the pipe, of which evpipe [1] stays while evpipe [0] is replaced.
PipeOpen ==
  exists =>
    /\ evpipe[2] = -1 \/ Open(evpipe[2], WriteEnds)
    /\ IF func \in {"idle", "fork"}
         THEN "pipe_w" \in running <=> evpipe[2] # -1
         ELSE "pipe_w" \notin running
    /\ evpipe[2] = -1 => evpipe[1] = -1
    /\ "pipe_w" \in running \/ func = "close" =>
         /\ evpipe[2] # -1
         /\ evpipe[1] = -1 \/ (Open(evpipe[1], {"pipe_r"}) /\ fdt[evpipe[1]].id = fdt[evpipe[2]].id)
    /\ "pipe_w" \in running => pipe_w_fd = IF evpipe[1] < 0 THEN evpipe[2] ELSE evpipe[1]
    /\ func \in {"dup", "close"} => Open(fds[2], WriteEnds)
    /\ func = "dup" =>
         /\ fds[2] # evpipe[2]
         /\ fds[1] = -1 \/ (Open(fds[1], {"pipe_r"}) /\ fdt[fds[1]].id = fdt[fds[2]].id)
    /\ func = "close" => evpipe[1] = fds[1]

\* Descriptor n is not one of the parent's.
Fresh(n) == n \in 1 .. MaxFd => fdt[n] \notin shared
AllFresh == /\ Fresh(backend_fd) /\ Fresh(fd["timerfd"]) /\ Fresh(fd["fs_fd"])

\* A fork is behind the loop, or before what it has not renewed yet.
Renewed ==
  /\ \A n \in 1 .. MaxFd : fdt[n].id <= objects
  /\ \A o \in shared : o.id \in Nat /\ o.id <= objects
  /\ exists =>
       /\ postfork \in {0, 2} => AllFresh
       /\ postfork \in {0, 2} /\ func \in {"idle", "fork"} => Fresh(evpipe[1]) /\ Fresh(evpipe[2])
       /\ func = "fork" =>
            /\ "backend" \in renewals \/ Fresh(backend_fd)
            /\ \A k \in {"timerfd", "fs_fd"} : k \in renewals \/ Fresh(fd[k])
       /\ func \in {"create", "dup", "close"} /\ renewals = {"pipe"} => AllFresh
       /\ func = "dup" => Fresh(fds[1]) /\ Fresh(fds[2])
       /\ func = "close" => Fresh(evpipe[1]) /\ Fresh(evpipe[2])

LifeInv == LifeTypes /\ OwnKnown /\ FdsOpen /\ PipeOpen /\ Renewed /\ ~strayed

-----------------------------------------------------------------------------
\* Tables of descriptors

Table == [1 .. MaxFd -> [kind : Kinds, id : Nat]]

\* u is t with a new file of kind k at n ...
Opened(t, u, n, k) ==
  /\ n \in 1 .. MaxFd /\ t[n].kind = "closed"
  /\ u \in Table /\ u[n].kind = k /\ u[n].id = objects + 1
  /\ \A m \in 1 .. MaxFd : m # n => u[m] = t[m]

\* ... or without the files at ns.
Shut(t, u, ns) ==
  /\ u \in Table
  /\ \A m \in 1 .. MaxFd : m \in ns => u[m].kind = "closed" /\ u[m].id = 0
  /\ \A m \in 1 .. MaxFd : m \notin ns => u[m] = t[m]

LEMMA OpenedIs ==
  ASSUME NEW t \in Table, NEW n \in Lowest(t), NEW k \in Kinds, objects \in Nat
  PROVE  Opened(t, [t EXCEPT ![n] = New(k, 1)], n, k)
<1>1. n \in 1 .. MaxFd /\ t[n] = Closed
  BY DEF Lowest, Table
<1>2. New(k, 1) \in [kind : Kinds, id : Nat] /\ New(k, 1).kind = k /\ New(k, 1).id = objects + 1
  BY DEF New
<1> QED BY <1>1, <1>2 DEF Opened, Table, Closed

LEMMA ShutIs ==
  ASSUME NEW t \in Table, NEW ns
  PROVE  Shut(t, ClosedFds(t, ns), ns)
<1>1. Closed \in [kind : Kinds, id : Nat] /\ Closed.kind = "closed" /\ Closed.id = 0
  BY DEF Closed, Kinds
<1>2. ClosedFds(t, ns) = [n \in 1 .. MaxFd |-> IF n \in ns THEN Closed ELSE t[n]]
  BY DEF ClosedFds, Table
<1> QED BY <1>1, <1>2 DEF Shut, Table

\* A new file is none of the parent's.
LEMMA OpenedFresh ==
  ASSUME NEW t \in Table, NEW u, NEW n, NEW k, Opened(t, u, n, k), objects \in Nat,
         \A m \in 1 .. MaxFd : t[m].id <= objects, NEW S, \A o \in S : o.id \in Nat /\ o.id <= objects
  PROVE  /\ \A m \in 1 .. MaxFd : u[m].id <= objects + 1
         /\ \A o \in S : o.id \in Nat /\ o.id <= objects + 1
         /\ \A m \in 1 .. MaxFd : t[m] \notin S => u[m] \notin S
         /\ u[n] \notin S
<1>1. u[n].id = objects + 1 /\ objects + 1 > objects /\ \A m \in 1 .. MaxFd : t[m].id \in Nat
  BY DEF Opened, Table
<1>2. u[n] \notin S
  BY <1>1
<1>3. \A m \in 1 .. MaxFd : u[m].id <= objects + 1
  BY <1>1 DEF Opened
<1>4. \A o \in S : o.id \in Nat /\ o.id <= objects + 1
  OBVIOUS
<1> QED BY <1>2, <1>3, <1>4 DEF Opened

\* Closing makes no newer file.
LEMMA ShutOld ==
  ASSUME NEW t \in Table, NEW u, NEW ns, Shut(t, u, ns), NEW o \in Nat,
         \A m \in 1 .. MaxFd : t[m].id <= o
  PROVE  \A m \in 1 .. MaxFd : u[m].id <= o
<1> TAKE m \in 1 .. MaxFd
<1>1. CASE m \in ns
  BY <1>1 DEF Shut
<1>2. CASE m \notin ns
  BY <1>2 DEF Shut
<1> QED BY <1>1, <1>2

LEMMA KindsAre ==
  /\ {"backend", "other", "pipe_r", "pipe_w", "eventfd"} \cup Lazy \subseteq Kinds
  /\ \A k \in Kinds : k \in Own \/ k = "other" \/ k = "closed"
  /\ "other" \notin Own /\ "closed" \notin Own
  /\ {"backend", "pipe_r", "pipe_w", "eventfd"} \cup Lazy \subseteq Own
BY DEF Kinds, Own, Lazy

-----------------------------------------------------------------------------
\* The actions

LEMMA EvDefaultLoopKeeps ==
  ASSUME LifeInv, EvDefaultLoop
  PROVE  LifeInv'
<1> USE DEF LifeInv
<1>1. /\ fdt \in Table /\ objects \in Nat /\ objects' = objects + 1
      /\ UNCHANGED <<shared, strayed, fds, postfork, renewals>>
      /\ ~exists /\ exists' /\ func = "idle" /\ renewals = {}
  <2>1. fdt \in Table /\ objects \in Nat
    BY DEF LifeTypes, Table
  <2>2. UNCHANGED <<shared, strayed, fds, postfork, renewals>> /\ objects' = objects + 1
    BY DEF EvDefaultLoop
  <2>3. ~exists /\ exists'
    BY DEF EvDefaultLoop
  <2>4. func = "idle" /\ renewals = {}
    BY <2>3 DEF LifeTypes
  <2> QED BY <2>1, <2>2, <2>3, <2>4
<1>2. Opened(fdt, fdt', backend_fd', "backend")
  BY <1>1, OpenedIs, KindsAre DEF EvDefaultLoop
<1>3. /\ evpipe'[1] = -1 /\ evpipe'[2] = -1
      /\ fd' \in [Lazy -> Int] /\ \A k \in Lazy : fd'[k] = -2
      /\ "pipe_w" \notin running' /\ func' \in {"idle", "create"}
  BY DEF EvDefaultLoop
<1>4. \A n \in 1 .. MaxFd : fdt[n].kind \notin Own
  BY <1>1 DEF OwnKnown
<1>5. LifeTypes'
  BY <1>1, <1>2, <1>3 DEF LifeTypes, Opened, Table
<1>6. OwnKnown'
  BY <1>1, <1>2, <1>3, <1>4, KindsAre DEF OwnKnown, Opened, WriteEnds, Lazy
<1>7. FdsOpen'
  BY <1>1, <1>2, <1>3 DEF FdsOpen, Opened, Open
<1>8. PipeOpen'
  BY <1>1, <1>2, <1>3 DEF PipeOpen
<1>9. Renewed'
  <2>1. /\ \A n \in 1 .. MaxFd : fdt'[n].id <= objects'
        /\ \A o \in shared' : o.id \in Nat /\ o.id <= objects'
        /\ \A n \in 1 .. MaxFd : fdt[n] \notin shared => fdt'[n] \notin shared'
        /\ fdt'[backend_fd'] \notin shared'
    BY <1>1, <1>2, OpenedFresh DEF Renewed
  <2>2. Fresh(backend_fd)' /\ \A k \in Lazy : Fresh(fd[k])'
    BY <1>3, <2>1 DEF Fresh
  <2>3. Fresh(evpipe[1])' /\ Fresh(evpipe[2])'
    BY <1>3 DEF Fresh
  <2> QED BY <1>1, <1>3, <2>1, <2>2, <2>3 DEF Renewed, AllFresh, Lazy
<1> QED BY <1>1, <1>5, <1>6, <1>7, <1>8, <1>9

LEMMA EvLoopDestroyKeeps ==
  ASSUME LifeInv, EvLoopDestroy
  PROVE  LifeInv'
<1> USE DEF LifeInv
<1>1. /\ fdt \in Table /\ exists /\ func = "idle" /\ ~exists' /\ exists' \in BOOLEAN
      /\ UNCHANGED <<objects, backend_fd, evpipe, fds, fd, postfork, func, renewals, shared>>
  BY DEF EvLoopDestroy, Idle, LifeTypes, Table
<1>2. Shut(fdt, fdt', Destroyed)
  BY <1>1, ShutIs DEF EvLoopDestroy
<1>3. \A n \in 1 .. MaxFd : fdt[n].kind \in Own <=> n \in Destroyed
  <2>1. ASSUME NEW n \in 1 .. MaxFd, fdt[n].kind \in Own PROVE n \in Destroyed
    <3>1. CASE fdt[n].kind \in {"pipe_r", "pipe_w", "eventfd"}
      BY LifeAssumption, <1>1, <2>1, <3>1 DEF OwnKnown, PipeOpen, Destroyed, WriteEnds, Own
    <3>2. CASE fdt[n].kind \in Lazy
      <4>1. PICK k \in Lazy : k = fdt[n].kind
        BY <3>2
      <4>2. n = fd[k]
        BY <4>1 DEF OwnKnown
      <4>3. fd[k] # -1 /\ fd[k] # -2
        BY LifeAssumption, <4>2
      <4>4. k \in running
        BY <1>1, <4>1, <4>3 DEF FdsOpen
      <4> QED BY <4>2, <4>4 DEF Destroyed
    <3>3. CASE fdt[n].kind = "backend"
      BY <3>3 DEF OwnKnown, Destroyed
    <3> QED BY <2>1, <3>1, <3>2, <3>3 DEF Own
  <2>2. ASSUME NEW n \in 1 .. MaxFd, n \in Destroyed PROVE fdt[n].kind \in Own
    BY LifeAssumption, <1>1, <2>2, KindsAre DEF FdsOpen, PipeOpen, Destroyed, WriteEnds, Own, Open, Lazy
  <2> QED BY <2>1, <2>2
<1>4. \A n \in 1 .. MaxFd : fdt'[n].kind \notin Own
  BY <1>2, <1>3, KindsAre DEF Shut
<1>5. ~strayed'
  <2>1. \A n \in Destroyed : n > 0 => n \in 1 .. MaxFd
    BY LifeAssumption, <1>1, KindsAre DEF FdsOpen, PipeOpen, Destroyed, Open, Lazy
  <2> QED BY <1>3, <2>1 DEF EvLoopDestroy, Stray
<1>6. LifeTypes'
  BY <1>1, <1>2 DEF LifeTypes, Shut, Table
<1>7. OwnKnown'
  BY <1>4, KindsAre DEF OwnKnown, WriteEnds
<1>8. Renewed'
  <2>1. \A n \in 1 .. MaxFd : fdt'[n].id <= objects
    BY <1>1, <1>2 DEF Renewed, Shut, LifeTypes
  <2> QED BY <1>1, <2>1 DEF Renewed
<1> QED BY <1>1, <1>5, <1>6, <1>7, <1>8 DEF FdsOpen, PipeOpen

LEMMA StartAsyncKeeps ==
  ASSUME LifeInv, StartAsync
  PROVE  LifeInv'
<1> USE DEF LifeInv
<1>1. /\ exists /\ func = "idle"
      /\ func' = IF "pipe_w" \in running THEN "idle" ELSE "create"
      /\ UNCHANGED <<fdt, objects, exists, backend_fd, evpipe, fds, fd, running, pipe_w_fd,
                     postfork, renewals, shared, strayed>>
  BY DEF StartAsync, Idle
<1>2. renewals = {} /\ func' \in {"idle", "create"}
  BY <1>1 DEF LifeTypes
<1>3. LifeTypes'
  BY <1>1, <1>2 DEF LifeTypes
<1>4. OwnKnown'
  BY <1>1, <1>2 DEF OwnKnown
<1>5. FdsOpen'
  BY <1>1 DEF FdsOpen, Open
<1>6. PipeOpen'
  BY <1>1, <1>2 DEF PipeOpen, Open
<1>7. Renewed'
  BY <1>1, <1>2 DEF Renewed, Fresh, AllFresh
<1> QED BY <1>1, <1>3, <1>4, <1>5, <1>6, <1>7

LEMMA StartLazyKeeps ==
  ASSUME LifeInv, NEW k \in Lazy, StartLazy(k)
  PROVE  LifeInv'
<1> USE DEF LifeInv
<1>1. /\ exists /\ func = "idle" /\ fdt \in Table /\ objects \in Nat
      /\ UNCHANGED <<exists, backend_fd, evpipe, fds, pipe_w_fd, postfork, func, renewals, shared,
                     strayed>>
  BY DEF StartLazy, Idle, LifeTypes, Table
<1>2. CASE UNCHANGED <<fdt, objects, fd, running>>
  BY <1>1, <1>2 DEF LifeTypes, OwnKnown, FdsOpen, PipeOpen, Renewed, Open, Fresh, AllFresh
<1>3. CASE fd[k] = -2 /\ fd' = [fd EXCEPT ![k] = -1] /\ UNCHANGED <<fdt, objects, running>>
  <2>1. /\ fd' \in [Lazy -> Int] /\ fd'[k] = -1 /\ \A j \in Lazy : j # k => fd'[j] = fd[j]
    BY <1>3 DEF LifeTypes
  <2>2. LifeTypes'
    BY <1>1, <1>3, <2>1 DEF LifeTypes
  <2>3. OwnKnown'
    BY LifeAssumption, <1>1, <1>3, <2>1 DEF OwnKnown
  <2>4. FdsOpen'
    BY <1>1, <1>3, <2>1 DEF FdsOpen, Open
  <2>5. PipeOpen'
    BY <1>1, <1>3 DEF PipeOpen, Open
  <2>6. \A j \in Lazy : Fresh(fd[j]) => Fresh(fd[j])'
    BY <1>1, <1>3, <2>1 DEF Fresh
  <2>7. Renewed'
    BY <1>1, <1>3, <2>6 DEF Renewed, Fresh, AllFresh, Lazy
  <2> QED BY <1>1, <2>2, <2>3, <2>4, <2>5, <2>7
<1>4. CASE /\ fd[k] = -2 /\ objects' = objects + 1 /\ running' = running \cup {k}
           /\ \E n \in Lowest(fdt) :
                fdt' = [fdt EXCEPT ![n] = New(k, 1)] /\ fd' = [fd EXCEPT ![k] = n]
  <2>1. PICK n \in Lowest(fdt) : fdt' = [fdt EXCEPT ![n] = New(k, 1)] /\ fd' = [fd EXCEPT ![k] = n]
    BY <1>4
  <2>2. Opened(fdt, fdt', n, k) /\ k \in Kinds
    BY <1>1, <2>1, OpenedIs, KindsAre
  <2>3. /\ fd' \in [Lazy -> Int] /\ fd'[k] = n /\ \A j \in Lazy : j # k => fd'[j] = fd[j]
    BY <2>1, <2>2 DEF LifeTypes, Opened
  <2>4. \A m \in 1 .. MaxFd : fdt[m].kind # k
    BY LifeAssumption, <1>4 DEF OwnKnown
  <2>5. LifeTypes'
    BY <1>1, <1>4, <2>2, <2>3 DEF LifeTypes, Opened, Table
  <2>6. OwnKnown'
    BY <1>1, <1>4, <2>2, <2>3, <2>4, KindsAre DEF OwnKnown, Opened, WriteEnds, Lazy
  <2>7. FdsOpen'
    BY <1>1, <1>4, <2>2, <2>3, KindsAre DEF FdsOpen, Open, Opened, Lazy
  <2>8. \A m, kinds : "closed" \notin kinds /\ Open(m, kinds) => Open(m, kinds)' /\ fdt'[m] = fdt[m]
    BY <2>2 DEF Open, Opened
  <2>9. PipeOpen'
    BY <1>1, <1>4, <2>8 DEF PipeOpen, WriteEnds, Lazy
  <2>10. Renewed'
    <3>1. /\ \A m \in 1 .. MaxFd : fdt'[m].id <= objects'
          /\ \A o \in shared' : o.id \in Nat /\ o.id <= objects'
          /\ \A m \in 1 .. MaxFd : fdt[m] \notin shared => fdt'[m] \notin shared'
          /\ fdt'[n] \notin shared'
      <4>1. /\ \A m \in 1 .. MaxFd : fdt[m].id <= objects
            /\ \A o \in shared : o.id \in Nat /\ o.id <= objects
        BY DEF Renewed
      <4>2. /\ \A m \in 1 .. MaxFd : fdt'[m].id <= objects + 1
            /\ \A o \in shared : o.id \in Nat /\ o.id <= objects + 1
            /\ \A m \in 1 .. MaxFd : fdt[m] \notin shared => fdt'[m] \notin shared
            /\ fdt'[n] \notin shared
        BY <1>1, <2>2, <4>1, OpenedFresh
      <4> QED BY <1>1, <1>4, <4>2
    <3>2. \A m : Fresh(m) => Fresh(m)'
      BY <3>1 DEF Fresh
    <3>3. \A j \in Lazy : Fresh(fd[j]) => Fresh(fd[j])'
      BY <2>3, <3>1 DEF Fresh
    <3>4. Fresh(backend_fd) => Fresh(backend_fd)'
      BY <1>1, <3>2 DEF Fresh
    <3>5. (Fresh(evpipe[1]) => Fresh(evpipe[1])') /\ (Fresh(evpipe[2]) => Fresh(evpipe[2])')
      BY <1>1, <3>2 DEF Fresh
    <3> QED BY <1>1, <3>1, <3>3, <3>4, <3>5 DEF Renewed, AllFresh, Lazy
  <2> QED BY <1>1, <2>5, <2>6, <2>7, <2>9, <2>10
<1> QED BY <1>2, <1>3, <1>4 DEF StartLazy

LEMMA StopWatcherKeeps ==
  ASSUME LifeInv, StopWatcher
  PROVE  LifeInv'
<1> USE DEF LifeInv
<1>1. UNCHANGED <<fdt, objects, exists, backend_fd, evpipe, fds, fd, running, pipe_w_fd, postfork,
                  func, renewals, shared, strayed>>
  BY DEF StopWatcher
<1>2. LifeTypes' /\ OwnKnown' /\ FdsOpen' /\ PipeOpen'
  BY <1>1 DEF LifeTypes, OwnKnown, FdsOpen, PipeOpen, Open
<1>3. Renewed'
  BY <1>1 DEF Renewed, Fresh, AllFresh
<1> QED BY <1>1, <1>2, <1>3

LEMMA CreatePipeKeeps ==
  ASSUME LifeInv, CreatePipe
  PROVE  LifeInv'
<1> USE DEF LifeInv
<1>1. /\ func = "create" /\ func' = "dup" /\ fdt \in Table /\ objects \in Nat /\ objects' = objects + 1
      /\ UNCHANGED <<exists, backend_fd, evpipe, fd, running, pipe_w_fd, postfork, renewals,
                     shared, strayed>>
  BY DEF CreatePipe, LifeTypes, Table
\* the two ends, of which an eventfd has one
<1>2. PICK r \in Int, w \in Int :
      /\ fds'[1] = r /\ fds'[2] = w
      /\ fdt' \in Table
      /\ w \in 1 .. MaxFd /\ fdt[w].kind = "closed"
      /\ fdt'[w].kind \in WriteEnds /\ fdt'[w].id = objects + 1
      /\ r = -1 \/ /\ r \in 1 .. MaxFd /\ r # w /\ fdt[r].kind = "closed"
                   /\ fdt'[r].kind = "pipe_r" /\ fdt'[r].id = objects + 1
      /\ \A m \in 1 .. MaxFd : m # w /\ m # r => fdt'[m] = fdt[m]
  <2>1. PICK ok \in EVENTFDS, n \in Lowest(fdt) :
          LET withR == [fdt EXCEPT ![n] = New("pipe_r", 1)]
          IN  IF ok THEN fdt' = [fdt EXCEPT ![n] = New("eventfd", 1)] /\ fds' = <<-1, n>>
              ELSE \E o \in Lowest(withR) :
                     fdt' = [withR EXCEPT ![o] = New("pipe_w", 1)] /\ fds' = <<n, o>>
    BY DEF CreatePipe
  <2>2. CASE ok
    <3>1. Opened(fdt, fdt', n, "eventfd") /\ fds' = <<-1, n>>
      BY <1>1, <2>1, <2>2, OpenedIs, KindsAre
    <3> QED BY <3>1, LifeAssumption DEF Opened, WriteEnds
  <2>3. CASE ~ok
    <3> DEFINE t == [fdt EXCEPT ![n] = New("pipe_r", 1)]
    <3>1. PICK o \in Lowest(t) : fdt' = [t EXCEPT ![o] = New("pipe_w", 1)] /\ fds' = <<n, o>>
      BY <2>1, <2>3
    <3>2. Opened(fdt, t, n, "pipe_r")
      BY <1>1, OpenedIs, KindsAre
    <3> HIDE DEF t
    <3>3. Opened(t, fdt', o, "pipe_w")
      <4>1. t \in Table
        BY <3>2 DEF Opened
      <4>2. Opened(t, [t EXCEPT ![o] = New("pipe_w", 1)], o, "pipe_w")
        BY <1>1, <4>1, OpenedIs, KindsAre
      <4> QED BY <3>1, <4>2
    <3>4. o # n /\ fds'[1] = n /\ fds'[2] = o
      BY <3>1, <3>2, <3>3 DEF Opened
    <3>5. /\ n \in Int /\ o \in Int /\ n \in 1 .. MaxFd /\ o \in 1 .. MaxFd
          /\ fdt[n].kind = "closed" /\ fdt[o].kind = "closed"
          /\ fdt'[n].kind = "pipe_r" /\ fdt'[n].id = objects + 1
          /\ fdt'[o].kind = "pipe_w" /\ fdt'[o].id = objects + 1
          /\ fdt' \in Table /\ \A m \in 1 .. MaxFd : m # o /\ m # n => fdt'[m] = fdt[m]
      BY <3>2, <3>3, <3>4, LifeAssumption DEF Opened
    <3> QED BY <3>4, <3>5 DEF WriteEnds
  <2> QED BY <2>2, <2>3
<1>3. {fds'[1], fds'[2]} \subseteq Int
  BY <1>2
<1>4. /\ \A m, kinds : "closed" \notin kinds /\ Open(m, kinds) => Open(m, kinds)' /\ fdt'[m] = fdt[m]
      /\ \A m : Fresh(m) => Fresh(m)'
      /\ Fresh(r)' /\ Fresh(w)'
  <2>1. \A m \in {r, w} : m \in 1 .. MaxFd => fdt'[m] \notin shared
    <3>1. \A o \in shared : o.id # objects + 1
      BY <1>1 DEF Renewed
    <3>2. r # -1 \/ r \notin 1 .. MaxFd
      BY LifeAssumption
    <3> QED BY <1>2, <3>1, <3>2
  <2> QED BY <1>1, <1>2, <2>1 DEF Open, Fresh
<1>5. exists
  BY <1>1 DEF LifeTypes
<1>6. LifeTypes'
  BY <1>1, <1>2, <1>3 DEF LifeTypes, Table
<1>7. OwnKnown'
  BY <1>1, <1>2, <1>5, KindsAre DEF OwnKnown, PipeOpen, WriteEnds, Lazy
<1>8. FdsOpen'
  BY <1>1, <1>4, KindsAre DEF FdsOpen, Lazy
<1>9. PipeOpen'
  <2>1. w # evpipe[2] /\ evpipe[2] \in Int
    BY <1>1, <1>2, <1>5, LifeAssumption DEF PipeOpen, Open, WriteEnds, LifeTypes
  <2>2. "pipe_w" \notin running
    BY <1>1, <1>5 DEF PipeOpen
  <2>3. Open(w, WriteEnds)' /\ (r = -1 \/ (Open(r, {"pipe_r"})' /\ fdt'[r].id = fdt'[w].id))
    BY <1>2 DEF Open
  <2>4. /\ Open(fds[2], WriteEnds)'
        /\ fds'[1] = -1 \/ (Open(fds[1], {"pipe_r"})' /\ fdt'[fds'[1]].id = fdt'[fds'[2]].id)
    BY <1>2, <2>3 DEF Open
  <2>5. evpipe[2] = -1 \/ Open(evpipe[2], WriteEnds)'
    <3>1. evpipe[2] = -1 \/ Open(evpipe[2], WriteEnds)
      BY <1>5 DEF PipeOpen
    <3> QED BY <1>1, <1>2, <3>1 DEF Open, WriteEnds
  <2>6. fds'[2] # evpipe'[2]
    BY <1>1, <1>2, <2>1
  <2> QED BY <1>1, <1>5, <2>2, <2>4, <2>5, <2>6 DEF PipeOpen
<1>10. Renewed'
  <2>1. \A m \in 1 .. MaxFd : fdt'[m].id <= objects'
    <3>1. \A m \in 1 .. MaxFd : fdt[m].id \in Nat /\ fdt[m].id <= objects
      BY <1>1 DEF Renewed, Table
    <3> QED BY <1>1, <1>2, <3>1
  <2>2. \A o \in shared' : o.id \in Nat /\ o.id <= objects'
    BY <1>1 DEF Renewed
  <2>3. AllFresh => AllFresh'
    BY <1>1, <1>4 DEF AllFresh, Fresh
  <2>4. Fresh(fds[1])' /\ Fresh(fds[2])'
    BY <1>2, <1>4 DEF Fresh
  <2> QED BY <1>1, <1>5, <2>1, <2>2, <2>3, <2>4 DEF Renewed
<1> QED BY <1>1, <1>6, <1>7, <1>8, <1>9, <1>10

LEMMA DupPipeKeeps ==
  ASSUME LifeInv, DupPipe
  PROVE  LifeInv'
<1> USE DEF LifeInv
<1>1. /\ func = "dup" /\ func' = "close" /\ fdt \in Table
      /\ UNCHANGED <<objects, exists, backend_fd, fds, fd, running, pipe_w_fd, postfork, renewals,
                     shared, strayed>>
  BY DEF DupPipe, LifeTypes, Table
<1>2. exists /\ "pipe_w" \notin running
  BY <1>1 DEF LifeTypes, PipeOpen
\* what evpipe [1] names now is what fds [1] does
<1>3. PICK e \in Int :
      /\ evpipe'[1] = fds[1] /\ evpipe'[2] = e /\ e = WriteEnd
      /\ Open(e, WriteEnds) /\ Open(fds[2], WriteEnds)
      /\ IF evpipe[2] = -1 THEN e = fds[2] ELSE e = evpipe[2] /\ e # fds[2]
      /\ fds[1] = -1 \/ (Open(fds[1], {"pipe_r"}) /\ fdt[fds[1]].id = fdt[fds[2]].id)
  <2>1. evpipe'[1] = fds[1] /\ evpipe'[2] = WriteEnd /\ WriteEnd \in Int
    BY DEF DupPipe, WriteEnd, LifeTypes
  <2>2. evpipe[2] = -1 \/ (Open(evpipe[2], WriteEnds) /\ ~(evpipe[2] < 0))
    BY <1>2, LifeAssumption DEF PipeOpen, Open
  <2> QED BY <1>1, <1>2, <2>1, <2>2 DEF PipeOpen, WriteEnd
<1>4. /\ fdt' \in Table /\ fdt'[e] = fdt[fds[2]]
      /\ \A m \in 1 .. MaxFd : m # e => fdt'[m] = fdt[m]
  <2>1. fdt' = [fdt EXCEPT ![e] = fdt[fds[2]]]
    BY <1>3 DEF DupPipe
  <2> QED BY <1>1, <1>3, <2>1 DEF Open, Table
<1>5. fds[1] # e
  BY <1>3, LifeAssumption DEF Open, WriteEnds
<1>6. /\ \A m, kinds : kinds \cap WriteEnds = {} /\ Open(m, kinds) => Open(m, kinds)' /\ fdt'[m] = fdt[m]
      /\ Open(e, WriteEnds)' /\ Open(fds[2], WriteEnds)' /\ fdt'[fds[2]] = fdt[fds[2]]
  BY <1>1, <1>3, <1>4 DEF Open
<1>7. Fresh(fds[2]) => \A m : Fresh(m) => Fresh(m)'
  BY <1>1, <1>3, <1>4 DEF Fresh, Open
<1>8. LifeTypes'
  BY <1>1, <1>3, <1>4, <1>5 DEF LifeTypes, Table
<1>9. OwnKnown'
  <2>1. \A n \in 1 .. MaxFd : n # e => fdt'[n] = fdt[n]
    BY <1>4
  <2>2. fdt'[e].kind \in WriteEnds
    BY <1>6 DEF Open
  <2> QED BY <1>1, <1>2, <1>3, <2>1, <2>2, KindsAre DEF OwnKnown, WriteEnds, Lazy
<1>10. FdsOpen'
  BY <1>1, <1>6, KindsAre DEF FdsOpen, Lazy, WriteEnds
<1>11. PipeOpen'
  <2>1. fds[1] = -1 \/ (Open(fds[1], {"pipe_r"})' /\ fdt'[fds[1]].id = fdt'[e].id)
    BY <1>1, <1>3, <1>4, <1>6 DEF Open, WriteEnds
  <2> QED BY <1>1, <1>2, <1>3, <1>5, <1>6, <2>1 DEF PipeOpen
<1>12. Renewed'
  <2>1. \A m \in 1 .. MaxFd : fdt'[m].id <= objects'
    BY <1>1, <1>3, <1>4 DEF Renewed, Open
  <2>2. Fresh(fds[1]) /\ Fresh(fds[2])
    BY <1>1, <1>2 DEF Renewed
  <2>3. Fresh(fds[1])' /\ Fresh(fds[2])' /\ (AllFresh => AllFresh')
    BY <1>1, <1>7, <2>2 DEF AllFresh, Fresh
  <2>4. Fresh(e)'
    BY <1>1, <1>4, <1>3, <2>2 DEF Fresh, Open
  <2>5. Fresh(evpipe[1])' /\ Fresh(evpipe[2])'
    BY <1>1, <1>3, <2>3, <2>4 DEF Fresh
  <2> QED BY <1>1, <2>1, <2>3, <2>5 DEF Renewed
<1> QED BY <1>1, <1>8, <1>9, <1>10, <1>11, <1>12

LEMMA ClosePipeKeeps ==
  ASSUME LifeInv, ClosePipe
  PROVE  LifeInv'
<1> USE DEF LifeInv
<1> DEFINE spare == IF fds[2] = evpipe[2] THEN {} ELSE {fds[2]}
<1>1. /\ func = "close" /\ func' = "idle" /\ renewals' = {} /\ fdt \in Table
      /\ running' = running \cup {"pipe_w"}
      /\ pipe_w_fd' = IF evpipe[1] < 0 THEN evpipe[2] ELSE evpipe[1]
      /\ postfork' = IF renewals = {"pipe"} THEN 0 ELSE postfork
      /\ fdt' = ClosedFds(fdt, spare) /\ strayed' = (strayed \/ Stray(spare))
      /\ UNCHANGED <<objects, exists, backend_fd, evpipe, fds, fd, shared>>
  BY DEF ClosePipe, LifeTypes, Table
<1>2. exists
  BY <1>1 DEF LifeTypes
<1>3. /\ Open(evpipe[2], WriteEnds) /\ evpipe[2] # -1 /\ Open(fds[2], WriteEnds)
      /\ evpipe[1] = -1 \/ (Open(evpipe[1], {"pipe_r"}) /\ fdt[evpipe[1]].id = fdt[evpipe[2]].id)
  BY <1>1, <1>2 DEF PipeOpen
<1>4. Shut(fdt, fdt', spare) /\ ~strayed'
  <2>1. ~Stray(spare)
    BY <1>3 DEF Stray, Open, WriteEnds, Own
  <2> QED BY <1>1, <2>1, ShutIs
<1>5. evpipe[1] \notin spare /\ evpipe[2] \notin spare
  BY <1>3, LifeAssumption DEF Open, WriteEnds
<1>6. /\ \A m, kinds : kinds \cap WriteEnds = {} /\ Open(m, kinds) => Open(m, kinds)' /\ fdt'[m] = fdt[m]
      /\ \A m : Fresh(m) /\ m \notin spare => Fresh(m)'
  BY <1>1, <1>3, <1>4 DEF Shut, Open, Fresh
<1>7. fdt'[evpipe[2]] = fdt[evpipe[2]]
  BY <1>3, <1>4, <1>5 DEF Shut, Open
<1>8. LifeTypes'
  <2>1. fdt' \in Table
    BY <1>4 DEF Shut
  <2>2. postfork' \in 0 .. 3
    BY <1>1 DEF LifeTypes
  <2> QED BY <1>1, <1>2, <2>1, <2>2 DEF LifeTypes, Table
<1>9. OwnKnown'
  <2>1. ASSUME NEW n \in 1 .. MaxFd
        PROVE  fdt'[n].kind = "closed" \/ (fdt'[n] = fdt[n] /\ n \notin spare)
    BY <1>4 DEF Shut
  <2> SUFFICES ASSUME NEW m \in 1 .. MaxFd
      PROVE /\ fdt'[m].kind \in Own => exists'
            /\ fdt'[m].kind = "backend" => m = backend_fd'
            /\ \A k \in Lazy : fdt'[m].kind = k => m = fd'[k]
            /\ fdt'[m].kind = "pipe_r" =>
                 \/ m = evpipe'[1] /\ ("pipe_w" \in running' \/ func' = "close")
                 \/ m = fds'[1] /\ func' = "dup"
            /\ fdt'[m].kind \in WriteEnds =>
                 m = evpipe'[2] \/ (m = fds'[2] /\ func' \in {"dup", "close"})
    BY DEF OwnKnown
  <2>2. CASE fdt'[m].kind = "closed"
    BY <2>2, KindsAre DEF WriteEnds, Lazy
  <2>3. CASE fdt'[m] = fdt[m] /\ m \notin spare
    BY <1>1, <1>2, <2>3 DEF OwnKnown
  <2> QED BY <2>1, <2>2, <2>3
<1>10. FdsOpen'
  BY <1>1, <1>2, <1>6, KindsAre DEF FdsOpen, Lazy, WriteEnds
<1>11. PipeOpen'
  <2>1. Open(evpipe[2], WriteEnds)'
    BY <1>1, <1>3, <1>4, <1>7 DEF Open
  <2>2. evpipe[1] = -1 \/ (Open(evpipe[1], {"pipe_r"})' /\ fdt'[evpipe[1]].id = fdt'[evpipe[2]].id)
    <3>1. evpipe[1] = -1 \/ fdt'[evpipe[1]] = fdt[evpipe[1]]
      BY <1>3, <1>4, <1>5 DEF Shut, Open
    <3> QED BY <1>1, <1>3, <1>7, <3>1 DEF Open
  <2> QED BY <1>1, <1>3, <2>1, <2>2 DEF PipeOpen
<1>12. Renewed'
  <2>1. \A m \in 1 .. MaxFd : fdt'[m].id <= objects'
    <3>1. objects \in Nat /\ objects' = objects /\ \A m \in 1 .. MaxFd : fdt[m].id <= objects
      BY <1>1 DEF Renewed, LifeTypes
    <3> HIDE DEF spare
    <3>2. \A m \in 1 .. MaxFd : fdt'[m].id <= objects
      BY <1>1, <1>4, <3>1, ShutOld
    <3> QED BY <3>1, <3>2
  <2>2. AllFresh => AllFresh'
    <3>1. \A m \in spare : ~Open(m, {"backend"}) /\ \A k \in Lazy : ~Open(m, {k})
      BY <1>3 DEF Open, WriteEnds, Lazy
    <3>2. \A m \in {backend_fd, fd["timerfd"], fd["fs_fd"]} : m \in 1 .. MaxFd => m \notin spare
      BY <1>2, <3>1, LifeAssumption DEF FdsOpen, Lazy
    <3>3. \A m \in {backend_fd, fd["timerfd"], fd["fs_fd"]} : Fresh(m) => Fresh(m)'
      BY <1>6, <3>2 DEF Fresh
    <3> QED BY <1>1, <3>3 DEF AllFresh, Fresh
  <2>3. Fresh(evpipe[1])' /\ Fresh(evpipe[2])'
    BY <1>1, <1>2, <1>5, <1>6 DEF Renewed, Fresh
  <2>4. postfork' \in {0, 2} => AllFresh
    BY <1>1, <1>2 DEF Renewed
  <2> QED BY <1>1, <1>2, <2>1, <2>2, <2>3, <2>4 DEF Renewed
<1> QED BY <1>4, <1>8, <1>9, <1>10, <1>11, <1>12

LEMMA ForkKeeps ==
  ASSUME LifeInv, Fork
  PROVE  LifeInv'
<1> USE DEF LifeInv
<1>1. /\ exists /\ func = "idle" /\ postfork' = 1
      /\ shared' = {fdt[n] : n \in {m \in DOMAIN fdt : fdt[m].kind \in Own}}
      /\ UNCHANGED <<fdt, objects, exists, backend_fd, evpipe, fds, fd, running, pipe_w_fd, func,
                     renewals, strayed>>
  BY DEF Fork, Idle
<1>2. LifeTypes' /\ OwnKnown' /\ FdsOpen' /\ PipeOpen'
  BY <1>1 DEF LifeTypes, OwnKnown, FdsOpen, PipeOpen, Open
<1>3. Renewed'
  <2>1. \A o \in shared' : \E n \in 1 .. MaxFd : o = fdt[n]
    BY <1>1 DEF LifeTypes
  <2>2. \A n \in 1 .. MaxFd : fdt[n].id \in Nat
    BY DEF LifeTypes
  <2>3. \A o \in shared' : o.id \in Nat /\ o.id <= objects
    BY <2>1, <2>2 DEF Renewed
  <2> QED BY <1>1, <2>3 DEF Renewed
<1> QED BY <1>1, <1>2, <1>3

LEMMA BackendAsksKeeps ==
  ASSUME LifeInv, BackendAsks
  PROVE  LifeInv'
<1> USE DEF LifeInv
<1>1. /\ func = "idle" /\ postfork < 2 /\ postfork' = postfork + 2
      /\ UNCHANGED <<fdt, objects, exists, backend_fd, evpipe, fds, fd, running, pipe_w_fd, func,
                     renewals, shared, strayed>>
  BY DEF BackendAsks, Idle
<1>2. postfork' \in 0 .. 3 /\ (postfork' \in {0, 2} => postfork \in {0, 2})
  BY <1>1 DEF LifeTypes
<1>3. LifeTypes' /\ OwnKnown' /\ FdsOpen' /\ PipeOpen'
  BY <1>1, <1>2 DEF LifeTypes, OwnKnown, FdsOpen, PipeOpen, Open
<1>4. Renewed'
  BY <1>1, <1>2 DEF Renewed, Fresh, AllFresh
<1> QED BY <1>1, <1>3, <1>4

LEMMA LoopForkKeeps ==
  ASSUME LifeInv, LoopFork
  PROVE  LifeInv'
<1> USE DEF LifeInv
<1>1. /\ exists /\ func = "idle" /\ func' = "fork" /\ postfork # 0
      /\ renewals' = {"backend"} \cup {k \in {"fs_fd"} : fd[k] >= 0}
                       \cup (IF RenewsAll THEN {"timerfd"} \cap running ELSE {})
      /\ UNCHANGED <<fdt, objects, exists, backend_fd, evpipe, fds, fd, running, pipe_w_fd,
                     postfork, shared, strayed>>
  BY DEF LoopFork, Idle
<1>2. renewals' \subseteq {"backend"} \cup (Lazy \cap running)
  BY <1>1, LifeAssumption DEF FdsOpen, Lazy
<1>3. LifeTypes' /\ OwnKnown' /\ FdsOpen' /\ PipeOpen'
  BY <1>1, <1>2 DEF LifeTypes, OwnKnown, FdsOpen, PipeOpen, Open
<1>4. Renewed'
  <2>1. \A k \in Lazy : fd[k] \in {-1, -2} => Fresh(fd[k])
    BY LifeAssumption DEF Fresh
  <2>2. "fs_fd" \in renewals' \/ Fresh(fd["fs_fd"])
    BY <1>1, <2>1, LifeAssumption DEF FdsOpen, Open, Lazy
  <2>3. "timerfd" \in renewals' \/ Fresh(fd["timerfd"])
    <3>1. CASE postfork = 2
      BY <1>1, <3>1 DEF Renewed, AllFresh
    <3>2. CASE postfork # 2
      BY <1>1, <2>1, <3>2 DEF RenewsAll, FdsOpen, Lazy
    <3> QED BY <3>1, <3>2
  <2> QED BY <1>1, <2>2, <2>3 DEF Renewed, Fresh, AllFresh
<1> QED BY <1>1, <1>3, <1>4

LEMMA OpenOtherKeeps ==
  ASSUME LifeInv, OpenOther
  PROVE  LifeInv'
<1> USE DEF LifeInv
<1>1. /\ fdt \in Table /\ objects \in Nat /\ objects' = objects + 1
      /\ UNCHANGED <<exists, backend_fd, evpipe, fds, fd, running, pipe_w_fd, postfork, func,
                     renewals, shared, strayed>>
  BY DEF OpenOther, LifeTypes, Table
<1>2. PICK n \in Lowest(fdt) : Opened(fdt, fdt', n, "other")
  <2>1. PICK n \in Lowest(fdt) : fdt' = [fdt EXCEPT ![n] = New("other", 1)]
    BY DEF OpenOther
  <2>2. Opened(fdt, [fdt EXCEPT ![n] = New("other", 1)], n, "other")
    BY <1>1, OpenedIs, KindsAre
  <2> QED BY <2>1, <2>2
<1>3. /\ \A m, kinds : "closed" \notin kinds /\ Open(m, kinds) => Open(m, kinds)' /\ fdt'[m] = fdt[m]
      /\ \A m \in 1 .. MaxFd : fdt'[m].kind = fdt[m].kind \/ fdt'[m].kind = "other"
  BY <1>2 DEF Open, Opened
<1>4. LifeTypes'
  BY <1>1, <1>2 DEF LifeTypes, Opened, Table
<1>5. OwnKnown'
  BY <1>1, <1>3, KindsAre DEF OwnKnown, WriteEnds, Lazy
<1>6. FdsOpen'
  BY <1>1, <1>3 DEF FdsOpen, Open, Lazy
<1>7. PipeOpen'
  BY <1>1, <1>3 DEF PipeOpen, Open, WriteEnds
<1>8. Renewed'
  <2>1. /\ \A m \in 1 .. MaxFd : fdt'[m].id <= objects'
        /\ \A o \in shared' : o.id \in Nat /\ o.id <= objects'
        /\ \A m \in 1 .. MaxFd : fdt[m] \notin shared => fdt'[m] \notin shared'
    BY <1>1, <1>2, OpenedFresh DEF Renewed
  <2> QED BY <1>1, <2>1 DEF Renewed, Fresh, AllFresh
<1> QED BY <1>1, <1>4, <1>5, <1>6, <1>7, <1>8


LEMMA RenewKeeps ==
  ASSUME LifeInv, NEW k \in Lazy \cup {"backend"}, Renew(k)
  PROVE  LifeInv'
<1> USE DEF LifeInv
<1> DEFINE old == IF k = "backend" THEN backend_fd ELSE fd[k]
           t == ClosedFds(fdt, {old})
<1>1. /\ func = "fork" /\ fdt \in Table /\ objects \in Nat
      /\ k \in renewals /\ renewals' = renewals \ {k}
      /\ strayed' = (strayed \/ Stray({old}))
      /\ UNCHANGED <<exists, evpipe, fds, pipe_w_fd, postfork, func, shared>>
  BY DEF Renew, LifeTypes, Table
<1>2. exists
  BY <1>1 DEF LifeTypes
<1>3. \/ /\ k # "backend" /\ fdt' = t /\ fd' = [fd EXCEPT ![k] = -1]
         /\ running' = running \ {k} /\ UNCHANGED <<objects, backend_fd>>
      \/ /\ objects' = objects + 1 /\ UNCHANGED running
         /\ \E n \in Lowest(t) :
              /\ fdt' = [t EXCEPT ![n] = New(k, 1)]
              /\ IF k = "backend" THEN backend_fd' = n /\ UNCHANGED fd
                 ELSE fd' = [fd EXCEPT ![k] = n] /\ UNCHANGED backend_fd
  BY DEF Renew, NotRenewed
\* what is closed is the old file of that kind, of which there is no other
<1>4. /\ old \in Int /\ (old \in 1 .. MaxFd => fdt[old].kind = k)
      /\ \A m \in 1 .. MaxFd : fdt[m].kind = k => m = old
  <2>1. CASE k = "backend"
    BY <1>2, <2>1 DEF FdsOpen, Open, OwnKnown, LifeTypes
  <2>2. CASE k \in Lazy
    <3>1. k # "backend" /\ old = fd[k] /\ fd[k] \in Int
      BY <2>2 DEF LifeTypes, Lazy
    <3>2. fd[k] \in {-1, -2} \/ fdt[fd[k]].kind = k
      BY <1>2, <2>2 DEF FdsOpen, Open
    <3>3. \A m \in 1 .. MaxFd : fdt[m].kind = k => m = fd[k]
      BY <2>2 DEF OwnKnown
    <3> QED BY <3>1, <3>2, <3>3, LifeAssumption
  <2> QED BY <2>1, <2>2
<1>5. Shut(fdt, t, {old})
  BY <1>1, ShutIs
<1>6. ~strayed'
  <2>1. old > 0 => old \in 1 .. MaxFd
    BY <1>2, LifeAssumption DEF FdsOpen, Open, Lazy
  <2> QED BY <1>1, <1>4, <2>1, KindsAre DEF Stray
<1> HIDE DEF t, old
\* a table without k's old file: the rest is as it was
<1>7. /\ t \in Table
      /\ \A m \in 1 .. MaxFd : t[m].kind # k
      /\ \A m \in 1 .. MaxFd : t[m].kind = "closed" \/ (t[m] = fdt[m] /\ m # old)
      /\ \A m \in 1 .. MaxFd : fdt[m].kind # k => t[m] = fdt[m]
      /\ \A m \in 1 .. MaxFd : t[m].id \in Nat /\ t[m].id <= objects
  <2>1. "closed" # k
    BY DEF Lazy
  <2>2. \A m \in 1 .. MaxFd : t[m].id <= objects
    <3>1. \A m \in 1 .. MaxFd : fdt[m].id <= objects
      BY DEF Renewed
    <3> QED BY <1>1, <1>5, <3>1, ShutOld
  <2>3. t \in Table
    BY <1>5 DEF Shut
  <2>4. \A m \in 1 .. MaxFd : t[m].id \in Nat
    BY <2>3 DEF Table
  <2>5. \A m \in 1 .. MaxFd : t[m].kind = "closed" \/ (t[m] = fdt[m] /\ m # old)
    BY <1>5 DEF Shut
  <2>6. \A m \in 1 .. MaxFd : fdt[m].kind # k => t[m] = fdt[m]
    BY <1>4, <1>5 DEF Shut
  <2> QED BY <1>4, <2>1, <2>2, <2>3, <2>4, <2>5, <2>6
<1>8. k \in Own /\ k \in Kinds /\ k \notin WriteEnds /\ k # "pipe_r" /\ k # "pipe_w"
  BY KindsAre DEF WriteEnds, Lazy
<1>9. /\ renewals' \subseteq {"backend"} \cup (Lazy \cap running)
      /\ k \in {"backend"} \cup (Lazy \cap running)
  BY <1>1 DEF LifeTypes
\* k's new place, -1 if there is none
<1>10. PICK n \in Int :
      /\ fdt' \in Table /\ objects' \in Nat
      /\ IF k = "backend" THEN backend_fd' = n /\ fd' = fd
         ELSE fd' = [fd EXCEPT ![k] = n] /\ backend_fd' = backend_fd
      /\ \/ n = -1 /\ k # "backend" /\ running' = running \ {k}
         \/ n \in 1 .. MaxFd /\ fdt'[n].kind = k /\ fdt'[n] \notin shared /\ running' = running
      /\ \A m \in 1 .. MaxFd : fdt'[m].kind = k => m = n
      /\ \A m \in 1 .. MaxFd : fdt'[m].kind \in {k, "closed"} \/ fdt'[m] = fdt[m]
      /\ \A m \in 1 .. MaxFd : fdt[m].kind \notin {k, "closed"} => fdt'[m] = fdt[m]
      /\ \A m \in 1 .. MaxFd : fdt'[m].id <= objects'
      /\ \A o \in shared : o.id \in Nat /\ o.id <= objects'
  <2>1. CASE /\ k # "backend" /\ fdt' = t /\ fd' = [fd EXCEPT ![k] = -1]
             /\ running' = running \ {k} /\ UNCHANGED <<objects, backend_fd>>
    <3>1. \A o \in shared : o.id \in Nat /\ o.id <= objects'
      BY <2>1 DEF Renewed
    <3>2. /\ fdt' \in Table /\ \A m \in 1 .. MaxFd : fdt'[m].kind # k
          /\ \A m \in 1 .. MaxFd : fdt'[m].kind = "closed" \/ fdt'[m] = fdt[m]
          /\ \A m \in 1 .. MaxFd : fdt[m].kind \notin {k, "closed"} => fdt'[m] = fdt[m]
          /\ \A m \in 1 .. MaxFd : fdt'[m].id <= objects' /\ objects' \in Nat
      BY <1>1, <1>7, <2>1
    <3>3. -1 \in Int /\ objects' \in Nat
      BY <1>1, <2>1
    <3>4. /\ \A m \in 1 .. MaxFd : fdt'[m].kind = k => m = -1
          /\ \A m \in 1 .. MaxFd : fdt'[m].kind \in {k, "closed"} \/ fdt'[m] = fdt[m]
      BY <3>2
    <3> QED BY <2>1, <3>1, <3>2, <3>3, <3>4
  <2>2. CASE /\ objects' = objects + 1 /\ UNCHANGED running
             /\ \E n \in Lowest(t) :
                  /\ fdt' = [t EXCEPT ![n] = New(k, 1)]
                  /\ IF k = "backend" THEN backend_fd' = n /\ UNCHANGED fd
                     ELSE fd' = [fd EXCEPT ![k] = n] /\ UNCHANGED backend_fd
    <3>1. PICK n \in Lowest(t) :
            /\ fdt' = [t EXCEPT ![n] = New(k, 1)]
            /\ IF k = "backend" THEN backend_fd' = n /\ UNCHANGED fd
               ELSE fd' = [fd EXCEPT ![k] = n] /\ UNCHANGED backend_fd
      BY <2>2
    <3>2. Opened(t, fdt', n, k)
      <4>1. Opened(t, [t EXCEPT ![n] = New(k, 1)], n, k)
        BY <1>1, <1>7, <1>8, OpenedIs
      <4> QED BY <3>1, <4>1
    <3>3. /\ \A m \in 1 .. MaxFd : fdt'[m].id <= objects + 1
          /\ \A o \in shared : o.id \in Nat /\ o.id <= objects + 1
          /\ fdt'[n] \notin shared
      <4>1. \A o \in shared : o.id \in Nat /\ o.id <= objects
        BY DEF Renewed
      <4> QED BY <1>1, <1>7, <3>2, <4>1, OpenedFresh
    <3>4. /\ n \in 1 .. MaxFd /\ n \in Int /\ fdt' \in Table /\ fdt'[n].kind = k /\ t[n].kind = "closed"
          /\ \A m \in 1 .. MaxFd : m # n => fdt'[m] = t[m]
      BY <3>2 DEF Opened
    <3>5. /\ \A m \in 1 .. MaxFd : fdt'[m].kind = k => m = n
          /\ \A m \in 1 .. MaxFd : fdt'[m].kind \in {k, "closed"} \/ fdt'[m] = fdt[m]
          /\ \A m \in 1 .. MaxFd : fdt[m].kind \notin {k, "closed"} => fdt'[m] = fdt[m]
      BY <1>7, <3>4
    <3>6. objects' \in Nat /\ objects' = objects + 1 /\ running' = running
      BY <1>1, <2>2
    <3> QED BY <3>1, <3>3, <3>4, <3>5, <3>6
  <2> QED BY <1>3, <2>1, <2>2
<1>11. /\ fd' \in [Lazy -> Int] /\ \A j \in Lazy : fd'[j] = IF j = k THEN n ELSE fd[j]
       /\ backend_fd' = IF k = "backend" THEN n ELSE backend_fd
       /\ k = "backend" \/ k \in Lazy
  <2>1. fd \in [Lazy -> Int] /\ "backend" \notin Lazy
    BY DEF LifeTypes, Lazy
  <2> QED BY <1>10, <2>1
<1>12. \A m, kinds : k \notin kinds /\ "closed" \notin kinds /\ Open(m, kinds) =>
         Open(m, kinds)' /\ fdt'[m] = fdt[m]
  BY <1>10 DEF Open
<1>13. \A m, kinds : k \notin kinds /\ "closed" \notin kinds /\ Open(m, kinds) /\ Fresh(m) => Fresh(m)'
  BY <1>1, <1>12 DEF Open, Fresh
<1>14. \A j \in {"pipe_w"} \cup Lazy : j # k => (j \in running' <=> j \in running)
  BY <1>10
<1>15. LifeTypes'
  <2>1. renewals' \subseteq {"backend"} \cup (Lazy \cap running')
    BY <1>1, <1>9, <1>10
  <2>2. backend_fd' \in Int
    BY <1>11 DEF LifeTypes
  <2> QED BY <1>1, <1>10, <1>11, <2>1, <2>2 DEF LifeTypes, Table
<1>16. OwnKnown'
  <2> SUFFICES ASSUME NEW m \in 1 .. MaxFd
      PROVE /\ fdt'[m].kind \in Own => exists'
            /\ fdt'[m].kind = "backend" => m = backend_fd'
            /\ \A j \in Lazy : fdt'[m].kind = j => m = fd'[j]
            /\ fdt'[m].kind = "pipe_r" =>
                 \/ m = evpipe'[1] /\ ("pipe_w" \in running' \/ func' = "close")
                 \/ m = fds'[1] /\ func' = "dup"
            /\ fdt'[m].kind \in WriteEnds =>
                 m = evpipe'[2] \/ (m = fds'[2] /\ func' \in {"dup", "close"})
    BY DEF OwnKnown
  <2>1. CASE fdt'[m].kind = k
    BY <1>1, <1>2, <1>8, <1>10, <1>11, <2>1
  <2>2. CASE fdt'[m].kind = "closed"
    BY <2>2, KindsAre DEF WriteEnds, Lazy
  <2>3. CASE fdt'[m] = fdt[m] /\ fdt[m].kind # k
    BY <1>1, <1>2, <1>8, <1>11, <1>14, <2>3 DEF OwnKnown
  <2> QED BY <1>10, <2>1, <2>2, <2>3
<1>17. FdsOpen'
  <2>1. Open(backend_fd, {"backend"})'
    BY <1>2, <1>10, <1>11, <1>12 DEF FdsOpen, Open
  <2>2. ASSUME NEW j \in Lazy PROVE fd'[j] \in {-1, -2} \/ (Open(fd[j], {j})' /\ j \in running')
    <3>1. CASE j = k
      BY <1>9, <1>10, <1>11, <3>1 DEF Open, Lazy
    <3>2. CASE j # k
      <4>1. fd[j] \in {-1, -2} \/ (fdt[fd[j]].kind = j /\ fd[j] \in 1 .. MaxFd /\ j \in running)
        BY <1>2 DEF FdsOpen, Open
      <4>2. j # "closed"
        BY DEF Lazy
      <4> QED BY <1>10, <1>11, <1>14, <3>2, <4>1, <4>2 DEF Open
    <3> QED BY <3>1, <3>2
  <2> QED BY <2>1, <2>2 DEF FdsOpen
<1>18. PipeOpen'
  BY <1>1, <1>2, <1>8, <1>12, <1>14 DEF PipeOpen, WriteEnds, Open
<1>19. Renewed'
  <2>1. Fresh(evpipe[1]) => Fresh(evpipe[1])'
    <3>1. evpipe[1] = -1 \/ (evpipe[1] \in 1 .. MaxFd /\ fdt[evpipe[1]].kind = "pipe_r")
      BY <1>1, <1>2 DEF PipeOpen, Open
    <3> QED BY <1>1, <1>8, <1>10, <3>1, LifeAssumption DEF Fresh
  <2>2. Fresh(evpipe[2]) => Fresh(evpipe[2])'
    <3>1. evpipe[2] = -1 \/ (evpipe[2] \in 1 .. MaxFd /\ fdt[evpipe[2]].kind \in WriteEnds)
      BY <1>1, <1>2 DEF PipeOpen, Open
    <3> QED BY <1>1, <1>8, <1>10, <3>1, LifeAssumption DEF Fresh, WriteEnds
  <2>3. IF k = "backend" THEN Fresh(backend_fd)' ELSE Fresh(backend_fd) => Fresh(backend_fd)'
    BY <1>1, <1>2, <1>10, <1>11 DEF FdsOpen, Fresh, Open
  <2>4. ASSUME NEW j \in Lazy PROVE IF j = k THEN Fresh(fd[j])' ELSE Fresh(fd[j]) => Fresh(fd[j])'
    <3>1. CASE j = k
      BY <1>1, <1>10, <1>11, <3>1, LifeAssumption DEF Fresh
    <3>2. CASE j # k
      <4>1. fd[j] \in {-1, -2} \/ (fdt[fd[j]].kind = j /\ fd[j] \in 1 .. MaxFd)
        BY <1>2 DEF FdsOpen, Open
      <4>2. j # "closed"
        BY DEF Lazy
      <4> QED BY <1>1, <1>10, <1>11, <3>2, <4>1, <4>2, LifeAssumption DEF Fresh
    <3> QED BY <3>1, <3>2
  <2>5. AllFresh => AllFresh'
    BY <2>3, <2>4 DEF AllFresh, Lazy
  <2>6. /\ "backend" \in renewals' \/ Fresh(backend_fd)'
        /\ \A j \in {"timerfd", "fs_fd"} : j \in renewals' \/ Fresh(fd[j])'
    BY <1>1, <1>2, <2>3, <2>4 DEF Renewed, Lazy
  <2> QED BY <1>1, <1>2, <1>10, <2>1, <2>2, <2>5, <2>6 DEF Renewed
<1> QED BY <1>6, <1>15, <1>16, <1>17, <1>18, <1>19

LEMMA RenewPipeKeeps ==
  ASSUME LifeInv, RenewPipe
  PROVE  LifeInv'
<1> USE DEF LifeInv
<1> DEFINE old == IF evpipe[1] >= 0 THEN {evpipe[1]} ELSE {}
<1>1. /\ func = "fork" /\ renewals = {} /\ fdt \in Table /\ objects \in Nat
      /\ UNCHANGED <<objects, exists, backend_fd, evpipe, fds, fd, pipe_w_fd, shared>>
  BY DEF RenewPipe, LifeTypes, Table
<1>2. exists
  BY <1>1 DEF LifeTypes
\* what is left to see to is the pipe
<1>3. AllFresh
  <2>1. Fresh(backend_fd) /\ \A k \in {"timerfd", "fs_fd"} : Fresh(fd[k])
    BY <1>1, <1>2 DEF Renewed
  <2> QED BY <2>1 DEF AllFresh
<1>4. CASE /\ RenewsAll /\ "pipe_w" \in running
           /\ fdt' = ClosedFds(fdt, old) /\ strayed' = (strayed \/ Stray(old))
           /\ running' = running \ {"pipe_w"}
           /\ func' = "create" /\ renewals' = {"pipe"} /\ UNCHANGED postfork
  <2>1. /\ evpipe[2] # -1 /\ Open(evpipe[2], WriteEnds)
        /\ evpipe[1] = -1 \/ Open(evpipe[1], {"pipe_r"})
    BY <1>1, <1>2, <1>4 DEF PipeOpen
  <2>2. Shut(fdt, fdt', old) /\ ~strayed'
    <3>1. ~Stray(old)
      BY <2>1 DEF Stray, Open, Own
    <3> QED BY <1>1, <1>4, <3>1, ShutIs
  <2>3. \A m \in 1 .. MaxFd : m \in old => fdt[m].kind = "pipe_r" /\ m = evpipe[1]
    BY <2>1, LifeAssumption DEF Open
  <2>4. /\ \A m \in 1 .. MaxFd : fdt'[m].kind = "closed" \/ (fdt'[m] = fdt[m] /\ m \notin old)
        /\ \A m \in 1 .. MaxFd : fdt[m].kind # "pipe_r" => fdt'[m] = fdt[m]
    BY <2>2, <2>3 DEF Shut
  <2>5. \A m, kinds : "pipe_r" \notin kinds /\ Open(m, kinds) => Open(m, kinds)'
    BY <2>4 DEF Open
  <2>6. LifeTypes'
    <3>1. fdt' \in Table
      BY <2>2 DEF Shut
    <3>2. postfork' \in {1, 3}
      BY <1>1, <1>4 DEF LifeTypes, RenewsAll
    <3> QED BY <1>1, <1>2, <1>4, <3>1, <3>2 DEF LifeTypes, Table
  <2>7. OwnKnown'
    <3>1. \A m \in 1 .. MaxFd : fdt'[m].kind # "pipe_r"
      <4>1. \A m \in 1 .. MaxFd : fdt[m].kind = "pipe_r" => m = evpipe[1]
        BY <1>1 DEF OwnKnown
      <4>2. \A m \in 1 .. MaxFd : m = evpipe[1] => m \in old
        BY LifeAssumption
      <4> QED BY <2>4, <4>1, <4>2
    <3> SUFFICES ASSUME NEW m \in 1 .. MaxFd
        PROVE /\ fdt'[m].kind \in Own => exists'
              /\ fdt'[m].kind = "backend" => m = backend_fd'
              /\ \A k \in Lazy : fdt'[m].kind = k => m = fd'[k]
              /\ fdt'[m].kind = "pipe_r" =>
                   \/ m = evpipe'[1] /\ ("pipe_w" \in running' \/ func' = "close")
                   \/ m = fds'[1] /\ func' = "dup"
              /\ fdt'[m].kind \in WriteEnds =>
                   m = evpipe'[2] \/ (m = fds'[2] /\ func' \in {"dup", "close"})
      BY DEF OwnKnown
    <3>2. CASE fdt'[m].kind = "closed"
      BY <3>2, KindsAre DEF WriteEnds, Lazy
    <3>3. CASE fdt'[m] = fdt[m]
      <4>1. fdt[m].kind \in WriteEnds => m = evpipe[2]
        BY <1>1 DEF OwnKnown
      <4>2. fdt[m].kind = "backend" => m = backend_fd
        BY DEF OwnKnown
      <4>3. \A k \in Lazy : fdt[m].kind = k => m = fd[k]
        BY DEF OwnKnown
      <4> QED BY <1>1, <1>2, <3>1, <3>3, <4>1, <4>2, <4>3
    <3> QED BY <2>4, <3>2, <3>3
  <2>8. FdsOpen'
    BY <1>1, <1>2, <1>4, <2>5, KindsAre DEF FdsOpen, Lazy, Open
  <2>9. PipeOpen'
    <3>1. Open(evpipe[2], WriteEnds)'
      BY <1>1, <2>1, <2>4 DEF Open, WriteEnds
    <3> QED BY <1>1, <1>4, <2>1, <3>1 DEF PipeOpen
  <2>10. Renewed'
    <3>1. \A m \in 1 .. MaxFd : fdt'[m].id <= objects'
      <4>1. \A m \in 1 .. MaxFd : fdt[m].id <= objects
        BY DEF Renewed
      <4> HIDE DEF old
      <4>2. \A m \in 1 .. MaxFd : fdt'[m].id <= objects
        BY <1>1, <2>2, <4>1, ShutOld
      <4> QED BY <1>1, <4>2
    <3>2. /\ backend_fd \in 1 .. MaxFd /\ fdt'[backend_fd] = fdt[backend_fd]
          /\ \A k \in Lazy : fd[k] \in 1 .. MaxFd => fdt'[fd[k]] = fdt[fd[k]]
      BY <1>2, <2>4, LifeAssumption DEF FdsOpen, Open, Lazy
    <3>3. AllFresh'
      BY <1>1, <1>3, <3>2 DEF AllFresh, Fresh, Lazy
    <3>4. postfork' \in {1, 3}
      BY <1>1, <1>4 DEF LifeTypes, RenewsAll
    <3> QED BY <1>1, <1>4, <3>1, <3>3, <3>4 DEF Renewed
  <2> QED BY <2>2, <2>6, <2>7, <2>8, <2>9, <2>10
<1>5. CASE /\ ~(RenewsAll /\ "pipe_w" \in running)
           /\ func' = "idle" /\ postfork' = 0 /\ UNCHANGED <<fdt, strayed, running, renewals>>
  <2>1. LifeTypes' /\ OwnKnown' /\ FdsOpen' /\ PipeOpen'
    BY <1>1, <1>2, <1>5 DEF LifeTypes, OwnKnown, FdsOpen, PipeOpen, Open
  <2>2. Fresh(evpipe[1]) /\ Fresh(evpipe[2])
    <3>1. CASE postfork = 2
      BY <1>1, <1>2, <3>1 DEF Renewed
    <3>2. CASE postfork # 2
      BY <1>1, <1>2, <1>5, <3>2, LifeAssumption DEF RenewsAll, PipeOpen, Fresh
    <3> QED BY <3>1, <3>2
  <2>3. Renewed'
    BY <1>1, <1>3, <1>5, <2>2 DEF Renewed, Fresh, AllFresh
  <2> QED BY <1>5, <2>1, <2>3
<1> QED BY <1>4, <1>5 DEF RenewPipe

-----------------------------------------------------------------------------
\* The theorems

LEMMA LifeInvInit ==
  ASSUME LifeInit
  PROVE  LifeInv
<1>1. /\ fdt \in Table /\ \A n \in 1 .. MaxFd : fdt[n].kind = "closed" /\ fdt[n].id = 0
  BY KindsAre DEF LifeInit, Table, Closed, Kinds
<1>2. LifeTypes
  <2>1. /\ evpipe[1] = -1 /\ evpipe[2] = -1 /\ fds[1] = -1 /\ fds[2] = -1
        /\ fd = [k \in Lazy |-> -2] /\ backend_fd = -1 /\ objects = 0 /\ postfork = 0
        /\ exists = FALSE /\ func = "idle" /\ renewals = {}
    BY DEF LifeInit
  <2>2. fd \in [Lazy -> Int] /\ -1 \in Int
    BY <2>1
  <2>3. {evpipe[1], evpipe[2], fds[1], fds[2]} \subseteq Int
    BY <2>1
  <2>4. fdt \in [1 .. MaxFd -> [kind : Kinds, id : Nat]]
    BY <1>1 DEF Table
  <2>5. /\ ~exists => func = "idle"
        /\ func = "idle" => renewals = {}
        /\ func # "fork" /\ func \notin {"create", "dup", "close"}
    BY <2>1
  <2>6. objects \in Nat /\ backend_fd \in Int /\ postfork \in 0 .. 3
    BY <2>1
  <2>7. exists \in BOOLEAN
    BY DEF LifeInit
  <2>8. func \in {"idle", "fork", "create", "dup", "close"}
    BY <2>1
  <2> QED BY <2>2, <2>3, <2>4, <2>5, <2>6, <2>7, <2>8 DEF LifeTypes
<1>3. OwnKnown
  BY <1>1, KindsAre DEF OwnKnown, WriteEnds
<1> QED BY <1>1, <1>2, <1>3 DEF LifeInit, LifeInv, FdsOpen, PipeOpen, Renewed

LEMMA LifeInvStep ==
  ASSUME LifeInv, [LifeNext]_life_vars
  PROVE  LifeInv'
<1>1. CASE LifeNext
  <2>1. ASSUME NEW k \in Lazy, StartLazy(k) \/ Renew(k) PROVE LifeInv'
    BY <2>1, StartLazyKeeps, RenewKeeps
  <2>2. ASSUME Renew("backend") PROVE LifeInv'
    BY <2>2, RenewKeeps
  <2> QED BY <1>1, <2>1, <2>2, EvDefaultLoopKeeps, EvLoopDestroyKeeps, StartAsyncKeeps,
             StopWatcherKeeps, CreatePipeKeeps, DupPipeKeeps, ClosePipeKeeps, ForkKeeps,
             BackendAsksKeeps, LoopForkKeeps, RenewPipeKeeps, OpenOtherKeeps DEF LifeNext
<1>2. CASE UNCHANGED life_vars
  <2>1. UNCHANGED <<fdt, objects, exists, backend_fd, evpipe, fds, fd, running, pipe_w_fd, postfork,
                    func, renewals, shared, strayed>>
    BY <1>2 DEF life_vars
  <2>2. LifeTypes' /\ OwnKnown' /\ FdsOpen' /\ PipeOpen'
    BY <2>1 DEF LifeInv, LifeTypes, OwnKnown, FdsOpen, PipeOpen, Open
  <2>3. Renewed'
    BY <2>1 DEF LifeInv, Renewed, Fresh, AllFresh
  <2> QED BY <2>1, <2>2, <2>3 DEF LifeInv
<1> QED BY <1>1, <1>2

(***************************************************************************)
(* LifeInv is an invariant of a loop's life: each of its files is where    *)
(* loop_fork, evpipe_init and ev_loop_destroy look for it.                 *)
(***************************************************************************)
THEOREM SpecLifeInv == LifeSpec => []LifeInv
<1> QED BY LifeInvInit, LifeInvStep, PTL DEF LifeSpec

LEMMA LifeInvOwned ==
  ASSUME LifeInv
  PROVE  DescriptorsOwned
<1> USE DEF LifeInv
<1>1. NothingLeaked
  <2> SUFFICES ASSUME func = "idle", NEW n \in DOMAIN fdt, fdt[n].kind \in Own
               PROVE  exists /\ n \in Known
    BY DEF NothingLeaked
  <2>1. n \in 1 .. MaxFd
    BY DEF LifeTypes
  <2> QED BY <2>1, KindsAre DEF OwnKnown, Known, Own, WriteEnds
<1>2. OwnAfterFork
  <2> SUFFICES ASSUME exists, func = "idle", postfork % 2 = 0 PROVE
        /\ \A n \in {backend_fd, evpipe[1], evpipe[2], fd["timerfd"], fd["fs_fd"]} :
             n > 0 => fdt[n] \notin shared
        /\ evpipe[2] > 0 => fdt[evpipe[2]].id = fdt[pipe_w_fd].id
    BY DEF OwnAfterFork, Idle
  <2>1. postfork \in {0, 2}
    BY DEF LifeTypes
  <2>2. \A n \in {backend_fd, evpipe[1], evpipe[2], fd["timerfd"], fd["fs_fd"]} :
          Fresh(n) /\ (n > 0 => n \in 1 .. MaxFd)
    BY <2>1, LifeAssumption DEF Renewed, AllFresh, FdsOpen, PipeOpen, Open, Lazy
  <2>3. evpipe[2] > 0 => fdt[evpipe[2]].id = fdt[pipe_w_fd].id
    BY LifeAssumption DEF PipeOpen, Open
  <2> QED BY <2>2, <2>3 DEF Fresh
<1> QED BY <1>1, <1>2 DEF DescriptorsOwned, ClosesOnlyOwn

(***************************************************************************)
(* However a loop is created, forked and destroyed, whichever system calls *)
(* fail and whatever other threads open in between, no descriptor is       *)
(* leaked, none closed that is another's, none shared after a fork.        *)
(***************************************************************************)
THEOREM DescriptorsAreOwned == LifeSpec => []DescriptorsOwned
<1> QED BY SpecLifeInv, LifeInvOwned, PTL

LEMMA WriteEndStep ==
  ASSUME LifeInv, LifeInv', [LifeNext]_life_vars, exists, exists', evpipe[2] > 0
  PROVE  evpipe'[2] = evpipe[2] /\ fdt'[evpipe[2]].kind \in {"pipe_w", "eventfd"}
<1>1. evpipe'[2] = evpipe[2]
  <2>1. CASE UNCHANGED evpipe
    BY <2>1
  <2>2. CASE DupPipe
    BY <2>2 DEF DupPipe, WriteEnd, LifeInv, LifeTypes
  <2>3. CASE EvDefaultLoop
    BY <2>3 DEF EvDefaultLoop
  <2>4. LifeNext => UNCHANGED evpipe \/ DupPipe \/ EvDefaultLoop
    BY DEF LifeNext, EvLoopDestroy, StartAsync, StopWatcher, StartLazy, Renew, CreatePipe, ClosePipe,
           Fork, BackendAsks, LoopFork, RenewPipe, OpenOther
  <2> QED BY <2>1, <2>2, <2>3, <2>4 DEF life_vars
<1> QED BY <1>1 DEF LifeInv, PipeOpen, Open, WriteEnds

(***************************************************************************)
(* What evpipe_write relies on at any moment of any life of a loop: the    *)
(* evpipe [1] it read stays, and is a write end.                           *)
(***************************************************************************)
THEOREM WriteEndIsStable == LifeSpec => WriteEndStable
<1>1. ASSUME LifeInv, LifeInv', [LifeNext]_life_vars
      PROVE  [exists /\ exists' /\ evpipe[2] > 0 =>
                /\ evpipe'[2] = evpipe[2]
                /\ fdt'[evpipe[2]].kind \in {"pipe_w", "eventfd"}]_life_vars
  BY <1>1, WriteEndStep
<1> QED BY <1>1, SpecLifeInv, PTL DEF LifeSpec, WriteEndStable
=============================================================================
