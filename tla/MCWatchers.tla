----------------------------- MODULE MCWatchers -----------------------------
(***************************************************************************)
(* The watcher types, the life of a loop, the libevent emulation and the   *)
(* connections of hsm-echo share no state with one another.  One run looks *)
(* at them one at a time: part says which instance takes steps, the        *)
(* variables of the others stay as they are initially.                     *)
(***************************************************************************)
EXTENDS EvEvent, EvLifecycle, EvPeriodic, EvSignal, EchoServer, TLC

CONSTANTS w1, w2, w3, p1, DIR, l1, l2, child0, child2, USR, CHLD

VARIABLES
  part,
  file, watches, kq, fs_fd, fs_hash, wd, attr, prev, stat_active, tactive, repeat, stat_activecnt,
  spending, todo, blind, changes, calls

-----------------------------------------------------------------------------
\* periodic_recalc as it is written, with a loop
RecalcLoop(offset, interval, rt) ==
  LET grid == IF interval > MIN_INTERVAL THEN interval ELSE MIN_INTERVAL
      later[at \in Int] ==
        IF at > rt THEN at
        ELSE IF Round(at + interval) = at THEN rt
        ELSE later[Round(at + interval)]
  IN  later[Round(offset + grid * ((rt - offset) \div grid))]

ASSUME RecalcIsTheLoop ==
  \A offset \in -3 .. 5, interval \in 1 .. 12, rt \in {RESOLUTION * t : t \in 0 .. 15} :
    Recalc(offset, interval, rt) = RecalcLoop(offset, interval, rt)

\* Two watchers of one path, on a local file system or another one
Local == INSTANCE EvStat WITH
  StatWatchers <- {w1, w2}, path <- [w \in {w1, w2} |-> p1], Polled <- {}, INOTIFY <- TRUE,
  EV_INOTIFY_HASHSIZE <- 2, KERNEL_QUEUE <- 3, MAX_WD <- 8, MaxChanges <- 2, MaxCalls <- 2,
  active <- stat_active, activecnt <- stat_activecnt

Remote == INSTANCE EvStat WITH
  StatWatchers <- {w1, w2}, path <- [w \in {w1, w2} |-> p1], Polled <- {p1}, INOTIFY <- TRUE,
  EV_INOTIFY_HASHSIZE <- 2, KERNEL_QUEUE <- 3, MAX_WD <- 8, MaxChanges <- 2, MaxCalls <- 2,
  active <- stat_active, activecnt <- stat_activecnt

\* The default loop of the constants is forked, this one also destroyed and made again
Restarted == INSTANCE EvLifecycle WITH
  EVENTFDS <- {FALSE}, FEATURES <- {"sigfd"}, RESTARTS <- 1, MaxObjects <- 7

\* The two loops of the constants use signal handlers; of these the default loop
\* has a signalfd.
SignalOf == w1 :> USR @@ w2 :> USR @@ childev :> CHLD
PidOf == child0 :> 0 @@ child2 :> 2

Signalfd == INSTANCE EvSignal WITH SIGNALFD <- {l1}

-----------------------------------------------------------------------------
Parts == {"periodic", "local", "remote", "forked", "restarted", "event",
          "handler", "signalfd", "echo"}

\* Bound: the second periodic is used on a system with a monotonic clock and
\* without a timerfd, and there has the longer interval.
Plain == have_monotonic /\ ~timerfd
Kinded == IF Plain THEN kind[w1].interval < kind[w2].interval ELSE kind[w2].cb

Init ==
  /\ part \in Parts
  /\ PeriodicInit
  /\ IF part = "periodic" THEN Kinded
     ELSE Plain /\ real = 0 /\ \A w \in Periodics : kind[w].cb
  /\ Local!StatInit
  /\ LifeInit
  /\ EventInit
  /\ IF part = "signalfd" THEN Signalfd!SignalInit ELSE SignalInit
  /\ EchoInit

stat_vars ==
  <<file, watches, kq, fs_fd, fs_hash, wd, attr, prev, stat_active, tactive, repeat, stat_activecnt,
    spending, todo, blind, changes, calls>>

Periodic ==
  /\ part = "periodic" /\ PeriodicNext /\ (Plain \/ periodics'.active[w2] = 0)
  /\ UNCHANGED <<stat_vars, life_vars, event_vars, signal_vars, echo_vars>>

Stat ==
  /\ \/ part = "local" /\ Local!StatNext
     \/ part = "remote" /\ Remote!StatNext
  /\ UNCHANGED <<periodic_vars, life_vars, event_vars, signal_vars, echo_vars>>

Life ==
  /\ \/ part = "forked" /\ LifeNext
     \/ part = "restarted" /\ Restarted!LifeNext
  /\ UNCHANGED <<periodic_vars, stat_vars, event_vars, signal_vars, echo_vars>>

\* Bound: an ev_once is called before or after the events are in use, with which
\* it has nothing in common.
Libevent ==
  /\ part = "event" /\ EventNext
  /\ alive' = {} \/ \A e \in Events : expects'[e] = {}
  /\ UNCHANGED <<periodic_vars, stat_vars, life_vars, signal_vars, echo_vars>>

Signal ==
  /\ \/ part = "handler" /\ SignalNext
     \/ part = "signalfd" /\ Signalfd!SignalNext
  /\ UNCHANGED <<periodic_vars, stat_vars, life_vars, event_vars, echo_vars>>

Connections ==
  /\ part = "echo" /\ EchoNext
  /\ UNCHANGED <<periodic_vars, stat_vars, life_vars, event_vars, signal_vars>>

Next ==
  /\ Periodic \/ Stat \/ Life \/ Libevent \/ Signal \/ Connections
  /\ UNCHANGED part

vars ==
  <<part, periodic_vars, stat_vars, life_vars, event_vars, signal_vars, echo_vars>>

Spec == Init /\ [][Next]_vars

-----------------------------------------------------------------------------
(***************************************************************************)
(* Stat watchers, between two calls: the chains of fs_hash hold exactly    *)
(* the watchers with a watch descriptor, and the internal timers balance   *)
(* their references (ChainsMatch and OnlyUsersCount of EvStat).            *)
(***************************************************************************)
StatsConsistent ==
  part \in {"local", "remote"} => Local!ChainsMatch /\ Local!OnlyUsersCount

(***************************************************************************)
(* No change of a file is missed outside the known windows, and watchers   *)
(* of one path do not go on making new watches for each other; nor is a    *)
(* change of the clock: after a jump no periodic waits for its old time    *)
(* (ChangeNoticed and NoChase of EvStat, InTune of EvPeriodic).            *)
(***************************************************************************)
ChangesNoticed ==
  /\ part \in {"local", "remote"} => Local!ChangeNoticed /\ Local!NoChase
  /\ InTune

=============================================================================
