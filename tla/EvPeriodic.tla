----------------------------- MODULE EvPeriodic -----------------------------
(***************************************************************************)
(* The clocks of src/ev.c and what depends on the wall clock: time_update  *)
(* with and without a monotonic clock, the detection of time jumps, the    *)
(* periodic watchers with their heap, ev_suspend and ev_resume, the time   *)
(* the loop blocks for, and the timerfd that reports a clock that was set. *)
(* One relative timer stands for those that timers_reschedule shifts.      *)
(*                                                                         *)
(* Times are multiples of RESOLUTION, as floating point numbers are: a     *)
(* smaller interval is lost when it is added to a time.                    *)
(***************************************************************************)
EXTENDS Heap, Integers

CONSTANTS
  Periodics,        \* the ev_periodics
  Offsets, Intervals,
  CB_STEP,         \* the reschedule callbacks give the next multiple of this
  RESOLUTION, MIN_INTERVAL, MIN_TIMEJUMP, MAX_BLOCKTIME,
  MaxTime,         \* bound: the last time of both clocks
  MaxSets          \* bound: how often the clock is set

HUGE == 1000000   \* EV_TSTAMP_HUGE, later than any time

\* The smallest interval that counts is one that a time can advance by.
ASSUME PeriodicAssumption ==
  /\ Offsets \subseteq Int /\ Intervals \subseteq Nat
  /\ CB_STEP \in Nat \ {0} /\ RESOLUTION \in Nat \ {0} /\ MIN_INTERVAL \in Nat \ {0}
  /\ MIN_TIMEJUMP \in Nat /\ MAX_BLOCKTIME \in Nat
  /\ MaxTime \in Nat /\ MaxTime < HUGE

VARIABLES
  have_monotonic, timerfd,  \* what the system has: the clock, and a timerfd
  mono, real,      \* get_clock() and ev_time()
  sets,            \* how often the clock has been set
  canceled,        \* timerfd (TFD_TIMER_CANCEL_ON_SET): "no", "set" once the clock
                   \* was set, "ready" once the loop has polled since
  now,             \* mn_now, ev_rt_now, now_floor, rtmn_diff
  periodics,       \* the heap, see Heap
  kind,            \* offset, interval (0: not repeating), reschedule_cb
  pending,         \* periodics fed and not yet called
  timer,           \* w->at of a relative timer
  suspended,       \* between ev_suspend and ev_resume
  phase            \* "user", "poll", "polled" or "reify"

periodic_vars ==
  <<have_monotonic, timerfd, mono, real, sets, canceled, now, periodics, kind, pending, timer,
    suspended, phase>>
given == <<have_monotonic, timerfd, kind>>
clocks == <<mono, real, sets, canceled>>

ClockTimes == {t \in 0 .. MaxTime : t % RESOLUTION = 0}
Round(t) == RESOLUTION * (t \div RESOLUTION)

PeriodicActive(w) == periodics.active[w] # 0
Kinds ==
  [offset : Offsets, interval : Intervals, cb : {FALSE}]
    \cup [offset : {0}, interval : {0}, cb : {TRUE}]

PeriodicInit ==
  /\ have_monotonic \in BOOLEAN /\ timerfd \in BOOLEAN
  /\ mono = 0 /\ real \in ClockTimes /\ sets = 0 /\ canceled = "no"
  /\ now = [mn_now |-> IF have_monotonic THEN 0 ELSE real, ev_rt_now |-> real, now_floor |-> 0,
            rtmn_diff |-> real]
  /\ periodics = [heap |-> <<>>, active |-> [w \in Periodics |-> 0]]
  /\ kind \in [Periodics -> Kinds]
  /\ pending = {}
  /\ timer = now.mn_now + MAX_BLOCKTIME
  /\ suspended = FALSE
  /\ phase = "user"

-----------------------------------------------------------------------------
\* periodic_recalc: from the last time of the grid that is not after rt on,
\* until the time is after rt or stands still.  Each turn of its loop adds the
\* interval to a time, so advances it by a multiple of RESOLUTION.
Recalc(offset, interval, rt) ==
  LET grid == IF interval > MIN_INTERVAL THEN interval ELSE MIN_INTERVAL
      first == Round(offset + grid * ((rt - offset) \div grid))
      step == Round(interval)
  IN  CASE first > rt              -> first
        [] first <= rt /\ step = 0 -> rt
        [] OTHER                   -> first + step * ((rt - first) \div step + 1)

\* What a reschedule callback returns: never a time that has passed
RescheduleCb(rt) == (rt \div CB_STEP + 1) * CB_STEP

\* The next time of a watcher that repeats; one that does not keeps its own.
NextAt(w, at, rt) ==
  IF kind[w].cb THEN RescheduleCb(rt)
  ELSE IF kind[w].interval # 0 THEN Recalc(kind[w].offset, kind[w].interval, rt) ELSE at

\* Bug: the heap is not put in order again.
RescheduledUnsorted(rt) ==
  [periodics EXCEPT !.heap =
     [i \in DOMAIN @ |-> [w |-> @[i].w, at |-> NextAt(@[i].w, @[i].at, rt)]]]

\* periodics_reschedule
Rescheduled(rt) ==
  ReHeap([periodics EXCEPT !.heap =
            [i \in DOMAIN @ |-> [w |-> @[i].w, at |-> NextAt(@[i].w, @[i].at, rt)]]])

\* The clocks moved against each other by MIN_TIMEJUMP or more.
Jumped(diff) ==
  now.rtmn_diff - diff >= MIN_TIMEJUMP \/ diff - now.rtmn_diff >= MIN_TIMEJUMP

\* Without a monotonic clock: time went back, or on by more than it could
ImpossibleTime(max_block) ==
  now.mn_now > real \/ real > now.mn_now + max_block + MIN_TIMEJUMP

\* time_update: what becomes of the loop's times, whether there was a jump,
\* and what is added to the relative timers.  (The clocks are read at one
\* instant: what the loop in time_update repeats its reads for cannot happen.)
Update(max_block) ==
  IF have_monotonic
    THEN IF 2 * (mono - now.now_floor) < MIN_TIMEJUMP
           THEN [now |-> [now EXCEPT !.mn_now = mono,
                                     !.ev_rt_now = now.rtmn_diff + mono],
                 jump |-> FALSE, shift |-> 0]
           ELSE [now |-> [mn_now |-> mono, ev_rt_now |-> real, now_floor |-> mono,
                          rtmn_diff |-> real - mono],
                 jump |-> Jumped(real - mono), shift |-> 0]
    ELSE [now |-> [now EXCEPT !.mn_now = real, !.ev_rt_now = real],
          jump |-> ImpossibleTime(max_block),
          shift |-> IF ImpossibleTime(max_block) THEN real - now.mn_now ELSE 0]

TimeUpdate(max_block) ==
  /\ now' = Update(max_block).now
  /\ timer' = timer + Update(max_block).shift
  /\ periodics' = IF Update(max_block).jump
                    THEN Rescheduled(Update(max_block).now.ev_rt_now) ELSE periodics

-----------------------------------------------------------------------------
\* The system: time passes while callbacks run, and somebody sets the clock.
Tick ==
  /\ phase = "user" /\ mono + RESOLUTION <= MaxTime /\ real + RESOLUTION <= MaxTime
  /\ mono' = mono + RESOLUTION /\ real' = real + RESOLUTION
  /\ UNCHANGED <<sets, canceled, now, periodics, given, pending, timer, suspended, phase>>

SetClock ==
  /\ sets < MaxSets
  /\ \E t \in ClockTimes \ {real} : real' = t
  /\ sets' = sets + 1
  /\ canceled' = IF timerfd /\ canceled = "no" THEN "set" ELSE canceled
  /\ UNCHANGED <<mono, now, periodics, given, pending, timer, suspended, phase>>

-----------------------------------------------------------------------------
\* User code
EvPeriodicStart(w) ==
  /\ phase = "user" /\ ~suspended /\ ~PeriodicActive(w)
  /\ periodics' = Insert(periodics, w, NextAt(w, kind[w].offset, now.ev_rt_now))
  /\ UNCHANGED <<clocks, now, given, pending, timer, suspended, phase>>

Stopped(w) == IF PeriodicActive(w) THEN Delete(periodics, w) ELSE periodics

EvPeriodicStop(w) ==
  /\ phase = "user" /\ ~suspended
  /\ pending' = pending \ {w}
  /\ periodics' = Stopped(w)
  /\ UNCHANGED <<clocks, now, given, timer, suspended, phase>>

EvPeriodicAgain(w) ==
  /\ phase = "user" /\ ~suspended
  /\ pending' = pending \ {w}
  /\ periodics' = Insert(Stopped(w), w, NextAt(w, kind[w].offset, now.ev_rt_now))
  /\ UNCHANGED <<clocks, now, given, timer, suspended, phase>>

EvSuspend ==
  /\ phase = "user" /\ ~suspended
  /\ TimeUpdate(HUGE)
  /\ suspended' = TRUE
  /\ UNCHANGED <<clocks, given, pending, phase>>

\* Bug: the time the program was suspended counts for the timers.
ResumeWithoutShift ==
  /\ phase = "user" /\ suspended
  /\ now' = Update(HUGE).now
  /\ timer' = timer + Update(HUGE).shift
  /\ periodics' = Rescheduled(now'.ev_rt_now)
  /\ suspended' = FALSE
  /\ UNCHANGED <<clocks, given, pending, phase>>

EvResume ==
  /\ phase = "user" /\ suspended
  /\ now' = Update(HUGE).now
  /\ timer' = timer + Update(HUGE).shift + (now'.mn_now - now.mn_now)
  /\ periodics' = Rescheduled(now'.ev_rt_now)
  /\ suspended' = FALSE
  /\ UNCHANGED <<clocks, given, pending, phase>>

\* timerfdcb, the loop's own watcher: only ev_rt_now is brought up to date.
TimerfdCb ==
  /\ phase = "user" /\ canceled = "ready"
  /\ canceled' = "no"
  /\ now' = [now EXCEPT !.ev_rt_now = real]
  /\ periodics' = Rescheduled(real)
  /\ UNCHANGED <<mono, real, sets, given, pending, timer, suspended, phase>>

\* The user's callback of a periodic is called.
Callback(w) ==
  /\ phase = "user" /\ ~suspended /\ w \in pending
  /\ pending' = pending \ {w}
  /\ UNCHANGED <<clocks, now, periodics, given, timer, suspended, phase>>

-----------------------------------------------------------------------------
\* ev_run: update the time, block, update the time, reify

LoopStarts ==
  /\ phase = "user" /\ ~suspended /\ pending = {} /\ canceled # "ready"
  /\ TimeUpdate(HUGE)
  /\ phase' = "poll"
  /\ UNCHANGED <<clocks, given, pending, suspended>>

Least(a, b) == IF a < b THEN a ELSE b

\* The time to block for: not beyond the first timer or the first periodic
WaitTime ==
  LET longest == IF timerfd THEN HUGE ELSE MAX_BLOCKTIME
      untilTimer == Least(longest, timer - now.mn_now)
      until == IF periodics.heap = <<>> THEN untilTimer
               ELSE Least(untilTimer, periodics.heap[1].at - now.ev_rt_now)
  IN  IF until < 0 THEN 0 ELSE until

LoopPolls ==
  /\ phase = "poll"
  /\ \E d \in ClockTimes : d <= WaitTime /\ mono + d <= MaxTime /\ real + d <= MaxTime
                        /\ mono' = mono + d /\ real' = real + d
  /\ canceled' = IF canceled = "set" THEN "ready" ELSE canceled
  /\ phase' = "polled"
  /\ UNCHANGED <<sets, now, periodics, given, pending, timer, suspended>>

\* max_block is what the loop meant to block for; timers_reify restarts the
\* timer when it has expired.
LoopUpdates ==
  /\ phase = "polled"
  /\ LET u == Update(WaitTime)
         at == timer + u.shift
     IN  /\ now' = u.now
         /\ periodics' = IF u.jump THEN Rescheduled(u.now.ev_rt_now) ELSE periodics
         /\ timer' = IF at < u.now.mn_now THEN u.now.mn_now + MAX_BLOCKTIME ELSE at
  /\ phase' = "reify"
  /\ UNCHANGED <<clocks, given, pending, suspended>>

Overdue == periodics.heap # <<>> /\ periodics.heap[1].at < now.ev_rt_now

\* One turn of the loop of periodics_reify
PeriodicsReify ==
  /\ phase = "reify" /\ Overdue
  /\ LET w == periodics.heap[1].w
         next == NextAt(w, 0, now.ev_rt_now)
     IN  /\ periodics' =
              IF kind[w].cb \/ kind[w].interval # 0
                THEN DownHeap([periodics EXCEPT !.heap[1].at = next], 1)
                ELSE Delete(periodics, w)
         /\ pending' = pending \cup {w}
  /\ UNCHANGED <<clocks, now, given, timer, suspended, phase>>

LoopReified ==
  /\ phase = "reify" /\ ~Overdue
  /\ phase' = "user"
  /\ UNCHANGED <<clocks, now, periodics, given, pending, timer, suspended>>

PeriodicNext ==
  \/ Tick \/ SetClock
  \/ \E w \in Periodics :
       EvPeriodicStart(w) \/ EvPeriodicStop(w) \/ EvPeriodicAgain(w) \/ Callback(w)
  \/ EvSuspend \/ EvResume \/ TimerfdCb
  \/ LoopStarts \/ LoopPolls \/ LoopUpdates \/ PeriodicsReify \/ LoopReified

PeriodicSpec == PeriodicInit /\ [][PeriodicNext]_periodic_vars

-----------------------------------------------------------------------------
(***************************************************************************)
(* The heap stays a heap when all its times change at once                 *)
(* (periodics_reschedule moves them without sifting, then calls reheap).   *)
(***************************************************************************)
PeriodicHeap == HeapOK(periodics)

(***************************************************************************)
(* periodics_reify comes to an end: a periodic it has fed is not overdue   *)
(* again, however far it fell behind and even when its interval is too     *)
(* small to advance its time (the comment "when resolution fails us").     *)
(***************************************************************************)
FedOnce ==
  phase = "reify" => \A i \in DOMAIN periodics.heap :
    periodics.heap[i].w \in pending => periodics.heap[i].at >= now.ev_rt_now

\* Both: what holds of the periodics however often the clock is set
PeriodicsKeepTime == PeriodicHeap /\ FedOnce

(***************************************************************************)
(* When the loop has just read the wall clock, every periodic with an      *)
(* interval is scheduled within one interval of it, give or take the jump  *)
(* that is too small to be detected: after a jump backwards a periodic     *)
(* does not wait for its old time.                                         *)
(***************************************************************************)
InTune ==
  phase = "poll" /\ now.mn_now = (IF have_monotonic THEN mono ELSE real) /\ now.ev_rt_now = real =>
    \A i \in DOMAIN periodics.heap :
      LET w == periodics.heap[i].w
          interval == IF kind[w].cb THEN CB_STEP ELSE kind[w].interval
      IN  interval > 0 =>
            periodics.heap[i].at < real + interval + MIN_INTERVAL + MIN_TIMEJUMP

(***************************************************************************)
(* A change of the wall clock costs a relative timer at most what a jump   *)
(* that is not detected may have: the time left never grows, and shrinks   *)
(* by no more than the loop may have blocked plus MIN_TIMEJUMP.            *)
(***************************************************************************)
TimersDontJump ==
  [][phase = "polled" /\ ~have_monotonic /\ timer' # now'.mn_now + MAX_BLOCKTIME =>
       LET lost == (timer - now.mn_now) - (timer' - now'.mn_now)
       IN  0 <= lost /\ lost <= WaitTime + MIN_TIMEJUMP]_periodic_vars

ResumeKeepsTimeLeft ==
  suspended /\ ~suspended' /\ (have_monotonic \/ now.mn_now <= real)
    => timer' - now'.mn_now = timer - now.mn_now

(***************************************************************************)
(* ev_resume: the time since ev_suspend does not count for the timers.     *)
(* (Without a monotonic clock that holds unless the clock was set back: it *)
(* is then taken off twice, by time_update and by ev_resume.)              *)
(***************************************************************************)
ResumeDelaysTimers == [][ResumeKeepsTimeLeft]_periodic_vars

\* Both: relative timers are not affected by what happens to the clock
TimersUnaffected == TimersDontJump /\ ResumeDelaysTimers

=============================================================================
