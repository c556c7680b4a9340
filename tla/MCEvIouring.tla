---------------------------- MODULE MCEvIouring ----------------------------
(* A reader and a writer of two fds, and the timerfd that wakes the loop    *)
(* up; the kernel makes no ring that is larger than the first one.          *)
EXTENDS EvIouring, TLC

CONSTANTS w1, w2

FdOf == tfd_w :> 0 @@ w1 :> 1 @@ w2 :> 2
EventsOf == tfd_w :> {"EV_READ"} @@ w1 :> {"EV_READ"} @@ w2 :> {"EV_WRITE"}
WithTimerfd == {tfd_w, w1, w2}

FairSpec == UringSpec /\ UringFairness

=============================================================================
