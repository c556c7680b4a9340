---------------------------- MODULE MCEvPending -----------------------------
(* Two watchers, two priorities, two event bits and two nested activations. *)
EXTENDS EvPending

CONSTANTS w1, w2, read, timer

MCWatchers == {w1, w2}
MCFlags == {read, timer}

=============================================================================
