----------------------------- MODULE EventQueue -----------------------------
(***************************************************************************)
(* What the pending queue of a loop promises to its users, without the     *)
(* arrays and indices: a watcher is pending with a set of events or it is  *)
(* not, events fed to it accumulate, a cleared watcher is not called, and  *)
(* the callback that runs next belongs to a watcher of the highest         *)
(* priority and gets everything fed to it since its last call.             *)
(***************************************************************************)
EXTENDS Naturals, Sequences

CONSTANTS Watchers, Flags, NUMPRI

VARIABLES
  prio,    \* the priority of each watcher
  pend,    \* the event sets of the pending watchers, by watcher
  calls    \* the callbacks that are running, each with the events it got

qvars == <<prio, pend, calls>>

Init ==
  /\ prio \in [Watchers -> 0 .. NUMPRI - 1]
  /\ pend = [w \in {} |-> {}]
  /\ calls = <<>>

EventsOf(w) == IF w \in DOMAIN pend THEN pend[w] ELSE {}

Without(w) == [x \in DOMAIN pend \ {w} |-> pend[x]]

Feed(w, revents) ==
  /\ pend' = [x \in DOMAIN pend \cup {w} |->
                IF x = w THEN EventsOf(w) \cup revents ELSE pend[x]]
  /\ UNCHANGED <<prio, calls>>

Clear(w) ==
  /\ pend' = Without(w)
  /\ UNCHANGED <<prio, calls>>

SetPriority(w, p) ==
  /\ w \notin DOMAIN pend
  /\ prio' = [prio EXCEPT ![w] = p]
  /\ UNCHANGED <<pend, calls>>

Deliver(w) ==
  /\ w \in DOMAIN pend
  /\ \A x \in DOMAIN pend : prio[x] <= prio[w]
  /\ calls' = Append(calls, [w |-> w, events |-> pend[w]])
  /\ pend' = Without(w)
  /\ UNCHANGED prio

Return ==
  /\ calls # <<>>
  /\ calls' = SubSeq(calls, 1, Len(calls) - 1)
  /\ UNCHANGED <<prio, pend>>

Next ==
  \/ \E w \in Watchers, revents \in SUBSET Flags : Feed(w, revents)
  \/ \E w \in Watchers : Clear(w) \/ Deliver(w)
  \/ \E w \in Watchers, p \in 0 .. NUMPRI - 1 : SetPriority(w, p)
  \/ Return

Spec == Init /\ [][Next]_qvars

=============================================================================
