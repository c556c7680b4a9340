--------------------------------- MODULE Hsm --------------------------------
(***************************************************************************)
(* examples/c/uart-hsm/state_machine.c: hsm_init, hsm_reset, hsm_dispatch  *)
(* and hsm_deinit at the grain of the user's callbacks.  A guard may say   *)
(* anything; a callback of a kind in NESTS may dispatch another event to   *)
(* the machine before it returns, as act_try_drain of hsm-echo.c does.     *)
(* The buffer has room for the deepest path, as state_machine.h demands of *)
(* the caller, so that HSM_ASSERT (0) is not reached.                      *)
(***************************************************************************)
EXTENDS HsmOps, FiniteSets

CONSTANTS
  Events,
  Tables,       \* [States -> Seq of Trans], the transitions fields
  Guards,       \* the names of the guards
  NESTS,        \* the callbacks that dispatch, of "action" "exit" "entry"
  MaxFrames     \* bound on nested activations

\* The states form a forest, and a transition that is not internal leads to one.
ASSUME MachineAssumption ==
  /\ IsFiniteSet(States) /\ NULL \notin States
  /\ parent \in [States -> States \cup {NULL}]
  /\ \E depth \in [States -> 0 .. Cardinality(States)] :
       \A s \in States : parent[s] # NULL => depth[parent[s]] < depth[s]
  /\ \A s \in States :
       /\ DOMAIN Tables[s] \subseteq Nat
       /\ \A i \in DOMAIN Tables[s] :
            Tables[s][i].type = "internal" \/ Tables[s][i].target \in States

VARIABLES
  current_state,      \* sm->current_state
  initial,            \* sm->initial_state, NULL before hsm_init
  entry_path_buffer,  \* sm->entry_path_buffer, one for all activations
  frames,             \* activations of hsm_dispatch and hsm_reset, innermost last
  inside,             \* ghost: the states the callbacks say the machine is in
  entered             \* ghost: the states whose entry action has run

hsm_vars == <<current_state, initial, entry_path_buffer, frames, inside, entered>>

NoTransition == Trans("none", NULL, "none", "none", "none")

HsmZero ==
  /\ current_state = NULL
  /\ initial = NULL
  /\ entry_path_buffer = <<>>
  /\ frames = <<>>
  /\ inside = {}
  /\ entered = {}

\* An activation: the event, the transition found, where it stands, the exit
\* actions left to run, the entry_idx of the next entry action plus one.
Activation(event, tr, step) ==
  [event |-> event, tr |-> tr, step |-> step, source |-> current_state,
   lca |-> NULL, again |-> FALSE, exits |-> <<>>, n |-> 0]

Innermost == frames[Len(frames)]
InStep(step) == frames # <<>> /\ Innermost.step = step
Advance(f) == frames' = [frames EXCEPT ![Len(frames)] = f]
Pop == frames' = Front(frames)

-----------------------------------------------------------------------------
\* hsm_find_lca: without a source it is the target, as if that were entered.
FindLca(s1, s2) == IF s1 = NULL THEN s2 ELSE Lca(s1, s2)

(***************************************************************************)
(* hsm_init: current_state is NULL, so hsm_perform_transition takes the    *)
(* target for the common ancestor, builds an empty path and runs no entry  *)
(* action.  The machine is in s all the same.                              *)
(***************************************************************************)
HsmInit(s) ==
  /\ frames = <<>> /\ initial = NULL
  /\ initial' = s
  /\ current_state' = s
  /\ inside' = Ancestors(s)
  /\ entered' = ToSet(Below(s, FindLca(NULL, s)))
  /\ UNCHANGED <<entry_path_buffer, frames>>

HsmDeinit ==
  /\ frames = <<>> /\ initial # NULL
  /\ current_state' = NULL
  /\ initial' = NULL
  /\ entry_path_buffer' = <<>>
  /\ inside' = {}
  /\ entered' = {}
  /\ UNCHANGED frames

HsmReset ==
  /\ frames = <<>> /\ initial # NULL
  /\ frames' = <<Activation("none",
                   Trans("none", initial, "none", "none", "external"), "perform")>>
  /\ UNCHANGED <<current_state, initial, entry_path_buffer, inside, entered>>

\* hsm_dispatch is called, by the program or by a callback that is running.
HsmDispatch(event) ==
  /\ initial # NULL
  /\ Len(frames) < MaxFrames
  /\ frames # <<>> => Innermost.step \in NESTS
  /\ frames' = Append(frames, Activation(event, NoTransition, "find"))
  /\ UNCHANGED <<current_state, initial, entry_path_buffer, inside, entered>>

\* hsm_process_state_transitions for the current state, then its ancestors;
\* if no guard passes the unhandled hook is all there is.
Find ==
  /\ InStep("find")
  /\ \E passing \in SUBSET Guards :
       LET found == Handler(Tables, current_state, Innermost.event, passing)
       IN  IF found = <<>>
             THEN Pop
             ELSE Advance([Innermost EXCEPT !.tr = Head(found), !.step = "action"])
  /\ UNCHANGED <<current_state, initial, entry_path_buffer, inside, entered>>

\* hsm_execute_transition: the action returns; an internal one is all there is.
ActionReturns ==
  /\ InStep("action")
  /\ IF Innermost.tr.type = "internal"
       THEN Pop
       ELSE Advance([Innermost EXCEPT !.step = "perform"])
  /\ UNCHANGED <<current_state, initial, entry_path_buffer, inside, entered>>

\* hsm_perform_transition reads current_state after the action returned.
\* Bug: it leaves the state the event was dispatched in.
SourceDispatched(f) == f.source

Source(f) == current_state

Exits(s, lca) == Below(s, lca)

\* It leaves and enters a state that is its own target, and else leaves what
\* is below the common ancestor.
StartTransition ==
  /\ InStep("perform")
  /\ LET source == Source(Innermost)
         target == Innermost.tr.target
         lca == FindLca(source, target)
         again == source = target
     IN  Advance([Innermost EXCEPT !.step = "exit", !.lca = lca, !.again = again,
                            !.exits = IF again THEN <<target>> ELSE Exits(source, lca)])
  /\ UNCHANGED <<current_state, initial, entry_path_buffer, inside, entered>>

\* hsm_execute_exit_actions, one callback.
ExitAction ==
  /\ InStep("exit") /\ Innermost.exits # <<>>
  /\ inside' = inside \ {Head(Innermost.exits)}
  /\ Advance([Innermost EXCEPT !.exits = Tail(@)])
  /\ UNCHANGED <<current_state, initial, entry_path_buffer, entered>>

\* Bug: the path to enter begins with the common ancestor.
EntryPathWithLca(target, lca) ==
  Below(target, lca) \o (IF lca = NULL THEN <<>> ELSE <<lca>>)

EntryPath(target, lca) == Below(target, lca)

\* hsm_build_entry_path and the assignment of current_state, which precedes
\* the entry actions.
Arrive ==
  /\ InStep("exit") /\ Innermost.exits = <<>> /\ ~Innermost.again
  /\ LET path == EntryPath(Innermost.tr.target, Innermost.lca)
     IN  /\ entry_path_buffer' =
              path \o SubSeq(entry_path_buffer, Len(path) + 1, Len(entry_path_buffer))
         /\ current_state' = Innermost.tr.target
         /\ Advance([Innermost EXCEPT !.step = "entry", !.n = Len(path)])
  /\ UNCHANGED <<initial, inside, entered>>

Enter(s) ==
  /\ inside' = inside \cup {s}
  /\ entered' = entered \cup {s}

\* hsm_execute_entry_actions, one callback: what the buffer holds by then.
EntryAction ==
  /\ InStep("entry") /\ Innermost.n > 0
  /\ Enter(entry_path_buffer[Innermost.n])
  /\ Advance([Innermost EXCEPT !.n = @ - 1])
  /\ UNCHANGED <<current_state, initial, entry_path_buffer>>

\* The entry action of a state that is entered from itself.
ReenterAction ==
  /\ InStep("exit") /\ Innermost.exits = <<>> /\ Innermost.again
  /\ Enter(Innermost.tr.target)
  /\ Advance([Innermost EXCEPT !.step = "entry"])
  /\ UNCHANGED <<current_state, initial, entry_path_buffer>>

Return ==
  /\ InStep("entry") /\ Innermost.n = 0
  /\ Pop
  /\ UNCHANGED <<current_state, initial, entry_path_buffer, inside, entered>>

HsmNext ==
  \/ \E s \in States : HsmInit(s)
  \/ HsmDeinit
  \/ HsmReset
  \/ \E event \in Events : HsmDispatch(event)
  \/ Find
  \/ ActionReturns
  \/ StartTransition
  \/ ExitAction
  \/ Arrive
  \/ EntryAction
  \/ ReenterAction
  \/ Return

HsmSpec == HsmZero /\ [][HsmNext]_hsm_vars

-----------------------------------------------------------------------------
(***************************************************************************)
(* No state is inside without its parent, in the middle of a transition or *)
(* of one that an action started: exit actions run innermost first, entry  *)
(* actions outermost first.                                                *)
(***************************************************************************)
ParentsEnclose ==
  \A s \in inside : parent[s] # NULL => parent[s] \in inside

(***************************************************************************)
(* Between events the machine is in the current state and its ancestors,   *)
(* whatever transitions an action started on the way: a state that is not  *)
(* current has been left, and left as often as it was entered.             *)
(***************************************************************************)
InsideMatchesCurrent == frames = <<>> => inside = Ancestors(current_state)

(***************************************************************************)
(* The machine is in the states it says: in the middle of transitions that *)
(* start others and between events (ParentsEnclose, InsideMatchesCurrent). *)
(***************************************************************************)
MachineConsistent == ParentsEnclose /\ InsideMatchesCurrent

(***************************************************************************)
(* An entry action runs only for a state the machine is not in, an exit    *)
(* action only for one it is in.                                           *)
(***************************************************************************)
EntersOnlyOutside ==
  [][/\ EntryAction => entry_path_buffer[Innermost.n] \notin inside
     /\ ReenterAction => Innermost.tr.target \notin inside
     /\ ExitAction => Head(Innermost.exits) \in inside]_hsm_vars

(***************************************************************************)
(* state_machine.c:48 "Setting to NULL ensures the full entry path is      *)
(* executed on first transition": after hsm_init the entry actions of the  *)
(* initial state and its ancestors have run.                               *)
(***************************************************************************)
InitialStateEntered ==
  [][\A s \in States : HsmInit(s) => entered' = Ancestors(s)]_hsm_vars

=============================================================================
