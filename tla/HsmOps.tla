------------------------------- MODULE HsmOps -------------------------------
(***************************************************************************)
(* The static part of the hierarchical state machines of examples/c: a     *)
(* tree of states given by their parents, the paths through it that a      *)
(* transition takes, and the search of a transition table.  Both engines   *)
(* (uart-hsm/state_machine.c, modelled by Hsm, and hsm.c, used by          *)
(* EchoServer and FileWriter) share it.                                    *)
(***************************************************************************)
EXTENDS Naturals, Sequences, SequencesExt

CONSTANTS
  States,   \* the const hsm_state_t objects
  parent,   \* their parent fields, NULL at the top
  NULL

\* s and its ancestors, innermost first; hsm_get_state_depth is its length
Chain ==
  LET chain[s \in States \cup {NULL}] ==
        IF s = NULL THEN <<>> ELSE <<s>> \o chain[parent[s]]
  IN  chain

Ancestors(s) == ToSet(Chain[s])

\* What a transition leaves, or enters, of s and its ancestors: those below lca.
Below(s, lca) == SubSeq(Chain[s], 1, Len(Chain[s]) - Len(Chain[lca]))

\* hsm_lca: walk up from the deeper one, then from both, until they meet.
Lca(s1, s2) ==
  LET Deeper(a, b) == Len(Chain[a]) > Len(Chain[b])
      Up(a, b) == <<IF Deeper(b, a) THEN a ELSE parent[a],
                    IF Deeper(a, b) THEN b ELSE parent[b]>>
      lca[p \in (States \cup {NULL}) \X (States \cup {NULL})] ==
        IF p[1] = p[2] THEN p[1] ELSE lca[Up(p[1], p[2])]
  IN  lca[<<s1, s2>>]

\* An element of a transition table; the guard "none" is a NULL pointer.
Trans(event, target, guard, action, type) ==
  [event |-> event, target |-> target, guard |-> guard, action |-> action,
   type |-> type]

\* The entries of a table for the event whose guards, if any, are passing
Matches(table, event, passing) ==
  {i \in DOMAIN table : /\ table[i].event = event
                        /\ table[i].guard \in passing \cup {"none"}}

\* hsm_dispatch's walk: the first match of the current state's table, or of
\* its parent's, ...; <<>> if there is none.
Handler(tables, s, event, passing) ==
  LET matches == [a \in States |-> Matches(tables[a], event, passing)]
      handler[a \in States \cup {NULL}] ==
        IF a = NULL THEN <<>>
        ELSE IF matches[a] = {} THEN handler[parent[a]]
        ELSE <<tables[a][Min(matches[a])]>>
  IN  handler[s]

IsIn(current, s) == s \in Ancestors(current)

=============================================================================
