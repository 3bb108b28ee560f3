--------------------------- MODULE MCLookaheadGraphs ---------------------------
(***************************************************************************)
(* Three planner states, two actions and two candidate ids.  Transitions   *)
(* join any two states, so that diamonds, cycles, self loops and repeated  *)
(* pairs all occur.                                                        *)
(***************************************************************************)
EXTENDS LookaheadGraphs

CONSTANTS s0, s1, s2, a, b, l

MCStates == {s0, s1, s2}
MCActions == {a, b}
MCIds == {0, 1, 2, 3, 7}
MCDeltas == {l}

Label(action, id, delta) == [action |-> action, candidate_id |-> id, delta |-> delta]

Record(p, c, labels) == [parent |-> p, child |-> c, labels |-> labels]

MCCalls ==
  {Record(p, c, Label(action, id, None)) :
     p \in {s0, s1, s2}, c \in {s0, s1, s2}, action \in {None, a}, id \in {None, 7}}
  \cup {Record(s0, s1, Label(b, 1, l)), Record(s1, s2, Label(b, 1, None)),
        Record(s1, s0, Label(None, None, l))}

MCBulkCalls ==
  {<<Record(s1, s2, Label(a, 7, None)), Record(s0, s1, Label(a, id, None))>> : id \in {None, 1}}
  \cup {<<Record(s0, s2, Label(a, 1, None)), Record(s1, s2, Label(b, id, None))>> : id \in {None, 7}}

Data(state, id, delta) == [state |-> state, candidate_id |-> id, delta |-> delta]

MCRxNodes ==
  <<{Data(s0, None, None)},
    {Data(s1, None, None), Data(s1, 1, l)},
    {Data(s2, None, None), Data(s2, 1, None), Data(s1, None, None)}>>

MCRxEdges ==
  {<<1, 2, None>>, <<1, 3, None>>, <<2, 3, None>>, <<2, 3, a>>, <<3, 2, None>>,
   <<3, 1, None>>, <<2, 2, None>>}
=============================================================================
