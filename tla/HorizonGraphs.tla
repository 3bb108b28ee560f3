----------------------------- MODULE HorizonGraphs -----------------------------
(***************************************************************************)
(* The states of a transition dag in one graph: encode_horizon of          *)
(* SemanticHGraphEncoderEngine and of the flat engine.  The nodes of the   *)
(* dag carry inputs in the owned form.  Modes: full gives each state its   *)
(* dynamic facts, delta its changes, action only the action that leads to  *)
(* it.                                                                     *)
(***************************************************************************)
EXTENDS SemanticDag, HeteroGraph, FlatGraph

(***************************************************************************)
(* What both encoders read of a dag: the root's lanes, what the other      *)
(* states change, and how the states are related.                          *)
(***************************************************************************)
RootLanes(d) == OwnedLanes(d.nodes[1].state)

Others(d) == NodeSet(d) \ {1}

\* A node other than the root is read for its dynamic facts only.
FactsAt(d, i) == {atom \in d.nodes[i].state.facts : CategoryOf(atom) # "static"}

\* Mutant: what differs from a parent.
DeltasFromParent(d, i) ==
  LET parent  == IF ParentsOf(d, i) = {} THEN 1 ELSE CHOOSE j \in ParentsOf(d, i) : TRUE
      added   == Ordered(FactsAt(d, i) \ FactsAt(d, parent))
      removed == Ordered(FactsAt(d, parent) \ FactsAt(d, i))
  IN  [k \in DOMAIN added |-> Literal(added[k], TRUE)]
        \o [k \in DOMAIN removed |-> Literal(removed[k], FALSE)]

\* The changes of a node: the literals that came with it, or else what differs
\* from the root.
Differences(d, i) ==
  LET added   == Ordered(FactsAt(d, i) \ FactsAt(d, 1))
      removed == Ordered(FactsAt(d, 1) \ FactsAt(d, i))
  IN  [k \in DOMAIN added |-> Literal(added[k], TRUE)]
        \o [k \in DOMAIN removed |-> Literal(removed[k], FALSE)]

DeltasOf(d, i) ==
  IF d.nodes[i].labels.delta # None THEN d.nodes[i].labels.delta ELSE Differences(d, i)

\* delta_goal_satisfaction_derivation over the dynamic changes, or none.
DeltaDerivation(deltas, goal) ==
  LET changed(positive) ==
        /\ CategoryOf(goal.atom) # "static"
        /\ Literal(goal.atom, positive) \in ToSet(deltas)
  IN  IF changed(goal.positive) THEN "[sat+]"
      ELSE IF changed(~goal.positive) THEN "[sat-]" ELSE "none"

(***************************************************************************)
(* The relations between states: parents with their children, children of  *)
(* one parent, and children of two of its children.  Those of the root are *)
(* left out when it is excluded.  Of siblings and cousins each pair is     *)
(* taken in both directions; siblings are no cousins, if they are encoded. *)
(***************************************************************************)
Descent(c, d) == {pair \in Pairs(d) : c.root_policy = "exclude" => pair[1] # 1}

Siblings(c, d) ==
  {pair \in NodeSet(d) \X NodeSet(d) :
     /\ pair[1] # pair[2]
     /\ \E p \in NodeSet(d) : <<p, pair[1]>> \in Descent(c, d) /\ <<p, pair[2]>> \in Descent(c, d)}

Cousins(c, d) ==
  {pair \in NodeSet(d) \X NodeSet(d) :
     /\ pair[1] # pair[2]
     /\ \E parents \in Siblings(c, d) : /\ <<parents[1], pair[1]>> \in Descent(c, d)
                                        /\ <<parents[2], pair[2]>> \in Descent(c, d)}

TopologyPairs(c, d, name) ==
  CASE name = "parent"  -> Descent(c, d)
    [] name = "sibling" -> Siblings(c, d)
    [] name = "cousin"  -> Cousins(c, d)
                             \ (IF "sibling" \in c.topology THEN Siblings(c, d) ELSE {})

Topology(c, d) ==
  UNION {{<<name, pair[1], pair[2]>> : pair \in TopologyPairs(c, d, name)} : name \in c.topology}

(***************************************************************************)
(* The target rows: one per state, in the order of the nodes.              *)
(***************************************************************************)
TargetStates(c, d) ==
  IF RootInTargets(c) THEN [i \in DOMAIN d.nodes |-> i]
  ELSE [i \in 1..(Len(d.nodes) - 1) |-> i + 1]

-----------------------------------------------------------------------------
(***************************************************************************)
(* Heterogeneous graphs.  Every state has a symbol.  A relation node holds *)
(* for one state, <<type, what it is about, the state's symbol>>;          *)
(* relations of the root are held by no state when the root is excluded.   *)
(***************************************************************************)
NoState == <<>>

RootState(c) == IF RootInStateRelations(c) THEN <<StateSymbol(1)>> ELSE NoState

AtState(i) == <<StateSymbol(i)>>

\* encode_atom_relation, encode_action_relation: state is a slot, or none.
AtomRelation(type, atom, state, copy) ==
  Entry(<<type, atom, state>>, state \o Arguments(atom), copy)

ActionRelationAt(action, i) ==
  Entry(<<ActionRelation(action.action), action, AtState(i)>>,
        AtState(i) \o ActionArguments(action), 1)

StateType(c, p) == IF Split(c) THEN Anchored(StateRelation(p)) ELSE StateRelation(p)

GoalType(c, goal, derivation, split) ==
  LET type == GoalRelation(goal.literal, goal.level, "", derivation)
  IN  IF split THEN Anchored(type) ELSE type

(***************************************************************************)
(* The root: facts, plain goals, and the goals its facts satisfy.          *)
(***************************************************************************)
RootFacts(c, d) == StateFacts(c, RootLanes(d))

RootFactEntries(c, d) ==
  {AtomRelation(StateRelation(atom.predicate), atom, RootState(c), 1) : atom \in RootFacts(c, d)}

\* derivations[k] is that of goals[k]; "" is none.
GoalEntriesAt(c, goals, state, derivations, split) ==
  {AtomRelation(GoalType(c, goals[i], derivations[i], split), goals[i].literal.atom, state, i) :
     i \in {k \in EncodedGoals(c, goals) : derivations[k] \in c.derivations \cup {""}}}

RootGoalEntriesOf(c, goals, facts) ==
  (IF "plain" \in c.derivations
   THEN GoalEntriesAt(c, goals, RootState(c), [k \in DOMAIN goals |-> ""], FALSE) ELSE {})
    \cup GoalEntriesAt(c, goals, RootState(c),
                      [k \in DOMAIN goals |-> Satisfaction(facts, goals[k].literal)], FALSE)

RootGoalEntries(c, d) == RootGoalEntriesOf(c, RootLanes(d).goals, RootFacts(c, d))

(***************************************************************************)
(* The other states.                                                       *)
(***************************************************************************)
EncodedFactsAt(c, d, i) == {atom \in FactsAt(d, i) : Encoded(c, atom)}

FullEntriesAt(c, goals, facts, i) ==
  {AtomRelation(StateType(c, atom.predicate), atom, AtState(i), 1) : atom \in facts}
    \cup GoalEntriesAt(c, goals, AtState(i),
                      [k \in DOMAIN goals |-> Satisfaction(facts, goals[k].literal)], Split(c))

DeltaEntriesAt(c, goals, deltas, i) ==
  {AtomRelation(LiteralRelation(deltas[k].atom.predicate, deltas[k].positive),
                deltas[k].atom, AtState(i), k) :
     k \in {n \in DOMAIN deltas : Encoded(c, deltas[n].atom)}}
    \cup GoalEntriesAt(c, goals, AtState(i),
                      [k \in DOMAIN goals |-> DeltaDerivation(deltas, goals[k].literal)], FALSE)

IncomingEntries(c, d, i) ==
  IF d.nodes[i].labels.action = None \/ c.ignore_actions THEN {}
  ELSE {ActionRelationAt(d.nodes[i].labels.action, i)}

EntriesOf(c, d, i) ==
  IncomingEntries(c, d, i)
    \cup CASE c.mode = "full"   -> FullEntriesAt(c, RootLanes(d).goals, EncodedFactsAt(c, d, i), i)
           [] c.mode = "delta"  -> DeltaEntriesAt(c, RootLanes(d).goals, DeltasOf(d, i), i)
           [] c.mode = "action" -> {}

TopologyEntries(c, d) ==
  {Entry(<<StateRelation(t[1]), <<t[2], t[3]>>, NoState>>,
         <<StateSymbol(t[2]), StateSymbol(t[3])>>, 1) : t \in Topology(c, d)}

HorizonEntries(c, d) ==
  RootFactEntries(c, d)
    \cup RootGoalEntries(c, d)
    \cup (UNION {EntriesOf(c, d, i) : i \in Others(d)})
    \cup TopologyEntries(c, d)

(***************************************************************************)
(* Targets: a row per state, with the ids given to the nodes or else their *)
(* indices, which count from 0.                                            *)
(***************************************************************************)
StateAnchors(c, d) == {StateSymbol(i) : i \in ToSet(TargetStates(c, d))}

HorizonTargets(c, d) ==
  IF ~HasTarget(c, "states") THEN <<>>
  ELSE LET states == TargetStates(c, d)
           explicit == candidate_id_coverage(d, RootInTargets(c)) = "complete"
       IN  [k \in DOMAIN states |->
              [symbol |-> StateSymbol(states[k]),
               id     |-> IF explicit THEN d.nodes[states[k]].labels.candidate_id
                                      ELSE states[k] - 1,
               depth  |-> d.nodes[states[k]].depth,
               group  |-> "states"]]

HorizonRefused(c, d) ==
  \/ c.mode = "action" /\ c.ignore_actions
  \/ c.include_lgan_edges /\ StateAnchors(c, d) = {}
  \/ HasTarget(c, "states") /\ ~ValidCandidateIds(d, RootInTargets(c))

HorizonEncode(c, d) ==
  [entries |-> HorizonEntries(c, d),
   anchors |-> StateAnchors(c, d),
   targets |-> HorizonTargets(c, d)]

-----------------------------------------------------------------------------
(***************************************************************************)
(* Flat graphs.  The entity table holds the objects, a row for every       *)
(* state, and the predicates that will be used; tuples about a state have  *)
(* its row in front.                                                       *)
(***************************************************************************)
StateRow(i) == <<"state", i>>

RootSlot(c) == IF RootInStateRelations(c) THEN <<StateRow(1)>> ELSE <<>>

StateSlot(i) == <<StateRow(i)>>

HorizonGoals(d) == ByCategory(RootLanes(d).goals)

\* fact_keys: what the goals of a state are compared with.
FactKeys(c, d, i) ==
  IF i = 1 THEN {atom \in Membership(RootLanes(d)) : FactEmitted(c, atom)}
  ELSE {atom \in FactsAt(d, i) : Kept(c, atom)}

Satisfied(facts, literal) ==
  IF (literal.atom \in facts) = literal.positive THEN "[sat]" ELSE "[unsat]"

KeptDeltas(c, d, i) == SelectSeq(DeltasOf(d, i), LAMBDA l : Kept(c, l.atom))

\* The derivations with which a goal is emitted at a state.
DerivationsAt(c, d, i, goal) ==
  c.derivations \cap
    CASE i = 1                         -> {"plain", Satisfied(FactKeys(c, d, 1), goal)}
      [] i > 1 /\ c.mode = "full"   -> {Satisfied(FactKeys(c, d, i), goal)}
      [] i > 1 /\ c.mode = "delta"  -> {DeltaDerivation(DeltasOf(d, i), goal)}
      [] i > 1 /\ c.mode = "action" -> {}

(***************************************************************************)
(* prepare_horizon_graph: the entity table and the target rows.            *)
(***************************************************************************)
DeltaPredicates(deltas) == [k \in DOMAIN deltas |-> deltas[k].atom.predicate]

UsesAt(c, d, i) ==
  PredicatesOf(Ordered(IF i = 1 \/ c.mode = "full" THEN FactKeys(c, d, i) ELSE {}))
    \o DeltaPredicates(IF i > 1 /\ c.mode = "delta" THEN KeptDeltas(c, d, i) ELSE <<>>)
    \o PredicatesIn(SelectSeq(HorizonGoals(d),
                              LAMBDA g : /\ GoalConsidered(c, g.literal)
                                         /\ DerivationsAt(c, d, i, g.literal) # {}))

HorizonPredicateUses(c, d) == FlattenSeq([i \in DOMAIN d.nodes |-> UsesAt(c, d, i)])

HorizonEntities(c, d) ==
  PoolOf(ObjectRows(RootLanes(d).objects)
           \o [i \in DOMAIN d.nodes |-> StateRow(i)]
           \o PredicateRows(c, HorizonPredicateUses(c, d)))

StateRows(states) == [k \in DOMAIN states |-> StateRow(states[k])]

HorizonAnchors(c, d) == StateRows(TargetStates(c, d))

(***************************************************************************)
(* emit_horizon_semantics and emit_horizon_topology.                       *)
(***************************************************************************)
HorizonKey(c, key, i) == IF i > 1 /\ Split(c) THEN Anchored(key) ELSE key

SlotAt(c, i) == IF i = 1 THEN RootSlot(c) ELSE StateSlot(i)

FactTuplesAt(c, i, facts) ==
  [k \in DOMAIN facts |->
     AtomRow(c, HorizonKey(c, StateRelation(facts[k].predicate), i), facts[k], SlotAt(c, i))]

DeltaTuplesAt(c, i, deltas) ==
  [k \in DOMAIN deltas |->
     AtomRow(c, LiteralRelation(deltas[k].atom.predicate, deltas[k].positive),
             deltas[k].atom, StateSlot(i))]

GoalTupleAt(c, i, goal, derivation) ==
  AtomRow(c, HorizonKey(c, GoalRelation(goal.literal, goal.level, "",
                                        IF derivation = "plain" THEN "" ELSE derivation), i),
          goal.literal.atom, SlotAt(c, i))

TuplesOfGoal(c, i, goal, derivations) ==
  [k \in DOMAIN derivations |-> GoalTupleAt(c, i, goal, derivations[k])]

GoalTuplesAt(c, d, i, goals) ==
  FlattenSeq([k \in DOMAIN goals |->
    TuplesOfGoal(c, i, goals[k], Ordered(DerivationsAt(c, d, i, goals[k].literal)))])

IncomingTuples(c, d, i) ==
  LET action == d.nodes[i].labels.action
  IN  IF action = None \/ (c.ignore_actions /\ c.mode # "action") THEN <<>>
      ELSE <<ActionTuple(StateRow(i), action)>>

TuplesAt(c, d, i) ==
  (CASE i = 1 \/ c.mode = "full"    -> FactTuplesAt(c, i, Ordered(FactKeys(c, d, i)))
     [] i > 1 /\ c.mode = "delta"  -> DeltaTuplesAt(c, i, KeptDeltas(c, d, i))
     [] i > 1 /\ c.mode = "action" -> <<>>)
    \o (IF i > 1 THEN IncomingTuples(c, d, i) ELSE <<>>)
    \o (IF i = 1 \/ c.mode # "action"
        THEN GoalTuplesAt(c, d, i, SelectSeq(HorizonGoals(d),
                                             LAMBDA g : GoalConsidered(c, g.literal)))
        ELSE <<>>)

TopologyTuples(c, d) ==
  LET pairs == Ordered(Topology(c, d))
  IN  [k \in DOMAIN pairs |->
         Row(StateRelation(pairs[k][1]), <<StateRow(pairs[k][2]), StateRow(pairs[k][3])>>)]

HorizonTuples(c, d) ==
  FlattenSeq([i \in DOMAIN d.nodes |-> TuplesAt(c, d, i)]) \o TopologyTuples(c, d)

FlatHorizonRefused(c, d) ==
  \/ ~FlatHorizonAccepted(c)
  \/ RootLanes(d).layers > c.max_goal_level
  \/ TargetRowsRefused(d, RootInTargets(c))
  \/ c.include_lgan_edges /\ HorizonAnchors(c, d) = <<>>

FlatHorizonEncode(c, d) ==
  [entities |-> HorizonEntities(c, d),
   tuples   |-> HorizonTuples(c, d),
   anchors  |-> HorizonAnchors(c, d),
   targets  |-> TargetRows(d, RootInTargets(c))]
================================================================================
