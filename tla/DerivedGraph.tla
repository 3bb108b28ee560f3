----------------------------- MODULE DerivedGraph -----------------------------
(***************************************************************************)
(* SemanticDerivedGraphEncoderEngine: one state as a plain graph.  What    *)
(* the state says is a table of instances, one row per occurrence of a     *)
(* fact, goal, history literal or action.  The graph draws an instance     *)
(* once however often it occurs, either as a node of its own that is       *)
(* joined to its objects, or folded into edges between them.  Nodes are    *)
(* known here by what they stand for.                                      *)
(***************************************************************************)
EXTENDS PlanningInputs

(***************************************************************************)
(* The configuration d: validate_config, and what normalization turns on.  *)
(***************************************************************************)
Reified(d) == d.node_universe = "objects_and_atoms"

HasTuples(d) == d.include_tuple_tensors \/ ~Reified(d)

Expansions == {"star", "clique", "chain", "star_first"}

DerivedConfigAccepted(d) ==
  /\ d.atom_expansion = "star" => Reified(d)
  /\ d.include_line_graph => Reified(d)
  /\ d.spd_max_hops >= 2

HasAnchorNode(d) == ~Reified(d) \/ d.include_hyperedge_incidence

CollectsInstances(d) == d.include_hyperedge_incidence \/ HasTuples(d) \/ d.include_spd

(***************************************************************************)
(* The table of instances.                                                 *)
(***************************************************************************)
InstanceOf(role, literal, level, dt) ==
  [role |-> role, relation |-> literal.atom.predicate, positive |-> literal.positive,
   level |-> level, dt |-> dt, arguments |-> literal.atom.arguments]

ActionInstance(action) ==
  [role |-> "action", relation |-> action.action, positive |-> TRUE,
   level |-> 0, dt |-> 0, arguments |-> action.arguments]

\* The channels of a node, an edge or a row.
ChannelsOf(inst) ==
  [role     |-> inst.role,
   relation |-> inst.relation,
   sign     |-> IF inst.positive THEN 0 ELSE 1,
   level    |-> inst.level,
   dt       |-> inst.dt,
   category |-> IF inst.role = "action" THEN "action" ELSE Category[inst.relation]]

\* The channels of an object, and of an edge that no instance is drawn by.
Unlabeled ==
  [role |-> "object", relation |-> "none", sign |-> 0, level |-> 0, dt |-> 0,
   category |-> "static"]

FactInstances(facts) ==
  [k \in DOMAIN facts |-> InstanceOf("fact", Literal(facts[k], TRUE), 0, 0)]

GoalInstances(goals) ==
  [k \in DOMAIN goals |->
     InstanceOf(IF goals[k].level = 0 THEN "goal" ELSE "subgoal",
                goals[k].literal, goals[k].level, 0)]

EntryInstances(entry) ==
  [k \in DOMAIN entry.literals |-> InstanceOf("history", entry.literals[k], 0, entry.dt)]

HistoryInstances(history) ==
  FlattenSeq([k \in DOMAIN history |-> EntryInstances(history[k])])

Instances(lanes) ==
  FactInstances(Ordered(lanes.static) \o Ordered(lanes.facts))
    \o GoalInstances(lanes.goals)
    \o HistoryInstances(OrderedHistory(lanes.history, lanes.max_steps))
    \o [k \in DOMAIN lanes.actions |-> ActionInstance(lanes.actions[k])]

\* What is added to a dt to make it an embedding id.
HistoryDtOffset(instances) ==
  Max({0} \cup {-instances[k].dt : k \in DOMAIN instances})

(***************************************************************************)
(* Nodes: the objects, the instances that have one, and last the anchor    *)
(* for what has no arguments.  Actions are reified in every universe.      *)
(***************************************************************************)
ObjectNode(o) == <<"object", o>>

InstanceNode(inst) == <<"instance", inst>>

AnchorNode == <<"anchor">>

NoNode == <<>>

HasNode(d, inst) == Reified(d) \/ inst.role = "action"

Drawn(d, pool) == Chosen(pool, {k \in DOMAIN pool : HasNode(d, pool[k])})

DerivedNodes(d, objects, drawn) ==
  [k \in DOMAIN objects |-> ObjectNode(objects[k])]
    \o [k \in DOMAIN drawn |-> InstanceNode(drawn[k])]
    \o (IF HasAnchorNode(d) THEN <<AnchorNode>> ELSE <<>>)

\* instance_node_indices: the node that a row of the table belongs to.
NodeOfInstance(d, inst) ==
  IF HasNode(d, inst) THEN InstanceNode(inst)
  ELSE IF inst.arguments = <<>> THEN AnchorNode ELSE NoNode

(***************************************************************************)
(* Edges.                                                                  *)
(***************************************************************************)
DerivedEdge(src, dst, kind, positions, channels) ==
  [src |-> src, dst |-> dst, kind |-> kind, positions |-> positions, channels |-> channels]

Loop(node, kind, inst) ==
  <<DerivedEdge(node, node, <<kind, "self">>, <<1, 1>>, ChannelsOf(inst))>>

BothWays(d, from, to, kind, channels) ==
  <<DerivedEdge(from[1], to[1], <<kind, "fwd">>, <<from[2], to[2]>>, channels)>>
    \o (IF d.include_reverse_edges
        THEN <<DerivedEdge(to[1], from[1], <<kind, "bwd">>, <<to[2], from[2]>>, channels)>>
        ELSE <<>>)

\* emit_literal_arguments, and the same for an action.
StarEdges(d, inst, kind) ==
  FlattenSeq([k \in DOMAIN inst.arguments |->
    BothWays(d, <<InstanceNode(inst), k>>, <<ObjectNode(inst.arguments[k]), k>>, kind,
             ChannelsOf(inst))])

PairsFrom(i, n) == [k \in 1..(n - i) |-> <<i, i + k>>]

PositionPairs(n) == FlattenSeq([i \in 1..n |-> PairsFrom(i, n)])

\* The pairs of positions that an expansion joins.
Expands(expansion, p) ==
  CASE expansion = "clique"     -> TRUE
    [] expansion = "chain"      -> p[2] = p[1] + 1
    [] expansion = "star_first" -> p[1] = 1

Expanded(expansion, n) ==
  LET pairs == PositionPairs(n)
  IN  Chosen(pairs, {k \in DOMAIN pairs : Expands(expansion, pairs[k])})

PositionOf(inst, k) == <<ObjectNode(inst.arguments[k]), k>>

PairEdges(d, inst, pairs) ==
  FlattenSeq([k \in DOMAIN pairs |->
    BothWays(d, PositionOf(inst, pairs[k][1]), PositionOf(inst, pairs[k][2]),
             d.atom_expansion, ChannelsOf(inst))])

\* emit_object_projection; what has no arguments waits for the anchor.
ProjectedEdges(d, inst) ==
  IF Len(inst.arguments) = 1 THEN Loop(ObjectNode(inst.arguments[1]), "unary", inst)
  ELSE PairEdges(d, inst, Expanded(d.atom_expansion, Len(inst.arguments)))

InstanceEdges(d, inst) ==
  IF inst.role = "action" THEN StarEdges(d, inst, "action")
  ELSE IF ~Reified(d) THEN ProjectedEdges(d, inst)
  ELSE IF inst.arguments = <<>> THEN Loop(InstanceNode(inst), "nullary", inst)
  ELSE StarEdges(d, inst, "arg")

\* Shortcuts between literals that share an object, unless too many share it.
PositionsAt(inst, o) ==
  LET at == {p \in DOMAIN inst.arguments : inst.arguments[p] = o}
  IN  InOrder([p \in at |-> p])

InstancePositions(inst, positions) ==
  [n \in DOMAIN positions |-> <<InstanceNode(inst), positions[n]>>]

Incidents(literals, o) ==
  FlattenSeq([k \in DOMAIN literals |->
    InstancePositions(literals[k], PositionsAt(literals[k], o))])

Shortcut(d, one, other) ==
  IF one[1] = other[1] THEN <<>> ELSE BothWays(d, one, other, "line_share", Unlabeled)

Shortcuts(d, incidents, pairs) ==
  FlattenSeq([k \in DOMAIN pairs |->
    Shortcut(d, incidents[pairs[k][1]], incidents[pairs[k][2]])])

ShortcutsBy(d, incidents) ==
  IF Len(incidents) > d.line_graph_max_degree THEN <<>>
  ELSE Shortcuts(d, incidents, PositionPairs(Len(incidents)))

LineEdges(d, objects, literals) ==
  FlattenSeq([k \in DOMAIN objects |-> ShortcutsBy(d, Incidents(literals, objects[k]))])

AnchorLoops(d, pool) ==
  LET waiting == Chosen(pool, {k \in DOMAIN pool : /\ ~HasNode(d, pool[k])
                                                   /\ pool[k].arguments = <<>>})
  IN  FlattenSeq([k \in DOMAIN waiting |-> Loop(AnchorNode, "nullary", waiting[k])])

DrawnLiterals(pool) == Chosen(pool, {k \in DOMAIN pool : pool[k].role # "action"})

DerivedEdges(d, objects, pool) ==
  FlattenSeq([k \in DOMAIN pool |-> InstanceEdges(d, pool[k])])
    \o (IF d.include_line_graph THEN LineEdges(d, objects, DrawnLiterals(pool)) ELSE <<>>)
    \o AnchorLoops(d, pool)

(***************************************************************************)
(* emit_spd_fields: how far objects are apart, an instance being one step  *)
(* from each of its objects, and how far one looks.                        *)
(***************************************************************************)
\* Mutant: the last step may go beyond what is looked at.
RoundsBeyond(max_hops) == (max_hops + 1) \div 2

Rounds(max_hops) == max_hops \div 2

OneFurther(rows, near) ==
  near \cup UNION {args \in rows : args \cap near # {}}

Nearby(rows, o, rounds) ==
  LET near[n \in 0..rounds] == IF n = 0 THEN {o} ELSE OneFurther(rows, near[n - 1])
  IN  near

DistanceIn(reached, o) ==
  {n \in DOMAIN reached : o \in reached[n]}

PairDistances(objects, reached, pairs) ==
  [k \in DOMAIN pairs |->
     [src  |-> ObjectNode(objects[pairs[k][1]]),
      dst  |-> ObjectNode(objects[pairs[k][2]]),
      dist |-> 2 * Min(DistanceIn(reached[pairs[k][1]], objects[pairs[k][2]]))]]

ReachedFrom(objects, rows, rounds) ==
  [k \in DOMAIN objects |-> Nearby(rows, objects[k], rounds)]

InReach(objects, reached) ==
  LET pairs == PositionPairs(Len(objects))
  IN  Chosen(pairs, {k \in DOMAIN pairs :
                       DistanceIn(reached[pairs[k][1]], objects[pairs[k][2]]) # {}})

DistancesAlong(objects, reached) ==
  PairDistances(objects, reached, InReach(objects, reached))

Distances(d, objects, instances) ==
  DistancesAlong(objects, ReachedFrom(objects, {ToSet(inst.arguments) : inst \in ToSet(instances)},
                                      Rounds(d.spd_max_hops)))

(***************************************************************************)
(* encode_impl.  Arguments of actions and of the history are not looked at *)
(* before they are used.                                                   *)
(***************************************************************************)
DerivedRefused(lanes) ==
  \E atom \in lanes.static \cup lanes.facts
                \cup {lanes.goals[k].literal.atom : k \in DOMAIN lanes.goals} :
    ~(ToSet(atom.arguments) \subseteq lanes.objects)

\* Adapters number them, and know no others (semantic_flat_encoder.cpp:72).
Grounded(lanes) ==
  /\ \A action \in ToSet(lanes.actions) : ToSet(action.arguments) \subseteq lanes.objects
  /\ \A entry \in ToSet(lanes.history) : \A literal \in ToSet(entry.literals) :
       ToSet(literal.atom.arguments) \subseteq lanes.objects

Draws(lanes) == ~DerivedRefused(lanes) /\ Grounded(lanes)

DerivedGraphOf(d, objects, instances, pool) ==
  [objects   |-> objects,
   nodes     |-> DerivedNodes(d, objects, Drawn(d, pool)),
   edges     |-> DerivedEdges(d, objects, pool),
   instances |-> instances,
   distances |-> IF d.include_spd THEN Distances(d, objects, instances) ELSE <<>>,
   dt_offset |-> HistoryDtOffset(instances)]

DerivedEncodeOf(d, objects, instances) ==
  DerivedGraphOf(d, objects, instances, PoolOf(instances))

DerivedEncode(d, lanes) == DerivedEncodeOf(d, Ordered(lanes.objects), Instances(lanes))
=============================================================================
