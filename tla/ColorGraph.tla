------------------------------ MODULE ColorGraph ------------------------------
(***************************************************************************)
(* SemanticColorEncoderEngine: atoms as chains of colored nodes or edges,  *)
(* for color refinement.  With names exported, nodes and colors are known  *)
(* by the names they get; without, by what they are.  The two are separate *)
(* implementations of one drawing, and here one drawing under two          *)
(* identities.  A color is the number of the first use of its identity.    *)
(***************************************************************************)
EXTENDS PlanningInputs

(***************************************************************************)
(* CompactColorNodeKey, and the name for it.  Facts have no level.         *)
(***************************************************************************)
ColorKey(kind, object, predicate, arguments, use, position) ==
  [kind |-> kind, object |-> object, predicate |-> predicate, arguments |-> arguments,
   level |-> use.level, positive |-> use.positive, position |-> position]

NoUse == [level |-> -1, positive |-> TRUE]

ObjectKey(o) == ColorKey("object", o, "", <<>>, NoUse, -1)

PredicateKey(use) == ColorKey("predicate", "", use.atom.predicate, <<>>, use, -1)

AtomKey(use) == ColorKey("atom", "", use.atom.predicate, use.atom.arguments, use, -1)

PositionKey(use, i) ==
  ColorKey("position", "", use.atom.predicate, use.atom.arguments, use, i)

Sign(key) == IF key.level = -1 THEN <<>> ELSE IF key.positive THEN <<"[+]">> ELSE <<"[-]">>

Suffix4 == <<"[g]", "[sg]", "[ssg]", "[sssg]">>

\* Mutant: all levels have the suffix of the goals.
LevelSuffixOne(key) == IF key.level = -1 THEN <<>> ELSE <<"[g]">>

LevelSuffix(key) == IF key.level = -1 THEN <<>> ELSE <<Suffix4[key.level + 1]>>

AtomName(key) ==
  Sign(key) \o <<"(", key.predicate>> \o key.arguments \o <<")">> \o LevelSuffix(key)

NameOf(key) ==
  CASE key.kind = "object"    -> <<key.object>>
    [] key.kind = "predicate" -> Sign(key) \o <<key.predicate>> \o LevelSuffix(key)
    [] key.kind = "atom"      -> AtomName(key)
    [] key.kind = "position"  -> AtomName(key) \o <<":", ToString(key.position)>>

(***************************************************************************)
(* encode_atom, for one use [atom, level, positive]: the edges [from, to,  *)
(* color] it draws, the nodes it touches and the colors it asks for, each  *)
(* in order.                                                               *)
(***************************************************************************)
ColorEdge(from, to, color) == [from |-> from, to |-> to, color |-> color]

ArgumentsOf(use) == use.atom.arguments

SelfEdge(d, use) ==
  IF d.enable_global_predicate_nodes /\ d.edge_features
  THEN <<ColorEdge(PredicateKey(use), PredicateKey(use), PredicateKey(use))>> ELSE <<>>

\* Colored edges: each object to the atom, and the predicate to it once.
StarAt(d, use, i) ==
  <<ColorEdge(ObjectKey(ArgumentsOf(use)[i]), AtomKey(use), PositionKey(use, i))>>
    \o (IF d.enable_global_predicate_nodes /\ i = 1
        THEN <<ColorEdge(PredicateKey(use), AtomKey(use), AtomKey(use))>> ELSE <<>>)

\* Colored nodes: each object to its position, and the positions in a chain.
ChainAt(d, use, i) ==
  <<ColorEdge(ObjectKey(ArgumentsOf(use)[i]), PositionKey(use, i), PositionKey(use, i))>>
    \o (IF i > 1 THEN <<ColorEdge(PositionKey(use, i - 1), PositionKey(use, i), PositionKey(use, i))>>
        ELSE IF d.enable_global_predicate_nodes
        THEN <<ColorEdge(PredicateKey(use), PositionKey(use, i), PositionKey(use, i))>> ELSE <<>>)

AtomEdges(d, use) ==
  IF Nullary(use.atom)
  THEN IF d.edge_features THEN <<ColorEdge(AtomKey(use), AtomKey(use), AtomKey(use))>> ELSE <<>>
  ELSE FlattenSeq([i \in DOMAIN ArgumentsOf(use) |->
         IF d.edge_features THEN StarAt(d, use, i) ELSE ChainAt(d, use, i)])

ItemAt(d, use, i) == IF d.edge_features THEN AtomKey(use) ELSE PositionKey(use, i)

NodeUses(d, use) ==
  (IF d.enable_global_predicate_nodes THEN <<PredicateKey(use)>> ELSE <<>>)
    \o (IF Nullary(use.atom) THEN <<AtomKey(use)>>
        ELSE FlattenSeq([i \in DOMAIN ArgumentsOf(use) |->
               <<ObjectKey(ArgumentsOf(use)[i]), ItemAt(d, use, i)>>]))

ColorUses(d, use) ==
  LET drawn == SelfEdge(d, use) \o AtomEdges(d, use)
  IN  IF Nullary(use.atom) /\ ~d.edge_features THEN <<AtomKey(use)>>
      ELSE [k \in DOMAIN drawn |-> drawn[k].color]

(***************************************************************************)
(* encode_impl: facts by category, static ones first, then goals.          *)
(***************************************************************************)
FactUses(atoms) ==
  [k \in DOMAIN atoms |-> [atom |-> atoms[k], level |-> -1, positive |-> TRUE]]

GoalUses(goals) ==
  [k \in DOMAIN goals |-> [atom     |-> goals[k].literal.atom,
                           level    |-> goals[k].level,
                           positive |-> goals[k].literal.positive]]

OfCategory(atoms, category) == SelectSeq(atoms, LAMBDA atom : CategoryOf(atom) = category)

Uses(lanes) ==
  FactUses(FlattenSeq([k \in DOMAIN Categories |->
             OfCategory(Ordered(lanes.static), Categories[k])
               \o OfCategory(Ordered(lanes.facts), Categories[k])]))
    \o GoalUses(ByCategory(SortedGoals(lanes.goals)))

\* A predicate gets one self edge per name.
FirstUse(named, uses, n) ==
  \A m \in 1..(n - 1) : named[PredicateKey(uses[m])] # named[PredicateKey(uses[n])]

EdgesOfUse(d, named, uses, n) ==
  (IF FirstUse(named, uses, n) THEN SelfEdge(d, uses[n]) ELSE <<>>) \o AtomEdges(d, uses[n])

DrawnEdges(d, named, uses) == FlattenSeq([n \in DOMAIN uses |-> EdgesOfUse(d, named, uses, n)])

Identities(named, keys) == [k \in DOMAIN keys |-> named[keys[k]]]

EdgeNumbers(d, named, nodes, colors, e) ==
  <<At(nodes, named[e.from]) - 1, At(nodes, named[e.to]) - 1,
    IF d.edge_features THEN At(colors, named[e.color]) ELSE 0>>

ColorGraphOf(d, named, edges, nodes, colors) ==
  [nodes |-> [n \in DOMAIN nodes |->
                IF ~d.edge_features /\ nodes[n] \in ToSet(colors) THEN At(colors, nodes[n]) ELSE 0],
   edges |-> [k \in DOMAIN edges |-> EdgeNumbers(d, named, nodes, colors, edges[k])]]

ColorDraw(d, named, uses, touched, asked) ==
  ColorGraphOf(d, named, DrawnEdges(d, named, uses), PoolOf(Identities(named, touched)),
               PoolOf(Identities(named, asked)))

TouchedKeys(d, uses) == FlattenSeq([n \in DOMAIN uses |-> NodeUses(d, uses[n])])

AskedKeys(d, uses) == FlattenSeq([n \in DOMAIN uses |-> ColorUses(d, uses[n])])

KeysIn(d, uses) ==
  ToSet(TouchedKeys(d, uses)) \cup ToSet(AskedKeys(d, uses))
    \cup {PredicateKey(use) : use \in ToSet(uses)}

ColorRefused(lanes) == lanes.actions # <<>> \/ lanes.layers > 3

NamedDraw(d, uses) ==
  ColorDraw(d, [key \in KeysIn(d, uses) |-> NameOf(key)], uses, TouchedKeys(d, uses),
            AskedKeys(d, uses))

CompactDraw(d, uses) ==
  ColorDraw(d, [key \in KeysIn(d, uses) |-> key], uses, TouchedKeys(d, uses),
            AskedKeys(d, uses))

ColorEncode(d, lanes) ==
  IF d.export_node_names THEN NamedDraw(d, Uses(lanes)) ELSE CompactDraw(d, Uses(lanes))
=============================================================================
