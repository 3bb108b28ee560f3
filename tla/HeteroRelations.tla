---------------------------- MODULE HeteroRelations ----------------------------
(***************************************************************************)
(* The relation types of the heterogeneous encoders.  A type is a node     *)
(* type of the graph; its name is put together from the parts that         *)
(* RelationKey holds, and the parts are kept apart here:                   *)
(*   <<polarity, base, modifier, goal level, derivation, anchor>>          *)
(* An encoder declares the types it may emit with their arities, when it   *)
(* is made; update_relations replaces the declaration.                     *)
(***************************************************************************)
EXTENDS PlanningInputs

GoalSuffixes == <<"[g]", "[sg]", "[ssg]", "[sssg]">>

Derivations == {"[sat]", "[unsat]", "[sat+]", "[sat-]"}

Sources == {"goals", "subgoals", "actions", "history", "states"}

Polarity(positive) == IF positive THEN "[+]" ELSE "[-]"

\* format_relation_name of the keys the encoders build.
StateRelation(p) == <<"", p, "", "", "", "">>

SuffixedRelation(p, suffix) == <<"", p, suffix, "", "", "">>

LiteralUnder(p, positive, derivation) == <<Polarity(positive), p, "", "", derivation, "">>

LiteralRelation(p, positive) == LiteralUnder(p, positive, "")

DeltaRelation(p, positive, suffix) == <<Polarity(positive), p, suffix, "", "", "">>

GoalRelation(literal, level, suffix, derivation) ==
  <<Polarity(literal.positive), literal.atom.predicate, suffix, GoalSuffixes[level + 1],
    derivation, "">>

GoalOf(p, positive, level, derivation) ==
  GoalRelation(Literal(Atom(p, <<>>), positive), level, "", derivation)

ActionRelation(schema) == <<"", schema, "", "", "", "">>

Anchored(relation) == [relation EXCEPT ![6] = "[state]"]

(***************************************************************************)
(* A declaration: a set of pairs of a type and its arity.  c is the        *)
(* encoder's configuration.                                                *)
(***************************************************************************)
\* Predicates that would clash with types of the graph have no goal types.
Regular == Predicates \ {"object", "number", "_symbol_", "_action_"}

GoalLevels(c) == 0..c.max_goal_level

HasTarget(c, source) == source \in c.target_sources

HasAnchor(c, source) ==
  \/ HasTarget(c, source)
  \/ c.include_lgan_edges /\ source \in c.anchor_sources

GoalTypes(c, derivation) ==
  {<<GoalOf(p, positive, level, derivation), Arity[p]>> :
     p \in Regular, positive \in BOOLEAN, level \in GoalLevels(c)}

\* Literal types without a level, with the derivation or without.
LiteralTypes(c, derivation) ==
  IF c.support_literals
  THEN {<<LiteralUnder(p, positive, derivation), Arity[p]>> :
          p \in Regular, positive \in BOOLEAN}
  ELSE {}

ActionOffset(c) == IF HasTarget(c, "actions") \/ c.include_lgan_edges THEN 1 ELSE 0

ActionTypes(c, offset) ==
  IF c.ignore_actions THEN {}
  ELSE {<<ActionRelation(schema), SchemaArity[schema] + offset>> : schema \in Schemas}

\* The satisfaction derivations that are configured.
Satisfactions(c) == c.derivations \cap Derivations

\* build_relation_arities
RelationArities(c) ==
  {<<StateRelation(p), Arity[p]>> : p \in Predicates}
  \cup (IF "plain" \in c.derivations THEN GoalTypes(c, "") \cup LiteralTypes(c, "") ELSE {})
  \cup (UNION {GoalTypes(c, derivation) \cup LiteralTypes(c, derivation) :
                 derivation \in Satisfactions(c)})
  \cup ActionTypes(c, ActionOffset(c))

(***************************************************************************)
(* The Horizon encoder declares its own.  Relations of the root have a     *)
(* slot for the root's symbol unless the root is excluded; then relations  *)
(* of other states are types of their own, and have the slot.              *)
(***************************************************************************)
RootInStateRelations(c) == c.root_policy # "exclude"

RootInTargets(c) == c.root_policy = "include"

Split(c) == c.mode = "full" /\ c.root_policy = "exclude"

Widened(types, by) == {<<type[1], type[2] + by>> : type \in types}

RootTypes(c, types) == Widened(types, IF RootInStateRelations(c) THEN 1 ELSE 0)

FullTypes(c, types) ==
  RootTypes(c, types)
  \cup (IF Split(c) THEN {<<Anchored(type[1]), type[2] + 1>> : type \in types} ELSE {})

TopologyTypes(c) ==
  {<<StateRelation(name), 2>> : name \in c.topology}

\* configure_horizon
HorizonArities(c) ==
  FullTypes(c, {<<StateRelation(p), Arity[p]>> : p \in Predicates})
  \cup (IF "plain" \in c.derivations THEN RootTypes(c, GoalTypes(c, "")) ELSE {})
  \cup (IF c.mode = "delta" THEN Widened(LiteralTypes(c, ""), 1)
                            ELSE RootTypes(c, LiteralTypes(c, "")))
  \cup (UNION {FullTypes(c, GoalTypes(c, derivation)) :
                 derivation \in c.derivations \cap {"[sat]", "[unsat]"}})
  \cup (IF c.mode = "delta"
        THEN UNION {Widened(GoalTypes(c, derivation), 1) :
                      derivation \in c.derivations \cap {"[sat+]", "[sat-]"}}
        ELSE {})
  \cup ActionTypes(c, 1)
  \cup TopologyTypes(c)

(***************************************************************************)
(* validate_schema and the builder: a type has one arity and one name.     *)
(***************************************************************************)
SchemaAccepted == Predicates \cap Schemas = {}

ConfigAccepted(c) == c.max_goal_level < Len(GoalSuffixes)

\* update_relations takes any table with names and without negative arities.
UpdateAccepted(arities) == \A entry \in arities : entry[1] # "" /\ entry[2] >= 0

Declared(arities, type) == \E entry \in arities : entry[1] = type

ArityOf(arities, type) == (CHOOSE entry \in arities : entry[1] = type)[2]

(***************************************************************************)
(* all_edge_types: the empty edge types a batch carries, by position; a    *)
(* nullary relation has a position when nullary predicates are connected.  *)
(***************************************************************************)
Slots(c, arity) == IF c.add_nullary_predicates /\ arity = 0 THEN 1 ELSE arity

AllEdgeTypes(c, arities) ==
  UNION {{<<entry[1], position>> : position \in 0..(Slots(c, entry[2]) - 1)} : entry \in arities}
=============================================================================
