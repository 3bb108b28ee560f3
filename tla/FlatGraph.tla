------------------------------- MODULE FlatGraph -------------------------------
(***************************************************************************)
(* The flat encoders: a graph has one table of entities and lists of       *)
(* tuples over it, one list per relation.  The relation schema says what   *)
(* each slot of a tuple stands for: auxiliary entities first, then the     *)
(* node of the predicate, then the arguments as written.  Relations are    *)
(* keyed like the types of the heterogeneous encoders.                     *)
(*                                                                         *)
(* SemanticFlatRelationEncoderEngine encodes a state in two steps.         *)
(* Preparation plans the entity table: every row that a tuple will refer   *)
(* to must be in it, because the rows are handed to the builder before the *)
(* first tuple is emitted.  Then the lanes are emitted.  A row of the      *)
(* table is known here by what it stands for; its index is its position.   *)
(***************************************************************************)
EXTENDS HeteroRelations

TopTypes == {"object", "number", "symbol", "_action_"}

Ignored(c, arity) == c.ignore_zero_arity_relations /\ arity = 0

Kept(c, atom) == ~Ignored(c, Arity[atom.predicate])

HistoryRelation(p, positive) == DeltaRelation(p, positive, "[hist]")

(***************************************************************************)
(* Layouts.                                                                *)
(***************************************************************************)
Layout(auxiliary, predicate, arguments) ==
  [auxiliary |-> auxiliary, predicate |-> predicate, arguments |-> arguments]

EncodedArity(layout) ==
  Len(layout.auxiliary) + (IF layout.predicate THEN 1 ELSE 0) + layout.arguments

\* slot_role_ids
SlotRoles(layout) ==
  layout.auxiliary
    \o (IF layout.predicate THEN <<"predicate">> ELSE <<>>)
    \o [i \in 1..layout.arguments |-> "argument"]

\* Mutant: the node of the predicate in front of the auxiliary slots.
TuplePredicateFirst(auxiliary, predicate, arguments) == predicate \o auxiliary \o arguments

\* build_flat_tuple_args
Tuple(auxiliary, predicate, arguments) == auxiliary \o predicate \o arguments

SlotOf(source) ==
  CASE source = "goals"    -> "goal_target"
    [] source = "subgoals" -> "subgoal_target"
    [] source = "history"  -> "history_target"
    [] source = "actions"  -> "action"
    [] source = "states"   -> "state"

\* source_for_goal_level
LevelSource(level) == IF level > 0 THEN "subgoals" ELSE "goals"

GoalSlots(c, level) ==
  IF HasAnchor(c, LevelSource(level)) THEN <<SlotOf(LevelSource(level))>> ELSE <<>>

HistorySlots(c) ==
  (IF HasAnchor(c, "history") THEN <<"history_target">> ELSE <<>>) \o <<"history">>

(***************************************************************************)
(* register_relation: an entry holds a key, its layout and its usage.  One *)
(* key cannot have two entries.                                            *)
(***************************************************************************)
Entries(c, keyed, slots, usage) ==
  {[key    |-> k[1],
    layout |-> Layout(slots, c.use_predicate_virtual_nodes, Arity[k[2]]),
    usage  |-> usage] : k \in keyed}

StateKeys(preds) == {<<StateRelation(p), p>> : p \in preds}

GoalKeys(preds, level, derivation) ==
  {<<GoalOf(p, positive, level, derivation), p>> : p \in preds, positive \in BOOLEAN}

LiteralKeys(c, preds, derivation) ==
  IF c.support_literals
  THEN {<<LiteralUnder(p, positive, derivation), p>> :
          p \in preds, positive \in BOOLEAN}
  ELSE {}

HistoryKeys(preds) == {<<HistoryRelation(p, positive), p>> : p \in preds, positive \in BOOLEAN}

ActionEntriesOf(slot) ==
  {[key    |-> ActionRelation(schema),
    layout |-> Layout(<<slot>>, FALSE, SchemaArity[schema]),
    usage  |-> "action"] : schema \in Schemas}

\* build_schema
FlatSchema(c) ==
  LET kept    == {p \in Predicates : ~Ignored(c, Arity[p])}
      regular == kept \ TopTypes
      derived(derivation) ==
        (UNION {GoalKeys(regular, level, derivation) : level \in GoalLevels(c)})
          \cup LiteralKeys(c, regular, derivation)
  IN  Entries(c, StateKeys(kept), <<>>, "state")
      \cup (IF "plain" \in c.derivations
            THEN (UNION {Entries(c, GoalKeys(regular, level, ""), GoalSlots(c, level), "goal") :
                           level \in GoalLevels(c)})
                 \cup Entries(c, LiteralKeys(c, regular, ""), GoalSlots(c, 0), "goal")
            ELSE {})
      \cup (UNION {Entries(c, derived(derivation), <<>>, "goal_derivation") :
                     derivation \in c.derivations \ {"plain"}})
      \cup Entries(c, HistoryKeys(kept), HistorySlots(c), "history")
      \cup ActionEntriesOf("action")

(***************************************************************************)
(* configure_horizon: the state's own slot in front of what is said of a   *)
(* state other than the root; the root has it too unless it is excluded,   *)
(* and then the relations of other states have keys of their own.          *)
(***************************************************************************)
RootSlots(c) == IF RootInStateRelations(c) THEN <<"state">> ELSE <<>>

RootEntries(c, keyed, usage) == Entries(c, keyed, RootSlots(c), usage)

CandidateEntries(c, keyed, usage) == Entries(c, keyed, <<"state">>, usage)

FullEntries(c, keyed, usage) ==
  RootEntries(c, keyed, usage)
  \cup (IF Split(c)
        THEN CandidateEntries(c, {<<Anchored(k[1]), k[2]>> : k \in keyed}, usage)
        ELSE {})

AllGoalKeys(c, derivation) ==
  UNION {GoalKeys(Predicates \ TopTypes, level, derivation) : level \in GoalLevels(c)}

FlatHorizonSchema(c) ==
  LET regular == Predicates \ TopTypes
      satisfactions(derivation) ==
        AllGoalKeys(c, derivation) \cup LiteralKeys(c, regular, derivation)
  IN  FullEntries(c, StateKeys(Predicates), "state")
      \cup (IF "plain" \in c.derivations
            THEN RootEntries(c, AllGoalKeys(c, ""), "goal") ELSE {})
      \cup (IF c.mode = "delta"
            THEN CandidateEntries(c, LiteralKeys(c, regular, ""), "state")
            ELSE RootEntries(c, LiteralKeys(c, regular, ""), "state"))
      \cup (UNION {FullEntries(c, satisfactions(derivation), "goal_satisfaction") :
                     derivation \in c.derivations \cap {"[sat]", "[unsat]"}})
      \cup (IF c.mode = "delta"
            THEN UNION {CandidateEntries(c, satisfactions(derivation), "goal_satisfaction") :
                          derivation \in c.derivations \cap {"[sat+]", "[sat-]"}}
            ELSE {})
      \cup (IF c.ignore_actions THEN {} ELSE ActionEntriesOf("state"))
      \cup {[key    |-> StateRelation(name),
             layout |-> Layout(<<"state", "state">>, FALSE, 0),
             usage  |-> name] : name \in c.topology}

\* finalize: no key twice, and no two keys of one name.
SchemaConsistent(schema) == \A e, f \in schema : e.key = f.key => e = f

\* Ids follow the order of the names; any fixed order stands for it.
RelationIds(schema) == Ordered({e.key : e \in schema})

LayoutOf(schema, key) == (CHOOSE e \in schema : e.key = key).layout

\* FlatGraphContext::emit refuses a tuple of another arity, and a disabled relation.
RowAccepted(schema, row) ==
  \E e \in schema : e.key = row.key /\ EncodedArity(e.layout) = Len(row.args)

(***************************************************************************)
(* validate_config of the two encoders.                                    *)
(***************************************************************************)
FlatConfigAccepted(c) ==
  /\ c.max_goal_level < Len(GoalSuffixes)
  /\ c.target_sources \cup c.anchor_sources \subseteq {"goals", "subgoals", "actions", "history"}
  /\ c.derivations \subseteq {"plain", "[sat]", "[unsat]"}

\* base_config and normalize_config: what the Horizon encoder runs on.
FlatHorizonConfig(c) ==
  [c EXCEPT !.target_sources = {}, !.anchor_sources = {},
            !.support_literals = @ \/ c.mode = "delta"]

FlatHorizonAccepted(c) ==
  /\ c.max_goal_level < Len(GoalSuffixes)
  /\ ~(c.mode = "action" /\ c.ignore_actions)

-----------------------------------------------------------------------------
(* Entities and tuples.                                                    *)

ObjectRow(o) == <<"object", o>>

PredicateRow(p) == <<"predicate", p>>

GoalRow(literal, level) == <<"goal", LevelSource(level), literal, level>>

ActionRow(action) == <<"action", action>>

HistoryRow(dt, i) == <<"history", dt, i>>

HistoryTargetRow(dt, i, literal) == <<"history_target", dt, i, literal>>

(***************************************************************************)
(* Preparation: make_context and prepare_source.                           *)
(***************************************************************************)
RecentHistory(lanes) == OrderedHistory(lanes.history, lanes.max_steps)

\* Goals that are anchored, the goals first and then the subgoals.
AnchoredGoals(c, lanes) ==
  LET goals == ByCategory(lanes.goals)
      of(source) == Chosen(goals, {i \in DOMAIN goals : /\ Kept(c, goals[i].literal.atom)
                                                        /\ LevelSource(goals[i].level) = source
                                                        /\ HasAnchor(c, source)})
  IN  of("goals") \o of("subgoals")

RowsOfGoals(goals) == [i \in DOMAIN goals |-> GoalRow(goals[i].literal, goals[i].level)]

GoalRows(c, lanes) == RowsOfGoals(AnchoredGoals(c, lanes))

ActionRows(lanes) == [i \in DOMAIN lanes.actions |-> ActionRow(lanes.actions[i])]

HistoryRows(recent) == [i \in DOMAIN recent |-> HistoryRow(recent[i].dt, i)]

\* The literals of the history with the entry each is in.
KeptLiterals(c, literals) ==
  Chosen(literals, {k \in DOMAIN literals : Kept(c, literals[k].atom)})

HistoryLiterals(c, recent) ==
  FlattenSeq([i \in DOMAIN recent |->
    InEntry(KeptLiterals(c, recent[i].literals), recent[i].dt, i)])

SaidLiterals(c, lanes) == HistoryLiterals(c, RecentHistory(lanes))

HistoryTargetRows(c, said) ==
  IF HasAnchor(c, "history")
  THEN [n \in DOMAIN said |-> HistoryTargetRow(said[n].dt, said[n].entry, said[n].literal)]
  ELSE <<>>

Membership(lanes) == lanes.static \cup lanes.facts

FactEmitted(c, atom) ==
  /\ CategoryOf(atom) = "static" => c.include_static
  /\ Kept(c, atom)

\* The derivations a goal is emitted with.
EmittedDerivations(c, facts, literal) ==
  c.derivations \cap
    {"plain", IF (literal.atom \in facts) = literal.positive THEN "[sat]" ELSE "[unsat]"}

GoalConsidered(c, literal) ==
  literal.atom.predicate \notin TopTypes /\ Kept(c, literal.atom)

FactsToEmit(c, facts) == Ordered({atom \in facts : FactEmitted(c, atom)})

ConsideredGoals(c, lanes) ==
  LET goals == ByCategory(lanes.goals)
  IN  Chosen(goals, {i \in DOMAIN goals : GoalConsidered(c, goals[i].literal)})

PredicatesOf(facts) == [i \in DOMAIN facts |-> facts[i].predicate]

PredicatesIn(said) == [i \in DOMAIN said |-> said[i].literal.atom.predicate]

\* The goals that are emitted with some derivation.
EmittedGoals(c, lanes) ==
  LET goals == ConsideredGoals(c, lanes)
  IN  Chosen(goals, {i \in DOMAIN goals :
                       EmittedDerivations(c, Membership(lanes), goals[i].literal) # {}})

FactPredicates(c, lanes) ==
  PredicatesOf(FactsToEmit(c, lanes.static) \o FactsToEmit(c, lanes.facts))

\* Mutant: predicates met in the facts only.
PredicateUsesOfFacts(c, lanes) == FactPredicates(c, lanes)

\* The predicates that prepare_source meets, in its order.
PredicateUses(c, lanes) ==
  FactPredicates(c, lanes)
    \o PredicatesIn(EmittedGoals(c, lanes))
    \o PredicatesIn(SaidLiterals(c, lanes))

PredicateRows(c, uses) ==
  IF c.use_predicate_virtual_nodes
  THEN [i \in DOMAIN uses |-> PredicateRow(uses[i])]
  ELSE <<>>

ObjectRows(objects) ==
  LET ordered == Ordered(objects) IN [i \in DOMAIN ordered |-> ObjectRow(ordered[i])]

\* entity_names: a row is made at its first use.
Entities(c, lanes) ==
  PoolOf(ObjectRows(lanes.objects)
           \o GoalRows(c, lanes) \o ActionRows(lanes)
           \o HistoryRows(RecentHistory(lanes))
           \o HistoryTargetRows(c, SaidLiterals(c, lanes))
           \o PredicateRows(c, PredicateUses(c, lanes)))

\* target_entity_indices: the rows that LGAN starts from.
TargetEntities(c, lanes) ==
  PoolOf(GoalRows(c, lanes) \o ActionRows(lanes) \o HistoryTargetRows(c, SaidLiterals(c, lanes)))

\* append_target_row: a row per occurrence, of the sources that are targets.
GoalTargetRows(rows) == [i \in DOMAIN rows |-> [symbol |-> rows[i], group |-> rows[i][2]]]

GroupRows(c, rows, group) ==
  IF HasTarget(c, group) THEN [i \in DOMAIN rows |-> [symbol |-> rows[i], group |-> group]]
  ELSE <<>>

TargetsAmong(c, rows) == Chosen(rows, {i \in DOMAIN rows : HasTarget(c, rows[i][2])})

FlatTargets(c, lanes) ==
  GoalTargetRows(TargetsAmong(c, GoalRows(c, lanes)))
    \o GroupRows(c, ActionRows(lanes), "actions")
    \o GroupRows(c, HistoryTargetRows(c, SaidLiterals(c, lanes)), "history")

FlatRefused(c, lanes) ==
  \/ ~ValidLanes(lanes)
  \/ lanes.layers > c.max_goal_level
  \/ c.include_lgan_edges /\ TargetEntities(c, lanes) = <<>>

(***************************************************************************)
(* Emission: emit_relation_lane.  A tuple is [key, args].                  *)
(***************************************************************************)
Row(key, args) == [key |-> key, args |-> args]

ArgumentRows(arguments) == [i \in DOMAIN arguments |-> ObjectRow(arguments[i])]

\* tuple_args
AtomRow(c, key, atom, auxiliary) ==
  Row(key, Tuple(auxiliary,
                 IF c.use_predicate_virtual_nodes THEN <<PredicateRow(atom.predicate)>> ELSE <<>>,
                 ArgumentRows(atom.arguments)))

FactTuples(c, facts) ==
  LET emitted == FactsToEmit(c, facts)
  IN  [i \in DOMAIN emitted |->
         AtomRow(c, StateRelation(emitted[i].predicate), emitted[i], <<>>)]

PlainGoal(c, goal) ==
  AtomRow(c, GoalRelation(goal.literal, goal.level, "", ""), goal.literal.atom,
          IF HasAnchor(c, LevelSource(goal.level))
          THEN <<GoalRow(goal.literal, goal.level)>> ELSE <<>>)

DerivedGoal(c, goal, derivation) ==
  AtomRow(c, GoalRelation(goal.literal, goal.level, "", derivation), goal.literal.atom, <<>>)

GoalTuplesOf(c, goal, emitted) ==
  LET others == Ordered(emitted \ {"plain"})
  IN  (IF "plain" \in emitted THEN <<PlainGoal(c, goal)>> ELSE <<>>)
        \o [k \in DOMAIN others |-> DerivedGoal(c, goal, others[k])]

GoalTuples(c, lanes) ==
  LET goals == ConsideredGoals(c, lanes)
  IN  FlattenSeq([i \in DOMAIN goals |->
        GoalTuplesOf(c, goals[i], EmittedDerivations(c, Membership(lanes), goals[i].literal))])

ActionTuple(entity, action) ==
  Row(ActionRelation(action.action), <<entity>> \o ArgumentRows(action.arguments))

\* Each action once, however often it was given.
ActionTuples(lanes) ==
  LET unique == PoolOf(lanes.actions)
  IN  [i \in DOMAIN unique |-> ActionTuple(ActionRow(unique[i]), unique[i])]

HistoryTuple(c, occurrence, literal) ==
  AtomRow(c, HistoryRelation(literal.atom.predicate, literal.positive), literal.atom,
          (IF HasAnchor(c, "history")
           THEN <<HistoryTargetRow(occurrence.dt, occurrence.entry, literal)>>
           ELSE <<>>)
            \o <<HistoryRow(occurrence.dt, occurrence.entry)>>)

HistoryTuples(c, said) == [n \in DOMAIN said |-> HistoryTuple(c, said[n], said[n].literal)]

FlatTuples(c, lanes) ==
  FactTuples(c, lanes.static) \o FactTuples(c, lanes.facts)
    \o GoalTuples(c, lanes) \o ActionTuples(lanes) \o HistoryTuples(c, SaidLiterals(c, lanes))

FlatEncode(c, lanes) ==
  [entities |-> Entities(c, lanes),
   tuples   |-> FlatTuples(c, lanes),
   anchors  |-> TargetEntities(c, lanes),
   targets  |-> FlatTargets(c, lanes)]

(***************************************************************************)
(* build_flat_lgan: what is near an anchor.  Tuples are named by their     *)
(* position; TN are the tuples at an anchor, NN those that lie within the  *)
(* entities of TN, and RR joins near tuples that share an entity.          *)
(***************************************************************************)
EntitiesAt(tuples, n) == ToSet(tuples[n].args)

TouchingFlat(tuples, entity) == {n \in DOMAIN tuples : entity \in EntitiesAt(tuples, n)}

NearbyEntities(tuples, anchor) ==
  UNION {EntitiesAt(tuples, n) : n \in TouchingFlat(tuples, anchor)}

\* A tuple is a candidate if it has an entity there, and near if it has no other.
NearTuples(tuples, anchor) ==
  LET nearby == NearbyEntities(tuples, anchor)
  IN  {n \in DOMAIN tuples : EntitiesAt(tuples, n) # {} /\ EntitiesAt(tuples, n) \subseteq nearby}

FlatLgan(tuples, anchors) ==
  LET starts == ToSet(anchors)
      near   == [anchor \in starts |-> NearTuples(tuples, anchor)]
      tn     == [anchor \in starts |-> TouchingFlat(tuples, anchor)]
  IN  [tn |-> UNION {{<<n, anchor>> : n \in tn[anchor]} : anchor \in starts},
       nn |-> UNION {{<<n, anchor>> : n \in near[anchor] \ tn[anchor]} : anchor \in starts},
       rr |-> UNION {{pair \in near[anchor] \X near[anchor] :
                        /\ pair[1] # pair[2]
                        /\ EntitiesAt(tuples, pair[1]) \cap EntitiesAt(tuples, pair[2]) # {}} :
                     anchor \in starts}]
================================================================================
