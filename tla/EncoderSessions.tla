---------------------------- MODULE EncoderSessions ----------------------------
(***************************************************************************)
(* The encoders at work.  A session is what one caller does with one       *)
(* encoder, and there are six kinds of them:                               *)
(*   "encoding"   a planner acts, sets subgoals and offers actions; the    *)
(*                state it is in can be encoded at any time, from the      *)
(*                owned input or from views, hetero and flat               *)
(*   "searching"  a lookahead dag grows from the root and is encoded       *)
(*   "appending"  states go into the append-only stream, whose relations   *)
(*                may be updated in between                                *)
(*   "composing"  a flat encoder is put together from components and       *)
(*                given relation records                                   *)
(*   "batching"   a call of encode_batch is put together                   *)
(*   "collating"  attributes are set on single encodings, which            *)
(*                batch_encodings then puts together                       *)
(* Encoding is a pure function, so an encoding is no variable: properties  *)
(* speak of what encoding the present input gives.                         *)
(***************************************************************************)
EXTENDS HorizonGraphs, DerivedBatch, ColorGraph, FlatComposition, BatchCalls

CONSTANTS Start,           \* the owned input that a session begins with
          Moves,           \* ground actions of the planner
          Result(_, _),    \* the dynamic facts after an action
          Subgoals,        \* sequences of layers that callers set
          Offers,          \* sequences of applicable actions
          Notes,           \* what callers say of a successor: [id, delta]
          Inputs,          \* owned inputs that are appended
          Tables(_),       \* tables given to update_relations
          EncodingConfigs, SearchConfigs, AppendConfigs,
          Components,      \* components of a composition
          RelationRecords, \* and the records given to it
          Given,           \* its inputs but for the records
          PartialCalls,    \* calls of encode_batch to begin with
          BatchArgument(_), \* and what is given for one more of their fields
          Shelves,         \* sequences of encodings of single graphs
          AttributeKeys, AttributeValues(_), \* what is set on them
          CollateSpecs,    \* the specs that they may be collated with
          MaxHistory, MaxTransitions, MaxAppends, MaxComponents, MaxRecords, MaxChanges

ASSUME SlotsInSequence ==
  \A component \in Components : \A projection \in ToSet(component.projections) :
    projection.slots \in Seq(ToSet(projection.slots))

ASSUME DomainGiven == SchemaAccepted /\ IsFiniteSet(Predicates) /\ IsFiniteSet(Schemas)

\* What the types of the code say of an input and of a config.
ASSUME InputsOwned == \A in \in Inputs \cup {Start} : IsOwnedInput(in)

OwnedFields ==
  {"objects", "static", "facts", "layers", "use_default_goals", "default_goals", "actions",
   "history", "max_steps"}

\* What a state of the planner may hold: ground atoms of the predicates that are not static.
GroundAtoms ==
  UNION {{Atom(p, arguments) : arguments \in [1..Arity[p] -> Start.objects]} :
           p \in {q \in Predicates : Category[q] # "static"}}

IsPast(history) ==
  \A entry \in ToSet(history) :
    entry.dt < 0 /\ \A literal \in ToSet(entry.literals) : literal.atom \in GroundAtoms

AreOffered(actions) ==
  AreActions(actions) /\ \A action \in ToSet(actions) : ToSet(action.arguments) \subseteq Start.objects

\* A planner goes from state to state and offers actions on its objects, and callers
\* set layers as typed.
ASSUME PlannerGiven ==
  /\ DOMAIN Start = OwnedFields /\ Start.facts \subseteq GroundAtoms /\ IsPast(Start.history)
  /\ AreOffered(Start.actions)
  /\ \A facts \in SUBSET GroundAtoms : \A action \in Moves :
       Result(facts, action) \subseteq GroundAtoms /\ IsFiniteSet(Result(facts, action))
  /\ \A layers \in Subgoals : AreLayers(layers)
  /\ \A actions \in Offers : AreOffered(actions)

ASSUME EncodersMade ==
  \A config \in EncodingConfigs \cup AppendConfigs :
    /\ FlatConfigAccepted(config) /\ config.max_goal_level \in Nat
    /\ config.use_predicate_virtual_nodes \in BOOLEAN
    /\ {"atom_expansion", "include_reverse_edges"} \subseteq DOMAIN config
    /\ config.atom_expansion \in Expansions /\ config.spd_max_hops \in Nat

ASSUME RecordsGiven ==
  \A given \in Given : "relations" \in DOMAIN given /\ given.relations \in Seq(RelationRecords)

VARIABLES caller,    \* the kind of session
          c,         \* the encoder's configuration
          root,      \* the owned input
          dag,       \* the lookahead dag
          arities,   \* the declared relations
          stream,    \* the append-only stream
          log,       \* history: the appends since the last flush
          plan,      \* the components added
          compiled,  \* compile has returned
          input      \* the input of the composition, the arguments collected, or
                     \* the encodings to collate

vars == <<caller, c, root, dag, arities, stream, log, plan, compiled, input>>

Pyg == INSTANCE PygExport

Drawable(configs) == {config \in configs : DerivedConfigAccepted(config)}

Sessions ==
  {<<"encoding", config>> : config \in Drawable(EncodingConfigs)}
    \cup {<<"searching", config>> : config \in SearchConfigs}
    \cup {<<"appending", config>> : config \in Drawable(AppendConfigs)}
    \cup {<<"composing", [PlanConfig EXCEPT !.policy = policy]>> :
            policy \in {"unique_owner", "broadcast"}}
    \cup {<<"batching", PlanConfig>>, <<"collating", PlanConfig>>}

Init ==
  /\ \E session \in Sessions : caller = session[1] /\ c = session[2]
  /\ root = Start
  /\ dag = NewDag(Start)
  /\ arities = IF caller = "encoding" \/ caller = "appending" THEN RelationArities(c)
               ELSE IF caller = "searching" THEN HorizonArities(c) ELSE {}
  /\ stream = EmptyStream
  /\ log = <<>>
  /\ plan = <<>>
  /\ compiled = FALSE
  /\ input \in IF caller = "composing" THEN Given
               ELSE IF caller = "batching" THEN PartialCalls
               ELSE IF caller = "collating" THEN Shelves ELSE {<<>>}

(***************************************************************************)
(* Encoding.  An action adds its effects to the history, all else ages.    *)
(***************************************************************************)
EffectsOf(before, after) ==
  LET added   == Ordered(Dynamic(after) \ Dynamic(before))
      removed == Ordered(Dynamic(before) \ Dynamic(after))
  IN  [k \in DOMAIN added |-> Literal(added[k], TRUE)]
        \o [k \in DOMAIN removed |-> Literal(removed[k], FALSE)]

Aged(history) == [i \in DOMAIN history |-> [history[i] EXCEPT !.dt = @ - 1]]

Act(action) ==
  /\ caller = "encoding"
  /\ Len(root.history) < MaxHistory
  /\ LET after == Result(root.facts, action)
     IN  root' = [root EXCEPT
           !.facts   = after,
           !.history = Append(Aged(@), [dt |-> -1, literals |-> EffectsOf(root.facts, after)])]
  /\ UNCHANGED <<caller, c, dag, arities, stream, log, plan, compiled, input>>

SetSubgoals(layers) ==
  /\ caller = "encoding"
  /\ root.layers # layers
  /\ root' = [root EXCEPT !.layers = layers]
  /\ UNCHANGED <<caller, c, dag, arities, stream, log, plan, compiled, input>>

OfferActions(actions) ==
  /\ caller = "encoding"
  /\ root.actions # actions
  /\ root' = [root EXCEPT !.actions = actions]
  /\ UNCHANGED <<caller, c, dag, arities, stream, log, plan, compiled, input>>

(***************************************************************************)
(* Searching: register_transition, for the successor of a node of the dag. *)
(***************************************************************************)
Transition(i, action, note) ==
  [parent |-> dag.nodes[i].state,
   child  |-> [dag.nodes[i].state EXCEPT !.facts = Result(@, action)],
   labels |-> [action |-> action, candidate_id |-> note.id, delta |-> note.delta]]

Expand(i, action, note) ==
  LET r == Transition(i, action, note)
  IN  /\ caller = "searching"
      /\ Cardinality(Transitions(dag)) < MaxTransitions
      /\ index(dag, r.parent) = i
      /\ contains(dag, r.child) => index(dag, r.child) \notin Children(dag, i)
      /\ Registers(dag, r, TRUE)
      /\ dag' = Finalized(AfterRecord(dag, r, TRUE))
      /\ UNCHANGED <<caller, c, root, arities, stream, log, plan, compiled, input>>

(***************************************************************************)
(* Appending.  How an append ends is kept in the log.                      *)
(***************************************************************************)
Logged(in, outcome) == log' = Append(log, [input |-> in, outcome |-> outcome])

AppendReturns(in) ==
  /\ caller = "appending"
  /\ Len(log) < MaxAppends
  /\ AppendAccepted(c, arities, stream, OwnedLanes(in))
  /\ stream' = AfterAppend(c, arities, stream, OwnedLanes(in))
  /\ Logged(in, "returned")
  /\ UNCHANGED <<caller, c, root, dag, arities, plan, compiled, input>>

AppendRaises(in) ==
  /\ caller = "appending"
  /\ Len(log) < MaxAppends
  /\ ~AppendAccepted(c, arities, stream, OwnedLanes(in))
  /\ stream' = AfterRefusal(c, arities, stream, OwnedLanes(in))
  /\ Logged(in, IF InputRefused(c, OwnedLanes(in)) THEN "bad_input"
                ELSE IF ArityClash(stream, arities) THEN "clash" ELSE "torn")
  /\ UNCHANGED <<caller, c, root, dag, arities, plan, compiled, input>>

UpdateRelations(table) ==
  /\ caller = "appending"
  /\ UpdateAccepted(table)
  /\ arities # table
  /\ arities' = table
  /\ UNCHANGED <<caller, c, root, dag, stream, log, plan, compiled, input>>

Flush ==
  /\ caller = "appending"
  /\ stream # EmptyStream
  /\ stream' = EmptyStream
  /\ log' = <<>>
  /\ UNCHANGED <<caller, c, root, dag, arities, plan, compiled, input>>

(***************************************************************************)
(* Composing.                                                              *)
(***************************************************************************)
AddComponent(component) ==
  /\ caller = "composing"
  /\ ~compiled
  /\ Len(plan) < MaxComponents
  /\ component.name \notin Names(plan)
  /\ plan' = Append(plan, component)
  /\ UNCHANGED <<caller, c, root, dag, arities, stream, log, compiled, input>>

Compile ==
  /\ caller = "composing"
  /\ ~compiled
  /\ CompileAccepts(plan, c)
  /\ compiled' = TRUE
  /\ UNCHANGED <<caller, c, root, dag, arities, stream, log, plan, input>>

AddRecord(record) ==
  /\ caller = "composing"
  /\ compiled
  /\ Len(input.relations) < MaxRecords
  /\ input' = [input EXCEPT !.relations = Append(@, record)]
  /\ UNCHANGED <<caller, c, root, dag, arities, stream, log, plan, compiled>>

(***************************************************************************)
(* Batching.  One argument besides those that a call begins with is        *)
(* enough: what a reader makes of it depends on no other.                  *)
(***************************************************************************)
BatchFields == LaneFields \cup {"successors", "dags"}

OpenFields == IF caller = "batching" /\ input \in PartialCalls THEN BatchFields ELSE {}

Give(field) ==
  /\ input[field] = NotGiven
  /\ \E value \in BatchArgument(field) : input' = [input EXCEPT ![field] = value]
  /\ UNCHANGED <<caller, c, root, dag, arities, stream, log, plan, compiled>>

(***************************************************************************)
(* Collating.  __setattr__ of an encoding; and whoever reads the target    *)
(* names of one leaves them there in another form.                         *)
(***************************************************************************)
Changes(shelf) ==
  Pyg!Total([i \in DOMAIN shelf |-> Cardinality(DOMAIN shelf[i].attrs)])
    + Cardinality({i \in DOMAIN shelf : shelf[i].targets.attr # <<>>})

SetAttribute(i, key, value) ==
  /\ caller = "collating"
  /\ Changes(input) < MaxChanges
  /\ ~Pyg!Forbidden(input[i], key)
  /\ ~Pyg!Has(input[i], key)
  /\ input' = [input EXCEPT ![i].attrs = (key :> value) @@ @]
  /\ UNCHANGED <<caller, c, root, dag, arities, stream, log, plan, compiled>>

ReadTargetNames(i) ==
  /\ caller = "collating"
  /\ Changes(input) < MaxChanges
  /\ input[i].targets.strings # <<>> \/ input[i].targets.deferred # <<>>
  /\ input' = [input EXCEPT ![i].targets = Pyg!TargetsRead(@)]
  /\ UNCHANGED <<caller, c, root, dag, arities, stream, log, plan, compiled>>

Next ==
  \/ \E action \in Moves : Act(action)
  \/ \E layers \in Subgoals : SetSubgoals(layers)
  \/ \E actions \in Offers : OfferActions(actions)
  \/ \E i \in DOMAIN dag.nodes, action \in Moves, note \in Notes : Expand(i, action, note)
  \/ \E in \in Inputs : AppendReturns(in) \/ AppendRaises(in)
  \/ \E table \in IF caller = "appending" THEN Tables(c) ELSE {} : UpdateRelations(table)
  \/ Flush
  \/ \E component \in Components : AddComponent(component)
  \/ Compile
  \/ \E record \in RelationRecords : AddRecord(record)
  \/ \E field \in OpenFields : Give(field)
  \/ \E i \in IF caller = "collating" THEN DOMAIN input ELSE {} :
       \/ \E key \in AttributeKeys : \E value \in AttributeValues(key) : SetAttribute(i, key, value)
       \/ ReadTargetNames(i)

Spec == Init /\ [][Next]_vars

-----------------------------------------------------------------------------
(***************************************************************************)
(* Reading a graph.  What a graph says under a type is read off its wires: *)
(* the slots in front (anchors or states) and the arguments, each slot as  *)
(* the set of what is found there.                                         *)
(***************************************************************************)
Sole(slots) == [k \in DOMAIN slots |-> {slots[k]}]

WiresOf(entries, node) ==
  UNION {{<<k, e.at[k]>> : k \in DOMAIN e.at} : e \in {f \in entries : f.node = node}}

ArgumentSlots(type) ==
  IF type[2] \in Predicates THEN Max({1, Arity[type[2]]})
  ELSE IF type[2] \in Schemas THEN SchemaArity[type[2]] ELSE 0

OnSlot(wires, k) == {w[2] : w \in {v \in wires : v[1] = k}}

SlotsRead(wires, front, n) ==
  <<[k \in 1..front |-> OnSlot(wires, k)], [k \in 1..n |-> OnSlot(wires, front + k)]>>

HeteroReading(entries, type, front) ==
  {SlotsRead(WiresOf(entries, node), front, ArgumentSlots(type)) :
     node \in {n \in Nodes(entries) : n[1] = type}}

\* The slots of a tuple that have a role, by the schema.
InRole(roles, args, role) ==
  LET slots == SetToSortSeq({k \in DOMAIN roles : roles[k] = role}, <)
  IN  [k \in DOMAIN slots |-> {args[slots[k]]}]

RolesIn(schema, key) == SlotRoles(LayoutOf(schema, key))

RolesRead(roles, args, role) == <<InRole(roles, args, role), InRole(roles, args, "argument")>>

FlatReading(schema, tuples, key, role) ==
  {RolesRead(RolesIn(schema, key), tuples[n].args, role) :
     n \in {m \in DOMAIN tuples : tuples[m].key = key}}

Arguing(readings) == {reading[2] : reading \in readings}

(***************************************************************************)
(* What the input says, in so many words.                                  *)
(***************************************************************************)
SaidFacts(p) ==
  {atom \in root.facts \cup (IF c.include_static THEN root.static ELSE {}) : atom.predicate = p}

LastLayer(literal) ==
  LET layers == EffectiveLayers(root)
  IN  CHOOSE l \in DOMAIN layers :
        /\ literal \in ToSet(layers[l])
        /\ \A m \in DOMAIN layers : m > l => literal \notin ToSet(layers[m])

SaidGoals(p, positive, level) ==
  {literal \in UNION {ToSet(EffectiveLayers(root)[l]) : l \in DOMAIN EffectiveLayers(root)} :
     /\ literal.atom.predicate = p
     /\ literal.positive = positive
     /\ LastLayer(literal) = level + 1}

Holds(literal) == (literal.atom \in root.facts \cup root.static) <=> literal.positive

\* Goals under a derivation; plain has none.
SaidUnder(goals, derivation) ==
  CASE derivation = ""        -> goals
    [] derivation = "[sat]"   -> {literal \in goals : Holds(literal)}
    [] derivation = "[unsat]" -> {literal \in goals : ~Holds(literal)}

Configured(derivation) == (IF derivation = "" THEN "plain" ELSE derivation) \in c.derivations

Recent ==
  {i \in DOMAIN root.history : root.max_steps = Unlimited \/ root.history[i].dt >= -root.max_steps}

SaidBefore(p, positive) ==
  {literal \in UNION {ToSet(root.history[i].literals) : i \in Recent} :
     literal.atom.predicate = p /\ literal.positive = positive}

\* A graph of either family, for what is said of both.
Hetero(entries) == [family |-> "hetero", entries |-> entries]

Flat(schema, tuples) == [family |-> "flat", schema |-> schema, tuples |-> tuples]

Reading(graph, type, front) ==
  IF graph.family = "hetero" THEN HeteroReading(graph.entries, type, front)
  ELSE FlatReading(graph.schema, graph.tuples, type, "state")

Shown(graph, atom) == IF graph.family = "hetero" THEN Encoded(c, atom) ELSE Kept(c, atom)

SlotsOf(graph, atom) ==
  IF graph.family = "hetero" THEN Arguments(atom) ELSE ArgumentRows(atom.arguments)

AtomsRead(graph, atoms) == {Sole(SlotsOf(graph, atom)) : atom \in {a \in atoms : Shown(graph, a)}}

ShowsPresent(graph) ==
  \A p \in Predicates :
    /\ Arguing(Reading(graph, StateRelation(p), 0)) = AtomsRead(graph, SaidFacts(p))
    /\ \A level \in 0..(Len(EffectiveLayers(root)) - 1), positive \in BOOLEAN,
          derivation \in {"", "[sat]", "[unsat]"} :
         Arguing(Reading(graph, GoalOf(p, positive, level, derivation),
                         IF derivation = "" /\ HasAnchor(c, LevelSource(level)) THEN 1 ELSE 0))
           = IF Configured(derivation)
             THEN AtomsRead(graph, {literal.atom : literal \in
                                      SaidUnder(SaidGoals(p, positive, level), derivation)})
             ELSE {}

HeteroShowsPresent(entries) ==
  /\ ShowsPresent(Hetero(entries))
  /\ \A p \in Predicates, positive \in BOOLEAN :
       Arguing(HeteroReading(entries, LiteralRelation(p, positive), 0))
         = AtomsRead(Hetero(entries), {literal.atom : literal \in SaidBefore(p, positive)})
  /\ \A schema \in Schemas :
       Arguing(HeteroReading(entries, ActionRelation(schema), ActionOffset(c)))
         = IF c.ignore_actions THEN {}
           ELSE {Sole(ActionArguments(action)) :
                   action \in {a \in ToSet(root.actions) : a.action = schema}}

\* An entry of the history is numbered among those that count.
EntryNumber(i) == i - (Len(root.history) - Cardinality(Recent))

FlatShowsPresent(schema, tuples) ==
  /\ ShowsPresent(Flat(schema, tuples))
  /\ \A p \in {q \in Predicates : ~Ignored(c, Arity[q])}, positive \in BOOLEAN :
       FlatReading(schema, tuples, HistoryRelation(p, positive), "history")
         = UNION {{<<Sole(<<HistoryRow(root.history[i].dt, EntryNumber(i))>>),
                     Sole(ArgumentRows(literal.atom.arguments))>> :
                     literal \in ToSet(root.history[i].literals) \cap SaidBefore(p, positive)} :
                  i \in Recent}
  /\ \A name \in Schemas :
       FlatReading(schema, tuples, ActionRelation(name), "action")
         = {<<Sole(<<ActionRow(action)>>), Sole(ArgumentRows(action.arguments))>> :
              action \in {a \in ToSet(root.actions) : a.action = name}}

Suffix == "[suc]"

Successor(action) == [root EXCEPT !.facts = Result(@, action)]

\* The successor's dynamic facts, or how they differ, under types of their own.
HeteroShowsSuccessor(entries, after) ==
  LET read(type) == Arguing(HeteroReading(entries, type, 0))
      said(p, facts) == AtomsRead(Hetero(entries), {atom \in facts : atom.predicate = p})
  IN  \A p \in Predicates :
        IF c.mode = "delta"
        THEN /\ read(DeltaRelation(p, TRUE, Suffix)) = said(p, after.facts \ root.facts)
             /\ read(DeltaRelation(p, FALSE, Suffix)) = said(p, root.facts \ after.facts)
        ELSE read(SuffixedRelation(p, Suffix)) = said(p, after.facts)

(***************************************************************************)
(* What a lookahead graph says of the states of the dag.                   *)
(***************************************************************************)
DynamicAt(i) == {atom \in dag.nodes[i].state.facts : CategoryOf(atom) # "static"}

FactsOf(i) ==
  IF i > 1 THEN DynamicAt(i)
  ELSE dag.nodes[1].state.facts
         \cup (IF c.include_static THEN dag.nodes[1].state.static ELSE {})

Of(p, atoms) == {atom \in atoms : atom.predicate = p}

StateOf(graph, i) == Sole(<<IF graph.family = "hetero" THEN StateSymbol(i) ELSE StateRow(i)>>)

Saying(states, readings) == {<<states, reading>> : reading \in readings}

\* What is said of a state under a literal type.
ChangesRead(graph, p, positive, i) ==
  {reading[2] : reading \in {r \in Reading(graph, LiteralRelation(p, positive), 1) :
                               r[1] = StateOf(graph, i)}}

\* The changes lead from the root's facts to those of the state.
LeadsThere(said, removed, added, before) ==
  added \cap removed = {} /\ (before \ removed) \cup added = said

ShowsChanges(graph, p, i) ==
  IF dag.nodes[i].labels.delta = None
  THEN LeadsThere(AtomsRead(graph, Of(p, FactsOf(i))), ChangesRead(graph, p, FALSE, i),
                  ChangesRead(graph, p, TRUE, i), AtomsRead(graph, Of(p, FactsOf(1))))
  ELSE \A positive \in BOOLEAN :
         ChangesRead(graph, p, positive, i)
           = AtomsRead(graph, Of(p, {literal.atom : literal \in
                                       {l \in ToSet(dag.nodes[i].labels.delta) :
                                          l.positive = positive}}))

SaidOfOthers(graph, p) ==
  UNION {Saying(StateOf(graph, i), AtomsRead(graph, Of(p, FactsOf(i)))) : i \in Others(dag)}

SaidOfRoot(graph, p) ==
  Saying(IF RootInStateRelations(c) THEN StateOf(graph, 1) ELSE <<>>,
         AtomsRead(graph, Of(p, FactsOf(1))))

ShowsStates(graph) ==
  \A p \in Predicates :
    /\ Reading(graph, StateRelation(p), IF RootInStateRelations(c) THEN 1 ELSE 0)
         = SaidOfRoot(graph, p)
             \cup (IF c.mode = "full" /\ RootInStateRelations(c)
                   THEN SaidOfOthers(graph, p) ELSE {})
    /\ c.mode = "full" /\ ~RootInStateRelations(c) =>
         Reading(graph, Anchored(StateRelation(p)), 1) = SaidOfOthers(graph, p)
    /\ c.mode = "delta" /\ Category[p] # "static" =>
         \A i \in Others(dag) : ShowsChanges(graph, p, i)

-----------------------------------------------------------------------------
(***************************************************************************)
(* Properties.                                                             *)
(***************************************************************************)
Owned == OwnedLanes(root)

Viewed == ViewLanes(Preparation(root))

\* What each family makes of lanes: refused, or what is encoded.
HeteroOutcome(lanes) ==
  IF HeteroRefused(c, arities, lanes) THEN "refused" ELSE HeteroEncode(c, lanes)

FlatOutcome(lanes) == IF FlatRefused(c, lanes) THEN "refused" ELSE FlatEncode(c, lanes)

SuccessorOutcome(lanes, after) == SuccessorEntriesOf(SuccessorConfig(c), lanes, after, Suffix)

\* Goals of views are not sorted: nodes are numbered in another order, and where
\* edges are not reversed a shortcut may point the other way.
IsShortcut(e) == e.kind[1] = "line_share"

ShortcutEnds(e) == {<<e.src, e.positions[1]>>, <<e.dst, e.positions[2]>>}

AsDrawn(graph) ==
  [nodes     |-> ToSet(graph.nodes),
   edges     |-> {e \in ToSet(graph.edges) : ~IsShortcut(e)},
   shortcuts |-> {ShortcutEnds(e) : e \in {f \in ToSet(graph.edges) : IsShortcut(f)}},
   instances |-> SortedGoals(graph.instances),
   distances |-> graph.distances,
   dt_offset |-> graph.dt_offset]

DerivedOutcome(lanes) ==
  IF DerivedRefused(lanes) THEN "refused" ELSE AsDrawn(DerivedEncode(c, lanes))

ColorOutcome(lanes) == IF ColorRefused(lanes) THEN "refused" ELSE ColorEncode(c, lanes)

\* Views are another way to hand over the same state: whatever its lanes hold,
\* repeated goals, history and all, the encoders refuse it or encode it as they
\* do the owned input (semantic_preparation.hpp, prepare_goals).
ViewsEncodeLikeOwned ==
  caller = "encoding" =>
    /\ DerivedOutcome(OwnedOccurrences(root)) = DerivedOutcome(ViewOccurrences(Preparation(root)))
    /\ ColorOutcome(OwnedOccurrences(root)) = ColorOutcome(ViewOccurrences(Preparation(root)))
    /\ HeteroOutcome(Owned) = HeteroOutcome(Viewed)
    /\ FlatOutcome(Owned) = FlatOutcome(Viewed)
    /\ \A action \in Moves :
         SuccessorOutcome(Owned, OwnedLanes(Successor(action)))
           = SuccessorOutcome(Viewed, ViewLanes(StatePreparation(Successor(action))))

\* Tuples against the composition plan and the entity table.
TupleAsPlanned(composition, schema, tuple, entities) ==
  /\ RowAccepted(schema, tuple)
  /\ tuple.key \in Keys(composition)
  /\ Len(tuple.args) = ArityIn(composition, tuple.key)
  /\ ToSet(tuple.args) \subseteq entities

FlatAsPlanned(composition, schema, graph) ==
  /\ SchemaConsistent(schema)
  /\ CompileAccepts(composition, PlanConfig)
  /\ \A n \in DOMAIN graph.tuples :
       TupleAsPlanned(composition, schema, graph.tuples[n], ToSet(graph.entities))
  /\ ToSet(graph.anchors) \subseteq ToSet(graph.entities)

\* A relation node has the slots its type is declared with, and its edges are of
\* types that every batch carries. There is one slot more for the anchor of a plain
\* goal, and one for the nullary object: a batch lacks the former when no goal has
\* the type, and the latter in lookahead graphs. Undeclared are literals of the
\* history, and levels beyond the highest where these are let through.
MoreForAnchor(type) ==
  /\ caller = "encoding"
  /\ type[4] # "" /\ type[5] = ""
  /\ HasAnchor(c, IF type[4] = "[g]" THEN "goals" ELSE "subgoals")

MoreForNullary(type) == type[2] \in Predicates /\ Arity[type[2]] = 0

SlotsAsDeclared(at, type) ==
  \/ caller = "encoding" /\ type[1] # "" /\ type[4] = ""
  \/ c.relaxed_goal_levels /\ ~Declared(arities, type)
  \/ /\ Declared(arities, type)
     /\ Len(at) = ArityOf(arities, type) + (IF MoreForAnchor(type) THEN 1 ELSE 0)
                                          + (IF MoreForNullary(type) THEN 1 ELSE 0)
     /\ \/ MoreForAnchor(type)
        \/ MoreForNullary(type) /\ caller = "searching"
        \/ \A k \in DOMAIN at : <<type, k - 1>> \in AllEdgeTypes(c, arities)

HeteroAsDeclared(entries) == \A e \in entries : SlotsAsDeclared(e.at, e.node[1])

FlatEncodes(lanes) == caller = "encoding" /\ ~FlatRefused(c, lanes)

HeteroEncodes(lanes) == caller = "encoding" /\ ~HeteroRefused(c, arities, lanes)

FlatSearches(config, d) ==
  caller = "searching" /\ FlatAccepts(dag) /\ ~FlatHorizonRefused(config, d)

HeteroSearches(d) == caller = "searching" /\ HeteroAccepts(dag) /\ ~HorizonRefused(c, d)

HorizonAsPlanned(config, d) ==
  FlatSearches(config, d) =>
    FlatAsPlanned(HorizonPlan(config), FlatHorizonSchema(config), FlatHorizonEncode(config, d))

\* A flat encoder plans its entity table and its relations before it emits: each
\* tuple is of a relation of the compiled plan, has its arity, and refers to
\* planned rows only; a row that is not planned raises in the middle of a graph. A
\* hetero encoder emits nodes of declared types, with the declared slots.
EmittedAsPlanned ==
  /\ FlatEncodes(Owned) => FlatAsPlanned(RelationPlan(c), FlatSchema(c), FlatEncode(c, Owned))
  /\ HeteroEncodes(Owned) => HeteroAsDeclared(HeteroEntries(c, Owned))
  /\ HorizonAsPlanned(FlatHorizonConfig(c), FlatDag(dag))
  /\ HeteroSearches(HeteroDag(dag)) => HeteroAsDeclared(HorizonEntries(c, HeteroDag(dag)))

\* A graph says what the state is, and nothing else: read back by types and slots
\* it has the facts, each goal at its highest level and under the satisfaction it
\* has, the actions, the recent history, and the successor's changes.
EveryGraphShowsTheInput ==
  /\ HeteroEncodes(Owned) =>
       /\ HeteroShowsPresent(HeteroEntries(c, Owned))
       /\ \A action \in Moves :
            HeteroShowsSuccessor(SuccessorOutcome(Owned, OwnedLanes(Successor(action))),
                                 Successor(action))
  /\ FlatEncodes(Owned) => FlatShowsPresent(FlatSchema(c), FlatTuples(c, Owned))

FlatHorizonShows(config, d) ==
  FlatSearches(config, d) =>
    ShowsStates(Flat(FlatHorizonSchema(config), HorizonTuples(config, d)))

\* A lookahead graph says of every state what holds there: its facts, or the
\* changes that lead to them from the root's, or the changes it was given with.
HorizonShowsEveryState ==
  /\ HeteroSearches(HeteroDag(dag)) => ShowsStates(Hetero(HorizonEntries(c, HeteroDag(dag))))
  /\ FlatHorizonShows(FlatHorizonConfig(c), FlatDag(dag))

Comparable ==
  /\ c.include_lgan_edges /\ "plain" \in c.derivations /\ ~c.ignore_actions
  /\ c.ignore_zero_arity_relations /\ ~c.add_nullary_predicates
  /\ ~c.use_predicate_virtual_nodes
  /\ root.history = <<>>

NodeNamed(key, names) ==
  <<key, IF key[2] \in Predicates THEN Atom(key[2], names) ELSE GroundAction(key[2], names)>>

SoleNames(slots) == [k \in DOMAIN slots |-> (CHOOSE row \in slots[k] : TRUE)[2]]

NodeOfTuple(schema, tuple) ==
  NodeNamed(tuple.key, SoleNames(InRole(RolesIn(schema, tuple.key), tuple.args, "argument")))

SymbolOfRow(row) ==
  IF row[1] = "action" THEN ActionAnchor(row[2])
  ELSE GoalAnchor(GoalRelation(row[3], row[4], "", ""), row[3], row[4])

NodesOfTuples(schema, tuples) == [n \in DOMAIN tuples |-> NodeOfTuple(schema, tuples[n])]

SameMarks(flat, hetero, node) ==
  LET joined(pairs) == {<<node[pair[1]], SymbolOfRow(pair[2])>> : pair \in pairs}
  IN  /\ joined(flat.tn) = hetero.tn
      /\ joined(flat.nn) = hetero.nn
      /\ {pair \in {<<node[p[1]], node[p[2]]>> : p \in flat.rr} : pair[1] # pair[2]}
           = hetero.rr

SameNeighbourhoodsOf(graph, entries, anchors) ==
  SameMarks(FlatLgan(graph.tuples, graph.anchors), Lgan(entries, anchors),
            NodesOfTuples(FlatSchema(c), graph.tuples))

\* The two families mark the same neighbourhoods: a tuple is near an anchor when
\* the relation node of its atom or action is. Compared where both have the same
\* nodes: without history, nullary relations and virtual predicate nodes.
SameNeighbourhoods ==
  FlatEncodes(Owned) /\ HeteroEncodes(Owned) /\ Comparable =>
    SameNeighbourhoodsOf(FlatEncode(c, Owned), HeteroEntries(c, Owned), LganAnchors(c, Owned))

\* What an edge may have at its ends, and what a row must have.
EndOf(inst, node, position) ==
  \/ node = InstanceNode(inst)
  \/ position \in DOMAIN inst.arguments /\ node = ObjectNode(inst.arguments[position])
  \/ inst.arguments = <<>> /\ node = AnchorNode

DrawsRow(e, inst) ==
  /\ e.channels = ChannelsOf(inst)
  /\ EndOf(inst, e.src, e.positions[1])
  /\ EndOf(inst, e.dst, e.positions[2])

Joins(e, one, other) ==
  /\ e.src = InstanceNode(one) /\ e.dst = InstanceNode(other)
  /\ one # other /\ "action" \notin {one.role, other.role}
  /\ one.arguments[e.positions[1]] = other.arguments[e.positions[2]]

EdgeOfTable(e, rows) ==
  IF IsShortcut(e) THEN \E one, other \in rows : Joins(e, one, other)
  ELSE \E inst \in rows : DrawsRow(e, inst)

RowInGraph(inst, edges, nodes) ==
  /\ NodeOfInstance(c, inst) \in nodes \cup {NoNode}
  /\ inst.arguments = <<>> /\ inst.role # "action" => \E e \in edges : DrawsRow(e, inst)
  /\ \A k \in DOMAIN inst.arguments :
       \E e \in edges :
         /\ ~IsShortcut(e) /\ DrawsRow(e, inst)
         /\ <<ObjectNode(inst.arguments[k]), k>> \in
              {<<e.src, e.positions[1]>>, <<e.dst, e.positions[2]>>}

Between(edges, kind) ==
  {<<e.src, e.dst>> : e \in {f \in edges : ~IsShortcut(f) /\ f.src[1] = kind /\ f.dst[1] = "object"}}

MeetingAt(star) == UNION {{p[2]} \X {q[2] : q \in {r \in star : r[1] = p[1]}} : p \in star}

Meeting(edges) == Between(edges, "object") \cup MeetingAt(Between(edges, "instance"))

DistanceSaid(distances, o, p) ==
  (IF o = p THEN {0} ELSE {})
    \cup {row.dist : row \in {r \in distances : {r.src, r.dst} = {o, p}}}

ByWayOf(distances, meeting, o, p) ==
  {2 + n : n \in UNION {DistanceSaid(distances, o, pair[1]) :
                         pair \in {q \in meeting : q[2] = p /\ q[1] # p}}}

Nearest(lengths) == {n \in lengths : n <= c.spd_max_hops /\ \A m \in lengths : n <= m}

DistancesAre(distances, meeting, objects) ==
  \A o, p \in objects :
    o # p => DistanceSaid(distances, o, p) = Nearest(ByWayOf(distances, meeting, o, p))

WithCliques == [c EXCEPT !.atom_expansion = "clique", !.include_reverse_edges = TRUE]

DrawsTable(graph, edges, nodes, rows) ==
  /\ IsInjective(graph.nodes)
  /\ \A e \in edges : {e.src, e.dst} \subseteq nodes /\ EdgeOfTable(e, rows)
  /\ \A inst \in rows : RowInGraph(inst, edges, nodes)
  /\ c.include_spd =>
       DistancesAre(ToSet(graph.distances),
                    Meeting(ToSet(DerivedEdges(WithCliques, graph.objects, PoolOf(graph.instances)))),
                    {ObjectNode(o) : o \in ToSet(graph.objects)})

DrawsItsTable(graph) ==
  DrawsTable(graph, ToSet(graph.edges), ToSet(graph.nodes), ToSet(graph.instances))

\* A derived graph draws the rows of its table and nothing else: an edge runs
\* between what its row has at the positions it names, no argument is left without
\* an edge, and no node is drawn twice or missing. The distances are those that the
\* drawing has when all arguments of an atom are joined (emit_spd_fields walks the
\* table and never looks at the edges).
DerivedGraphDrawsTheTable ==
  caller = "encoding" /\ ~DerivedRefused(OwnedOccurrences(root)) =>
    DrawsItsTable(DerivedEncode(c, OwnedOccurrences(root)))

NamesClash ==
  /\ c.enable_global_predicate_nodes
  /\ \E use \in ToSet(Uses(OwnedOccurrences(root))) :
       /\ use.level = -1
       /\ \E other \in ToSet(Uses(OwnedOccurrences(root))) :
            use.atom.predicate \in ToSet(other.atom.arguments)

\* Names are for the reader: with names a color graph is numbered and colored as it
\* is without, unless an object is named like a predicate that has a node, where
\* the two become one node (the keys of node_indices are the bare names).
ColorGraphsIgnoreNames ==
  caller = "encoding" /\ ~ColorRefused(OwnedOccurrences(root)) =>
    (NamedDraw(c, Uses(OwnedOccurrences(root))) = CompactDraw(c, Uses(OwnedOccurrences(root)))
       <=> ~NamesClash)

Indices(outcome) == {n \in DOMAIN log : log[n].outcome = outcome}

\* Appends that wrote to the k-th graph, and what they wrote.
WrittenTo(k) ==
  {n \in Indices("returned") \cup Indices("torn") :
     Cardinality(Before(Indices("returned"), n)) = k - 1}

GraphWritten(k) == InOrder([n \in WrittenTo(k) |-> OwnedLanes(log[n].input)])

OneArity(dims) == \A dim, other \in dims : dim[1] = other[1] => dim = other

\* Ids and graphs of the append-only stream stay together through appends that raise
\* at three different places, tables that change and flushes: graph k holds what was
\* written while k - 1 appends had returned, in that order, and nothing else, no graph
\* is lost, ids count the appends that returned, and a type has one arity throughout
\* (hgraph_stream_encoder.cpp, append). What appends that raised midway wrote is in
\* the next graph, which GraphIsItsAppend says should not be.
StreamKeepsAppends ==
  caller = "appending" =>
    /\ stream.next_id = Cardinality(Indices("returned"))
    /\ Len(Flushed(stream)) = stream.next_id + (IF WrittenTo(stream.next_id + 1) = {} THEN 0 ELSE 1)
    /\ \A k \in 1..Len(Flushed(stream)) : Flushed(stream)[k] = GraphWritten(k)
    /\ OneArity(stream.dims)

AppendOf(k) == Chosen(log, Indices("returned"))[k]

\* The graph of an id is the item whose append returned the id, and nothing else
\* ("Append one item to the in-memory stream and return its stream id",
\* encoders/base.py:300).
GraphIsItsAppend ==
  caller = "appending" =>
    \A k \in 1..stream.next_id : Flushed(stream)[k] = <<OwnedLanes(AppendOf(k).input)>>

WidthsOf(schema, ids) == [r \in DOMAIN ids |-> EncodedArity(LayoutOf(schema, ids[r]))]

EncodedInputs(entries) == [k \in DOMAIN entries |-> FlatEncode(c, OwnedLanes(entries[k].input))]

\* What an encode_batch of the inputs would be made of.
Encodable == Chosen(log, {n \in DOMAIN log : ~FlatRefused(c, OwnedLanes(log[n].input))})

IdsUnpack(schema, ids) ==
  GraphsUnpack(ids, WidthsOf(schema, ids), EncodedInputs(Encodable))

PackedRowsUnpack == IdsUnpack(FlatSchema(c), RelationIds(FlatSchema(c)))

DrawnInputs(entries) ==
  [k \in DOMAIN entries |-> DerivedEncode(c, OwnedOccurrences(entries[k].input))]

\* And what an encode_batch of the derived encoder would.
DrawableEntries == Chosen(log, {n \in DOMAIN log : Draws(OwnedOccurrences(log[n].input))})

DerivedRowsSurviveBatching == DrawingsSurvive(c, DrawnInputs(DrawableEntries))

\* However the graphs of a batch get to a reader, one column graph after graph,
\* regrouped by relation, or put together from single graphs by PyG, the reader
\* finds the tuples of a relation of a graph, with its own entities in the slots.
\* A row of a derived table means the same in a carrier of one graph and in a batch,
\* whether the builder batched or PyG did (docs/how-to/consume-with-vanilla-gnns.md):
\* its arguments are nodes of its graph, a node that belongs to it has its channels,
\* and no hyperedge is without members.
BatchedRowsUnpack == caller = "appending" => PackedRowsUnpack /\ DerivedRowsSurviveBatching

\* What an argument means is read off its shape: a value that is a lane is one
\* lane for all states.
Each(backend, field, v, n) ==
  IF /\ v[1] \in Iterables /\ Len(v[2]) = n
     /\ \A x \in ToSet(v[2]) : x = NotGiven \/ IsLane(backend, field, x)
  THEN {[k \in 1..n |-> IF v[2][k] = NotGiven THEN <<>> ELSE <<LaneRead(field, v[2][k])>>]}
  ELSE {}

All(backend, field, v, n) ==
  IF IsLane(backend, field, v) THEN {[k \in 1..n |-> <<LaneRead(field, v)>>]} ELSE {}

Payload(v) == IF v[1] = "param" THEN v[3] ELSE v

IsParam(v, kind) == v[1] = "param" /\ v[2] = kind

Meanings(backend, field, v, n) ==
  IF Payload(v) = NotGiven THEN NoLanes(n)
  ELSE IF IsParam(v, "shared") \/ IsLane(backend, field, v) THEN All(backend, field, Payload(v), n)
  ELSE Each(backend, field, Payload(v), n)

StatesMeant(v) == IF v[1] \in Iterables THEN LeafValues(v[2]) ELSE <<LeafValue(v)>>

EntryOf(v, k) == IF Payload(v)[1] \in Iterables THEN Payload(v)[2][k] ELSE Payload(v)

\* The goals of a state are known from its problem, which only public ones have for ILG.
StateAsMeant(backend, family, call, state, k) ==
  IF backend = "pymimir" /\ family = "ilg" /\ ~IsPublic(EntryOf(call.states, k))
  THEN state = [StatesMeant(call.states)[k] EXCEPT !.default_goals = <<>>]
  ELSE state = StatesMeant(call.states)[k]

AheadMeant(family, call, state, k) ==
  CASE family = "transition"      -> LeafValue(EntryOf(call.successors, k))
    [] family = "flat_transition" -> TransitionOf(state, LeafValue(EntryOf(call.successors, k)))
    [] family \in WithDags        -> IF EntryOf(call.dags, k) = NotGiven THEN TrivialDag(state)
                                     ELSE EntryOf(call.dags, k)[2]
    [] OTHER                      -> NotGiven

\* Layers of graphs whose goals are not given: hgraph_stream_encoder.cpp:305 and the
\* lookahead engines read them with the goals only (encode does without, as the flat
\* and the color engine do).
LayersWithoutGoals(backend, family, call, k, n) ==
  /\ ~ReadsItsOwn(backend, family) /\ DropsLayers(family)
  /\ \E goals \in Meanings(backend, "goals", call.goals, n) : goals[k] = <<>>

\* A generator in a shared lane is spent after the first graph (pytyr_flat.py:59);
\* generators of actions are spent by the check of the actions (pytyr_hgraph.py:178),
\* those that a flat transition's graph is given by its root (pytyr_horizon.py:279).
OneShot(v) ==
  LET once[x \in Within(v)] ==
        x[1] = "generator" \/ (x[1] \in ListLike /\ \E y \in ToSet(x[2]) : once[y])
  IN  once[v]

HandsOnGenerator(v) ==
  IF IsParam(v, "shared") THEN OneShot(v[3])
  ELSE Payload(v)[1] \in Iterables /\ \E x \in ToSet(Payload(v)[2]) : OneShot(x)

SpentBefore(backend, family, field, v, k) ==
  /\ ReadsItsOwn(backend, family) /\ HandsOnGenerator(v)
  /\ \/ family \in {"hgraph", "flat_transition"} /\ ReadTwice(backend, family, field)
     \/ k > 1 /\ (IsParam(v, "shared") \/ IsLane(backend, field, v))

LaneAsMeant(backend, family, call, graph, k, n, field) ==
  \E lanes \in Meanings(backend, field, call[field], n) :
    graph[field] = Or(lanes[k], IF field = "goals" THEN graph.state.default_goals ELSE <<>>)

\* Lanes that have a property of their own below.
SetApart(backend, family, call, k, n, field) ==
  \/ field = "layers" /\ LayersWithoutGoals(backend, family, call, k, n)
  \/ SpentBefore(backend, family, field, call[field], k)

\* Encoders of lookahead graphs have no actions and no history, and must not be
\* given any; but of a pair of histories they look at the second only
\* (_horizon_validation.py:20, _transition_validation.py:21).
SaysNothing(lane) == \A k \in DOMAIN lane : "literals" \in DOMAIN lane[k] /\ lane[k].literals = <<>>

NothingUnread(backend, family, call, n) ==
  LooksAhead(family) =>
    \A field \in {"actions", "history"} :
      \A lane \in UNION {ToSet(lanes) : lanes \in Meanings(backend, field, call[field], n)} :
        \/ field = "history" /\ Payload(call.history)[1] = "tuple" /\ Len(Payload(call.history)[2]) = 2
        \/ SaysNothing(Or(lane, <<>>))

LanesUsed(family) == IF LooksAhead(family) THEN {"goals", "layers"} ELSE LaneFields

GraphAsMeant(backend, family, call, graph, k, n) ==
  /\ StateAsMeant(backend, family, call, graph.state, k)
  /\ graph.ahead = AheadMeant(family, call, graph.state, k)
  /\ \A field \in LanesUsed(family) :
       ~SetApart(backend, family, call, k, n, field) =>
         LaneAsMeant(backend, family, call, graph, k, n, field)

AsMeant(backend, family, call, graphs, n) ==
  /\ Len(graphs) = n
  /\ NothingUnread(backend, family, call, n)
  /\ \A k \in 1..n : GraphAsMeant(backend, family, call, graphs[k], k, n)

\* Plain calls: lists of one kind of the backend's objects (public ones or the leaves
\* in them), each argument with a meaning and with a use, no more layers than there
\* are levels.
IsPlain(v, objects) ==
  LET plain[x \in Within(v)] ==
        CASE x[1] = "param" -> plain[x[3]] /\ (x[3] = NotGiven => x[2] = "none")
          [] x[1] = "list"  -> \A y \in ToSet(x[2]) : plain[y]
          [] x[1] = "tuple" -> IsHistoryItem(x) /\ plain[x[2][2]]
          [] OTHER          -> x[1] \in {"none", "int"} \cup objects
  IN  plain[v]

Leaves == {"literal", "action", "state", "dag"}

\* What the encoders of a family take: on pymimir derived and ILG want public states,
\* and derived public literals and actions.
PlainStates(backend, family) ==
  IF backend = "pymimir" /\ family \in {"derived", "ilg"} THEN {"wrapped"} ELSE Leaves

PlainLanes(backend, family) ==
  IF backend = "pymimir" /\ family = "derived" THEN {"wrapped"} ELSE Leaves

Fits(v, type, n, optional) ==
  \/ Payload(v)[1] = type /\ ~IsParam(v, "separate")
  \/ v = NotGiven /\ optional
  \/ /\ Payload(v)[1] = "list" /\ ~IsParam(v, "shared") /\ Len(Payload(v)[2]) = n
     /\ \A x \in ToSet(Payload(v)[2]) : x[1] = type \/ (x = NotGiven /\ optional)

OwnRoots(call, n) ==
  \A k \in 1..n : EntryOf(call.dags, k) # NotGiven =>
                    EntryOf(call.dags, k)[2].root = StatesMeant(call.states)[k]

HasUse(family, call, n) ==
  /\ IF family \in WithSuccessors THEN Fits(call.successors, "state", n, FALSE)
     ELSE call.successors = NotGiven
  /\ IF family \in WithDags THEN Fits(call.dags, "dag", n, TRUE) /\ OwnRoots(call, n)
     ELSE call.dags = NotGiven
  /\ family \notin WithActions => call.actions = NotGiven
  /\ family \notin WithHistory => call.history = NotGiven

LevelsLeft(backend, call, n) ==
  \A lanes \in Meanings(backend, "layers", call.layers, n) :
    \A k \in 1..n : Len(Or(lanes[k], <<>>)) <= MaxLayers

PlainCall(backend, family, call, n) ==
  /\ IsPlain(call.states, PlainStates(backend, family))
  /\ \A field \in BatchFields : IsPlain(call[field], PlainLanes(backend, family))
  /\ \A field \in LaneFields : Meanings(backend, field, call[field], n) # {}
  /\ HasUse(family, call, n)
  /\ LevelsLeft(backend, call, n)

CallDoesAsMeant(backend, family, call, graphs, n) ==
  /\ \A batch \in graphs : batch # <<>> => AsMeant(backend, family, call, batch, n)
  /\ n > 0 /\ PlainCall(backend, family, call, n) => graphs # {}

\* A batch has a graph for each of its states, of that state, its own successor or
\* dag, and the lanes that were given for it, whether they came shared, one per state
\* or bare, read by four C++ parsers or in Python; and a call whose arguments are
\* lists of the backend's own objects is not refused. Two kinds of lanes are set
\* apart: layers without goals and generators that were read before. That they are
\* lost is the matter of SharedLayersServeAllStates.
BatchEncodesEachState ==
  caller = "batching" =>
    \A backend \in {"pymimir", "pytyr"}, family \in Families :
      CallDoesAsMeant(backend, family, input, EncodedBatch(backend, family, input),
                      Len(StatesMeant(input.states)))

\* A graph with the literals of the layers that were given for its state.
LayersArrive(backend, graph, k, n) ==
  \E lanes \in Meanings(backend, "layers", input.layers, n) :
    FlattenSeq(graph.layers) = FlattenSeq(Or(lanes[k], <<>>))

\* Layers shared by all states reach the graph of each of them, also where goals
\* default to those of the problem: if not in both backends' code, which is C++ on
\* pymimir and Python on PyTyr, then in one ("one shared payload (reused for all
\* states)", batching-and-streaming.md:39; "goals default to the state's problem goals
\* if omitted", encode-goals-actions-history.md:5). Derived graphs have Python code only.
SharedLayersServeAllStates ==
  caller = "batching" /\ IsParam(input.layers, "shared") =>
    \A family \in Families \ {"derived"} : \E backend \in {"pymimir", "pytyr"} :
      \A batch \in EncodedBatch(backend, family, input) : \A k \in DOMAIN batch :
        LayersArrive(backend, batch[k], k, Len(batch))

\* Components that emit records, and that the record does not pass over.
MeantFor(k, record) ==
  /\ plan[k].records
  /\ k \in Declarers(plan, Canonical(plan, record.key))
  /\ record.component \in {"", plan[k].name}

Copies(records, record) == Cardinality({m \in DOMAIN records : records[m] = record})

\* A component emits no record more often than it was given; one that names nobody
\* is emitted as often by whoever declares its relation.
EmittedOnce(k, record) ==
  LET emitted == Copies(EmittedBy(plan, c, input, k), record)
      meant   == IF MeantFor(k, record) THEN Copies(input.relations, record) ELSE 0
  IN  /\ emitted <= meant
      /\ record.component = "" => emitted = meant

\* The tuple that a projection makes has its relation's arity and no unplanned node.
ProjectedWhole(projection, record) ==
  LET made == Projected(plan, input, projection, record.args)
  IN  /\ Len(made.args) = ArityIn(plan, made.key)
      /\ \A i \in DOMAIN made.args :
           projection.slots[i][1] \in {"node", "source_node"} =>
             \E node \in PlannedNodes(plan, input) : made.args[i] = <<node.type, node.key>>

EmittedWhole(k, record) ==
  /\ Len(record.args) = ArityIn(plan, Canonical(plan, record.key))
  /\ \A projection \in ToSet(plan[k].projections) :
       Canonical(plan, projection.source) = Canonical(plan, record.key)
         /\ Resolves(plan, input, projection, record.args) => ProjectedWhole(projection, record)

RecordsOf(k) == ToSet(EmittedBy(plan, c, input, k))

\* No component emits a record that it does not declare or that names another one,
\* none emits more than it was given and, under unique owners, no two emit the same; a
\* record that names nobody is emitted by all who declare it; and what is emitted is
\* whole: an argument for each slot, and projections that refer to planned nodes (emit,
\* project_into). Whether a record reaches the component it names is the matter of
\* NamedOwnersEmit.
OnlyOwnersEmit ==
  caller = "composing" /\ compiled /\ GraphAccepted(plan, c, input) =>
    \A k \in DOMAIN plan :
      /\ \A record \in ToSet(input.relations) : EmittedOnce(k, record)
      /\ \A record \in RecordsOf(k) : EmittedWhole(k, record)
      /\ Broadcasts(c) \/ \A m \in DOMAIN plan \ {k} : RecordsOf(k) \cap RecordsOf(m) = {}

\* A record of an accepted graph that names its component is emitted by that one
\* ("Set a relation record's optional `component` owner when several relation emitters
\* declare the same relation", flat-composition.md:56).
NamedOwnersEmit ==
  caller = "composing" /\ compiled /\ GraphAccepted(plan, c, input) =>
    \A k \in DOMAIN plan : \A record \in ToSet(input.relations) :
      record.component = plan[k].name /\ MeantFor(k, record) =>
        Copies(EmittedBy(plan, c, input, k), record) = Copies(input.relations, record)

NoSpecs == [key \in {} |-> <<>>]

AttributesSurvive(shelf, specs) ==
  Pyg!Collates(shelf, specs) => Pyg!AttributesFound(shelf, specs)

GraphsSurviveExport(shelf, as_batch) ==
  LET b == Pyg!Batched(shelf)
  IN  Pyg!Exports(b, as_batch) /\ Pyg!Uncounted(shelf) = 0 =>
        Pyg!GraphsFound(shelf, Pyg!AsPyg(b, NoSpecs, as_batch), as_batch)

\* As one object: as it is, and from a batch of its own.
SingleSurvives(e) ==
  LET b == Pyg!Batched(<<e>>)
  IN  Pyg!Exports(b, FALSE) =>
        /\ Pyg!SingleAgain(e.attrs, Pyg!AsPyg(b, e.attrs, FALSE))
        /\ LET pyg == Pyg!AsPyg(b, Pyg!Collated(<<e>>, NoSpecs), FALSE)
           IN  Pyg!Collates(<<e>>, NoSpecs) =>
                 \A key \in {k \in DOMAIN e.attrs : e.attrs[k][1] # "dict"} :
                   pyg.attrs[key] = e.attrs[key]

\* What is set on single encodings, and what they are named by, is found again in
\* their batch, at their position: under a key with a spec as the spec says, pieces
\* of different lengths by their ptr and references counted on from the nodes or
\* rows of their graph; under any other key in a list.  Names of nodes, objects and
\* targets are those of the graph that they are found for, and a single object has
\* the attributes that the encoding had (docs/development/dynamic_graph_fields_plan.md).
\* A ptr whose key is set by itself is not found, encodings in front that have no node
\* type are no graphs of the batch, and PygExport says which names are in no order.
EncodingsSurviveCollation ==
  caller = "collating" /\ Pyg!Appends(input) =>
    /\ \A specs \in CollateSpecs : AttributesSurvive(input, specs)
    /\ \A as_batch \in BOOLEAN : GraphsSurviveExport(input, as_batch)
    /\ \A i \in DOMAIN input : SingleSurvives(input[i])
================================================================================
