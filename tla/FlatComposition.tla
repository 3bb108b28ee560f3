---------------------------- MODULE FlatComposition ----------------------------
(***************************************************************************)
(* A flat encoder put together from components.  Each component declares   *)
(* node types, relations, fields, features and metadata; compile() accepts *)
(* a plan in which every declaration has one owner and every reference is  *)
(* declared.  A graph is then encoded phase by phase, all components in a  *)
(* phase before the next: nodes, features, tuples, fields, metadata.       *)
(*                                                                         *)
(* A component is a record                                                 *)
(*   name       its name, unique in the plan                               *)
(*   types      the node types [type, kind, dim, names] it declares        *)
(*   plans      what nodes it plans: "objects", "records" or "nothing"     *)
(*   relations  the relations [key, arity] it declares                     *)
(*   records    whether it emits the relation records of the input         *)
(*   aliases    pairs of a key and the key it stands for                   *)
(*   projections  [source, output, slots]                                  *)
(*   fields     [key, inc]; inc is <<>>, <<"node", type>>, <<"field", key>>*)
(*   features   [type, dim]                                                *)
(*   attrs      the graph attributes it must write, and optional those it  *)
(*              may; object_names whether it writes the object names       *)
(***************************************************************************)
EXTENDS FlatGraph, IdOrder

RuntimeFields == {"relation_instance_sizes", "relation_counts", "relation_args"}

ReservedAttrs == {"relation_names", "relation_arities", "relation_args_layout"}

Names(plan) == {plan[k].name : k \in DOMAIN plan}

NodeTypes(plan) == UNION {plan[k].types : k \in DOMAIN plan}

TypeNames(plan) == {type.type : type \in NodeTypes(plan)}

Schema(plan) == UNION {plan[k].relations : k \in DOMAIN plan}

Keys(plan) == {relation.key : relation \in Schema(plan)}

ArityIn(plan, key) == (CHOOSE relation \in Schema(plan) : relation.key = key).arity

FieldKeys(component) == {field.key : field \in component.fields}

AllFieldKeys(plan) == UNION {FieldKeys(plan[k]) : k \in DOMAIN plan}

FeatureTypes(component) == {feature.type : feature \in component.features}

\* No two components declare the same: claims[k] is what component k declares.
OneOwner(claims) ==
  \A j, k \in DOMAIN claims : j # k => claims[j] \cap claims[k] = {}

(***************************************************************************)
(* compile.                                                                *)
(***************************************************************************)
\* add_component
NamesAccepted(plan) ==
  /\ plan # <<>>
  /\ \A k \in DOMAIN plan : plan[k].name # ""
  /\ \A j, k \in DOMAIN plan : plan[j].name = plan[k].name => j = k

\* declare_node_type: a type may be declared again, but only as it is.
TypesAccepted(plan, config) ==
  /\ \A s, t \in NodeTypes(plan) : s.type = t.type => s = t
  /\ {config.args_type, config.entity_type} \subseteq TypeNames(plan)

FeaturesAccepted(plan) ==
  /\ OneOwner([k \in DOMAIN plan |-> FeatureTypes(plan[k])])
  /\ \A k \in DOMAIN plan : \A feature \in plan[k].features :
       \E type \in NodeTypes(plan) : type.type = feature.type /\ type.dim = feature.dim

FieldsAccepted(plan) ==
  LET declared == AllFieldKeys(plan)
  IN  /\ OneOwner([k \in DOMAIN plan |-> FieldKeys(plan[k])])
      /\ \A k \in DOMAIN plan : \A f, g \in plan[k].fields : f.key = g.key => f = g
      /\ declared \cap RuntimeFields = {}
      /\ \A k \in DOMAIN plan : \A field \in plan[k].fields :
           CASE field.inc = <<>>         -> TRUE
             [] field.inc # <<>> /\ field.inc[1] = "node"
                                         -> field.inc[2] \in TypeNames(plan)
             [] field.inc # <<>> /\ field.inc[1] = "field"
                                         -> field.inc[2] \in declared \cup RuntimeFields

\* A required attribute is compared with the required ones of earlier components
\* only, an optional one with both.
MetadataAccepted(plan) ==
  /\ Cardinality({k \in DOMAIN plan : plan[k].object_names}) <= 1
  /\ \A k \in DOMAIN plan :
       /\ plan[k].attrs \cap plan[k].optional = {}
       /\ (plan[k].attrs \cup plan[k].optional) \cap ReservedAttrs = {}
       /\ \A j \in 1..(k - 1) :
            /\ plan[k].attrs \cap plan[j].attrs = {}
            /\ plan[k].optional \cap (plan[j].attrs \cup plan[j].optional) = {}

\* register_relation and finalize.
RelationsAccepted(plan) == \A r, s \in Schema(plan) : r.key = s.key => r = s

Aliases(plan) == FlattenSeq([k \in DOMAIN plan |-> plan[k].aliases])

AliasesAccepted(plan) ==
  LET aliases == Aliases(plan)
  IN  /\ \A i, j \in DOMAIN aliases : aliases[i][1] = aliases[j][1] => i = j
      /\ \A i \in DOMAIN aliases :
           /\ aliases[i][1] # aliases[i][2]
           /\ aliases[i][2] \in Keys(plan)
           /\ aliases[i][1] \notin Keys(plan)

\* relation_id: a key, or the key it is an alias of.
Canonical(plan, key) ==
  IF key \in Keys(plan) THEN key
  ELSE LET aliases == ToSet(Aliases(plan))
       IN  (CHOOSE pair \in aliases : pair[1] = key)[2]

KnownKey(plan, key) == key \in Keys(plan) \cup {pair[1] : pair \in ToSet(Aliases(plan))}

(***************************************************************************)
(* A projection makes a tuple of one relation from a tuple of another.  A  *)
(* slot is <<"slot", i>>, <<"source_node", i, type>> (the node registered  *)
(* for that source), <<"constant", value>> or <<"node", type, key>>.       *)
(***************************************************************************)
ProjectionsAccepted(plan) ==
  \A k \in DOMAIN plan : \A p \in ToSet(plan[k].projections) :
    /\ p.slots # <<>>
    /\ KnownKey(plan, p.source) /\ KnownKey(plan, p.output)
    /\ Len(p.slots) = ArityIn(plan, Canonical(plan, p.output))
    /\ \A i \in DOMAIN p.slots :
         /\ p.slots[i][1] \in {"slot", "source_node"} =>
              p.slots[i][2] \in 1..ArityIn(plan, Canonical(plan, p.source))
         /\ p.slots[i][1] = "source_node" => p.slots[i][3] \in TypeNames(plan)
         /\ p.slots[i][1] = "node" => p.slots[i][2] \in TypeNames(plan)

CompileAccepts(plan, config) ==
  /\ NamesAccepted(plan)
  /\ TypesAccepted(plan, config)
  /\ FeaturesAccepted(plan)
  /\ FieldsAccepted(plan)
  /\ MetadataAccepted(plan)
  /\ RelationsAccepted(plan)
  /\ AliasesAccepted(plan)
  /\ ProjectionsAccepted(plan)

(***************************************************************************)
(* The input of a graph (FlatCompositionInput): object names, node records *)
(* [type, key, source], relation records [key, args, component] and the    *)
(* keys of the fields given.  A record that names no component has "".     *)
(***************************************************************************)
Declares(component, key) == \E relation \in component.relations : relation.key = key

Declarers(plan, key) == {k \in DOMAIN plan : Declares(plan[k], key)}

Broadcasts(config) == config.policy = "broadcast"

\* validate_composition_relations
RecordAccepted(plan, config, record) ==
  LET key == Canonical(plan, record.key)
  IN  /\ KnownKey(plan, record.key)
      /\ Len(record.args) = ArityIn(plan, key)
      /\ IF record.component = ""
         THEN /\ Declarers(plan, key) # {}
              /\ Cardinality(Declarers(plan, key)) > 1 => Broadcasts(config)
         ELSE \E k \in Declarers(plan, key) : plan[k].name = record.component

\* CompositionInputBuilder: names and keys are unique.
InputAccepted(input) ==
  /\ IsInjective(input.objects)
  /\ \A i, j \in DOMAIN input.nodes :
       input.nodes[i].type = input.nodes[j].type /\ input.nodes[i].key = input.nodes[j].key
         => i = j

\* plan_graph: the nodes a component plans, with the source each stands for.
Planned(component, input) ==
  IF component.plans = "objects"
  THEN UNION {{[type |-> type.type, key |-> input.objects[i], source |-> i] :
                 i \in DOMAIN input.objects} : type \in component.types}
  ELSE IF component.plans = "records"
  THEN {record \in ToSet(input.nodes) : \E type \in component.types : type.type = record.type}
  ELSE {}

PlannedNodes(plan, input) == UNION {Planned(plan[k], input) : k \in DOMAIN plan}

\* add_node_from_source: sources and nodes are one to one; -1 is no source.
NodesAccepted(plan, input) ==
  \A m, n \in {node \in PlannedNodes(plan, input) : node.source >= 0} :
    m.type = n.type => (m.key = n.key <=> m.source = n.source)

FieldsGiven(plan, input) == AllFieldKeys(plan) \subseteq input.fields

\* The owner of an attribute: a required claim goes before an optional one.
Owners(plan, attr) ==
  LET required == {k \in DOMAIN plan : attr \in plan[k].attrs}
  IN  IF required # {} THEN required ELSE {k \in DOMAIN plan : attr \in plan[k].optional}

\* Each component writes its required attributes; those in optional_written, too,
\* which is refused when the attribute is another component's.
MetadataWritten(plan, input) ==
  \A k \in DOMAIN plan :
    \A attr \in plan[k].optional \cap input.optional_written : Owners(plan, attr) = {k}

GraphAccepted(plan, config, input) ==
  /\ InputAccepted(input)
  /\ \A i \in DOMAIN input.relations : RecordAccepted(plan, config, input.relations[i])
  /\ NodesAccepted(plan, input)
  /\ FieldsGiven(plan, input)
  /\ MetadataWritten(plan, input)

(***************************************************************************)
(* emit: each component that emits records goes through them in order.     *)
(***************************************************************************)
\* should_emit_relation
ShouldEmit(plan, config, k, key) ==
  /\ Declares(plan[k], key)
  /\ Declarers(plan, key) = {k} \/ Broadcasts(config)

EmitsRecord(plan, config, k, record) ==
  /\ ShouldEmit(plan, config, k, Canonical(plan, record.key))
  /\ record.component \in {"", plan[k].name}

Selected(records, places) == InOrder([n \in places |-> records[n]])

\* Mutant: the record goes to every component that declares it.
EmittedByAll(plan, config, input, k) ==
  Selected(input.relations,
           {n \in DOMAIN input.relations :
              /\ plan[k].records
              /\ ShouldEmit(plan, config, k, Canonical(plan, input.relations[n].key))})

EmittedBy(plan, config, input, k) ==
  Selected(input.relations,
           {n \in DOMAIN input.relations :
              plan[k].records /\ EmitsRecord(plan, config, k, input.relations[n])})

EmittedRecords(plan, config, input) ==
  FlattenSeq([k \in DOMAIN plan |-> EmittedBy(plan, config, input, k)])

\* A node that a slot refers to has been planned, else project_into throws.
Resolves(plan, input, projection, args) ==
  \A i \in DOMAIN projection.slots :
    LET slot == projection.slots[i]
    IN  /\ slot[1] = "source_node" =>
             \E n \in PlannedNodes(plan, input) : n.type = slot[3] /\ n.source = args[slot[2]]
        /\ slot[1] = "node" =>
             \E n \in PlannedNodes(plan, input) : n.type = slot[2] /\ n.key = slot[3]

\* project_into.  Nodes are referred to by type and key.
SlotValue(plan, input, slot, args) ==
  CASE slot[1] = "slot"        -> args[slot[2]]
    [] slot[1] = "constant"    -> slot[2]
    [] slot[1] = "node"        -> <<slot[2], slot[3]>>
    [] slot[1] = "source_node" ->
         LET node == CHOOSE n \in PlannedNodes(plan, input) :
                       n.type = slot[3] /\ n.source = args[slot[2]]
         IN  <<node.type, node.key>>

Projected(plan, input, projection, args) ==
  [key  |-> Canonical(plan, projection.output),
   args |-> [i \in DOMAIN projection.slots |->
               SlotValue(plan, input, projection.slots[i], args)]]

-----------------------------------------------------------------------------
(***************************************************************************)
(* build_composition_plan: the flat encoders of planning states as a       *)
(* composition.  One component has the entities, one each the relations    *)
(* of a lane, one each the fields of a group, one the metadata; components *)
(* of an extension come after them.                                        *)
(***************************************************************************)
Component(name) ==
  [name |-> name, types |-> {}, plans |-> "nothing", relations |-> {}, records |-> FALSE,
   aliases |-> <<>>, projections |-> <<>>, fields |-> {}, features |-> {},
   attrs |-> {}, optional |-> {}, object_names |-> FALSE]

EntityComponent(export_names) ==
  [Component("semantic_entities") EXCEPT
     !.types    = {[type |-> "entity", kind |-> "object", dim |-> 1, names |-> export_names]},
     !.plans    = "objects",
     !.features = {[type |-> "entity", dim |-> 1]}]

(***************************************************************************)
(* Relations by lane.  A Horizon encoder has two lanes: what holds in the  *)
(* states, and how they are related.                                       *)
(***************************************************************************)
LaneOf(usage) ==
  CASE usage = "state"                                     -> "semantic_facts"
    [] usage \in {"goal", "goal_derivation", "goal_satisfaction"} -> "semantic_goals"
    [] usage = "action"                                    -> "semantic_actions"
    [] usage = "history"                                   -> "semantic_history"
    [] usage \in {"parent", "sibling", "cousin"}           -> "semantic_topology"

LaneComponent(lane, schema) ==
  [Component(lane[1]) EXCEPT
     !.relations = {[key |-> e.key, arity |-> EncodedArity(e.layout)] :
                      e \in {f \in schema : LaneOf(f.usage) \in lane[2]}}]

\* A lane is a name and what goes into it; one without relations has no component.
LaneComponents(lanes, schema) ==
  SelectSeq([k \in DOMAIN lanes |-> LaneComponent(lanes[k], schema)],
            LAMBDA component : component.relations # {})

SingleLane(name) == <<name, {name}>>

RelationLanes ==
  <<SingleLane("semantic_facts"), SingleLane("semantic_goals"), SingleLane("semantic_actions"),
    SingleLane("semantic_history"), SingleLane("semantic_topology")>>

HorizonLanes ==
  <<<<"semantic_transitions",
      {"semantic_facts", "semantic_goals", "semantic_actions", "semantic_history"}>>,
    SingleLane("semantic_topology")>>

(***************************************************************************)
(* semantic_fields.                                                        *)
(***************************************************************************)
Plain(keys) == {[key |-> key, inc |-> <<>>] : key \in keys}

PerEntity(keys) == {[key |-> key, inc |-> <<"node", "entity">>] : key \in keys}

PerInstance(keys) == {[key |-> key, inc |-> <<"field", "relation_instance_sizes">>] : key \in keys}

EffectFields == Plain({"node_sizes", "object_sizes", "entity_role_ids"})
                  \cup PerEntity({"object_indices"})

TargetEntityFields == Plain({"target_entity_sizes", "target_entity_group_ids"})
                        \cup PerEntity({"target_entity_indices"})

HistoryFields == Plain({"history_entity_sizes", "history_entity_dt"})
                   \cup PerEntity({"history_entity_indices"})

TargetFields == Plain({"target_sizes", "target_indices", "target_candidate_ids",
                       "target_group_ids"})
                  \cup PerEntity({"target_positions"})

LganFields == Plain({"lgan_tn_sizes", "lgan_nn_sizes", "lgan_rr_sizes"})
                \cup PerEntity({"lgan_tn_entity_indices", "lgan_nn_entity_indices"})
                \cup PerInstance({"lgan_tn_relation_indices", "lgan_nn_relation_indices",
                                  "lgan_rr_src_relation_indices", "lgan_rr_dst_relation_indices"})

FieldComponents(names_fields) ==
  SelectSeq([k \in DOMAIN names_fields |->
               [Component(names_fields[k][1]) EXCEPT !.fields = names_fields[k][2]]],
            LAMBDA component : component.fields # {})

(***************************************************************************)
(* The plans.                                                              *)
(***************************************************************************)
MetadataComponent(required, optional, export_names) ==
  [Component("semantic_metadata") EXCEPT
     !.attrs        = required,
     !.optional     = IF export_names THEN optional ELSE {},
     !.object_names = export_names]

RelationPlan(c) ==
  LET targeted == c.target_sources # {}
  IN  <<EntityComponent(c.export_node_names)>>
        \o LaneComponents(RelationLanes, FlatSchema(c))
        \o FieldComponents(<<
             <<"semantic_effects", EffectFields>>,
             <<"semantic_history_fields", HistoryFields>>,
             <<"semantic_targets",
               TargetEntityFields \cup (IF targeted THEN TargetFields ELSE {})>>,
             <<"semantic_lgan_fields", IF c.include_lgan_edges THEN LganFields ELSE {}>> >>)
        \o <<MetadataComponent(IF targeted THEN {"target_groups"} ELSE {},
                               IF targeted THEN {"target_names"} ELSE {},
                               c.export_node_names)>>

HorizonPlan(c) ==
  <<EntityComponent(c.export_node_names)>>
    \o LaneComponents(HorizonLanes, FlatHorizonSchema(c))
    \o FieldComponents(<<
         <<"semantic_effects", EffectFields>>,
         <<"semantic_targets",
           TargetEntityFields \cup TargetFields \cup Plain({"target_depths"})>>,
         <<"semantic_lgan_fields", IF c.include_lgan_edges THEN LganFields ELSE {}>> >>)
    \o <<MetadataComponent({"target_groups", "parent_relation"}, {"target_names"},
                           c.export_node_names)>>

PlanConfig ==
  [args_type |-> "entity", entity_type |-> "entity", policy |-> "unique_owner"]

\* The number of a relation in the compiled plan: the order of the names, of all
\* components together.
CompiledIds(plan) == Ordered(Keys(plan))
=============================================================================
