--------------------------- MODULE MCEncoderSessions ---------------------------
(***************************************************************************)
(* Three objects, one of which is named like a predicate; a static, a      *)
(* fluent, a nullary and a derived predicate; a robot that moves between   *)
(* two of the objects, and a light.  Each configuration of an encoder is a    *)
(* session of its own, chosen so that each feature is on in one of them    *)
(* and meets the features it shares code with.                             *)
(***************************************************************************)
EXTENDS EncoderSessions

MCPredicates == {"road", "at", "lit", "safe"}

MCCategory == [road |-> "static", at |-> "fluent", lit |-> "fluent", safe |-> "derived"]

MCArity == [road |-> 3, at |-> 1, lit |-> 0, safe |-> 1]

MCSchemas == {"move", "toggle"}

MCSchemaArity == [move |-> 1, toggle |-> 0]

AtOf(o) == Atom("at", <<o>>)
Lit == Atom("lit", <<>>)
Safe(o) == Atom("safe", <<o>>)

Yes(atom) == Literal(atom, TRUE)
No(atom) == Literal(atom, FALSE)

Move(o) == GroundAction("move", <<o>>)
Toggle == GroundAction("toggle", <<>>)

MCMoves == {Move("a"), Move("b"), Toggle}

\* An object is safe where the robot is in the light.
Derived(basic) ==
  basic \cup {Safe(o) : o \in {p \in {"a", "b"} : AtOf(p) \in basic /\ Lit \in basic}}

Basic(facts) == {atom \in facts : Category[atom.predicate] = "fluent"}

MCResult(facts, action) ==
  Derived(IF action.action = "move"
          THEN (Basic(facts) \ {AtOf("a"), AtOf("b")}) \cup {AtOf(action.arguments[1])}
          ELSE IF Lit \in facts THEN Basic(facts) \ {Lit} ELSE Basic(facts) \cup {Lit})

MCStart ==
  [objects           |-> {"a", "b", "safe"},
   static            |-> {Atom("road", <<"a", "b", "a">>), Atom("road", <<"b", "safe", "b">>)},
   facts             |-> {AtOf("a")},
   layers            |-> <<<<>>>>,
   use_default_goals |-> TRUE,
   default_goals     |-> <<Yes(AtOf("b")), No(Safe("a"))>>,
   actions           |-> <<>>,
   history           |-> <<>>,
   max_steps         |-> Unlimited]

\* Subgoals that repeat a goal, or one another.
MCSubgoals ==
  {<<<<>>>>, <<<<>>, <<Yes(Safe("b")), Yes(AtOf("b"))>>>>,
   <<<<>>, <<Yes(Lit)>>, <<Yes(AtOf("b")), No(AtOf("a")), Yes(AtOf("b"))>>>>}

MCOffers == {<<>>, <<Move("b"), Toggle, Move("b")>>}

MCNotes ==
  {[id |-> None, delta |-> None], [id |-> 7, delta |-> <<Yes(Lit), No(AtOf("a"))>>]}

With(field, value) == [MCStart EXCEPT ![field] = value]

MCInputs ==
  {With("actions", <<Move("b"), Toggle, Move("b")>>),
   [With("layers", <<<<>>, <<Yes(Lit), Yes(AtOf("b"))>>>>)
      EXCEPT !.history = <<[dt |-> -2, literals |-> <<Yes(Lit)>>],
                           [dt |-> -1, literals |-> <<No(Lit), Yes(AtOf("a"))>>]>>],
   [With("use_default_goals", FALSE) EXCEPT !.facts = {}, !.static = {}],
   With("layers", <<<<>>, <<>>, <<Yes(Lit)>>>>)}

Config ==
  [include_static |-> TRUE, add_nullary_predicates |-> FALSE, ignore_actions |-> FALSE,
   include_lgan_edges |-> FALSE, anchor_sources |-> {}, target_sources |-> {},
   derivations |-> {"plain"}, max_goal_level |-> 2, support_literals |-> FALSE,
   mode |-> "full", root_policy |-> "include", topology |-> {},
   relaxed_goal_levels |-> FALSE, successor_satisfaction |-> FALSE,
   ignore_zero_arity_relations |-> FALSE, use_predicate_virtual_nodes |-> FALSE,
   export_node_names |-> TRUE,
   node_universe |-> "objects_and_atoms", atom_expansion |-> "star",
   include_reverse_edges |-> FALSE, include_line_graph |-> FALSE,
   line_graph_max_degree |-> 3, include_hyperedge_incidence |-> FALSE,
   include_tuple_tensors |-> FALSE, include_spd |-> FALSE, spd_max_hops |-> 4,
   edge_features |-> FALSE, enable_global_predicate_nodes |-> FALSE]

Everything == {"plain", "[sat]", "[unsat]"}

MCEncodingConfigs ==
  {[Config EXCEPT !.add_nullary_predicates = TRUE, !.derivations = Everything,
                  !.target_sources = {"goals", "subgoals", "actions", "history"},
                  !.use_predicate_virtual_nodes = TRUE, !.mode = "delta",
                  !.node_universe = "objects_only", !.atom_expansion = "star_first",
                  !.include_reverse_edges = TRUE, !.include_hyperedge_incidence = TRUE,
                  !.include_spd = TRUE, !.spd_max_hops = 3,
                  !.edge_features = TRUE, !.enable_global_predicate_nodes = TRUE],
   [Config EXCEPT !.include_lgan_edges = TRUE, !.derivations = Everything,
                  !.anchor_sources = {"goals", "subgoals", "history"},
                  !.ignore_zero_arity_relations = TRUE, !.successor_satisfaction = TRUE,
                  !.include_line_graph = TRUE, !.include_reverse_edges = TRUE,
                  !.include_spd = TRUE, !.enable_global_predicate_nodes = TRUE],
   [Config EXCEPT !.include_static = FALSE, !.add_nullary_predicates = TRUE,
                  !.derivations = {"[sat]"}, !.max_goal_level = 1,
                  !.relaxed_goal_levels = TRUE, !.support_literals = TRUE,
                  !.use_predicate_virtual_nodes = TRUE, !.export_node_names = FALSE,
                  !.node_universe = "objects_only", !.atom_expansion = "chain",
                  !.edge_features = TRUE],
   [Config EXCEPT !.include_lgan_edges = TRUE, !.ignore_actions = TRUE, !.max_goal_level = 1,
                  !.include_line_graph = TRUE, !.line_graph_max_degree = 9,
                  !.include_hyperedge_incidence = TRUE, !.include_spd = TRUE],
   [Config EXCEPT !.node_universe = "objects_only"]}

MCSearchConfigs ==
  {[Config EXCEPT !.target_sources = {"states"}, !.derivations = Everything,
                  !.add_nullary_predicates = TRUE, !.topology = {"parent", "sibling", "cousin"},
                  !.use_predicate_virtual_nodes = TRUE],
   [Config EXCEPT !.target_sources = {"states"}, !.derivations = Everything,
                  !.root_policy = "exclude", !.include_lgan_edges = TRUE,
                  !.topology = {"cousin"}, !.include_static = FALSE],
   [Config EXCEPT !.mode = "delta", !.root_policy = "encode_only", !.support_literals = TRUE,
                  !.derivations = {"plain", "[sat]", "[unsat]", "[sat+]", "[sat-]"},
                  !.add_nullary_predicates = TRUE, !.topology = {"sibling"}],
   [Config EXCEPT !.mode = "delta", !.root_policy = "exclude", !.support_literals = TRUE,
                  !.derivations = {"[sat+]"}, !.use_predicate_virtual_nodes = TRUE],
   [Config EXCEPT !.mode = "action", !.root_policy = "exclude", !.topology = {"parent"}]}

MCAppendConfigs ==
  {[Config EXCEPT !.include_lgan_edges = TRUE, !.ignore_actions = TRUE,
                  !.anchor_sources = {"goals"}, !.max_goal_level = 1,
                  !.target_sources = {"subgoals", "history"},
                  !.use_predicate_virtual_nodes = TRUE,
                  !.node_universe = "objects_only", !.atom_expansion = "clique",
                  !.include_hyperedge_incidence = TRUE],
   [Config EXCEPT !.add_nullary_predicates = TRUE, !.max_goal_level = 1,
                  !.include_hyperedge_incidence = TRUE, !.include_tuple_tensors = TRUE,
                  !.include_spd = TRUE]}

MCTables(config) ==
  {RelationArities(config),
   {IF entry[1] = StateRelation("at") THEN <<entry[1], 2>> ELSE entry :
      entry \in RelationArities(config)}}

Kind(name, exported) == [type |-> name, kind |-> "object", dim |-> 1, names |-> exported]

Relation(key, n) == [key |-> key, arity |-> n]

MCComponents ==
  {EntityComponent(TRUE),
   [Component("frames") EXCEPT !.types = {Kind("frame", FALSE)}, !.plans = "records",
                               !.fields = {[key |-> "frames", inc |-> <<"node", "frame">>]},
                               !.optional = {"title"}],
   [Component("edges") EXCEPT !.relations = {Relation("near", 2), Relation("tag", 1)},
                              !.records = TRUE, !.attrs = {"title"}],
   [Component("tags") EXCEPT !.relations = {Relation("tag", 1), Relation("of", 2)},
                             !.records = TRUE, !.aliases = <<<<"label", "tag">>>>,
                             !.projections =
                               <<[source |-> "label", output |-> "of",
                                  slots  |-> <<<<"slot", 1>>, <<"source_node", 1, "frame">>>>]>>]}

Record(key, args, component) == [key |-> key, args |-> args, component |-> component]

MCRelationRecords ==
  {Record("near", <<1, 2>>, ""), Record("tag", <<1>>, ""), Record("label", <<2>>, "tags"),
   Record("of", <<1, 1>>, "edges")}

\* Arguments of encode_batch: for two states, or one alone.
List(items) == <<"list", items>>
Pair(one, other) == <<"tuple", <<one, other>>>>
Once(items) == <<"generator", items>>
Param(kind, v) == <<"param", kind, v>>
Wrapped(leaf) == <<"wrapped", leaf>>

Goal(x) == <<"literal", x>>
One == Goal(Yes(Lit))
Other == Goal(No(AtOf("a")))
Fdr == Pair(<<"fact", Lit>>, <<"bool", TRUE>>)
Do(x) == <<"action", x>>
Past(dt, literals) == Pair(<<"int", dt>>, literals)

HereState == <<"state", MCStart>>
ThereState == <<"state", With("default_goals", <<Yes(Lit)>>)>>
BareState == <<"state", With("facts", {})>>
DagOf(state, n) == <<"dag", [root |-> state[2], nodes |-> n]>>

MCPartialCalls ==
  {[states |-> states, goals |-> goals, actions |-> NotGiven, layers |-> NotGiven,
    history |-> NotGiven, successors |-> NotGiven, dags |-> NotGiven] :
     states \in {List(<<>>), BareState, List(<<HereState, ThereState>>),
                 List(<<Wrapped(HereState), Wrapped(ThereState)>>),
                 Once(<<Wrapped(HereState), BareState>>)},
     goals \in {NotGiven, List(<<One>>)}}
  \cup
  {[states |-> List(<<HereState, ThereState>>), goals |-> goals, actions |-> NotGiven,
    layers |-> NotGiven, history |-> NotGiven, dags |-> NotGiven,
    successors |-> List(<<ThereState, HereState>>)] : goals \in {NotGiven, List(<<One>>)}}

MCLanes(field) ==
  CASE field = "goals"   -> {List(<<>>), List(<<One>>), List(<<One, Other>>), List(<<Fdr, Fdr>>),
                             Once(<<Other>>), List(<<Wrapped(One)>>), <<"tuple", <<One>>>>}
    [] field = "actions" -> {List(<<>>), List(<<Do(Toggle)>>), Once(<<Do(Move("b"))>>),
                             List(<<Wrapped(Do(Toggle))>>), <<"tuple", <<Do(Toggle)>>>>}
    [] field = "layers"  -> {List(<<>>), List(<<List(<<One>>)>>), List(<<List(<<>>), List(<<>>)>>),
                             List(<<List(<<One>>), <<"tuple", <<Other, One>>>>>>),
                             List(<<Once(<<One>>)>>), Once(<<List(<<One>>)>>), List(<<List(<<Fdr>>)>>),
                             List(<<List(<<One>>), List(<<One>>), List(<<Wrapped(Other)>>)>>)}
    [] field = "history" -> {List(<<>>), List(<<Past(-1, List(<<One>>))>>),
                             List(<<Past(-2, List(<<>>)), Past(-1, Once(<<Other>>))>>),
                             <<"tuple", <<Past(-1, List(<<One>>)), Past(-1, List(<<>>))>>>>,
                             Once(<<Past(-1, List(<<Fdr>>))>>)}
    [] OTHER             -> {}

MCEntries(field) ==
  CASE field = "successors" -> {HereState, ThereState, <<"text">>}
    [] field = "dags"       -> {NotGiven, DagOf(HereState, 2), DagOf(ThereState, 2), <<"text">>}
    [] OTHER                -> {NotGiven, <<"text">>} \cup MCLanes(field)

\* Every lane and entry by itself, in pairs, and under each kind of BatchParam.
MCBatchArgument(field) ==
  LET pairs == {<<x, y>> : x, y \in MCEntries(field)}
  IN  MCEntries(field)
        \cup {List(<<x>>) : x \in MCEntries(field)}
        \cup {List(pair) : pair \in pairs}
        \cup {Pair(x, y) : x, y \in IF field = "history" THEN MCLanes(field) ELSE {}}
        \cup {Once(<<x, NotGiven>>) : x \in MCEntries(field)}
        \cup {Param("shared", x) : x \in MCEntries(field)}
        \cup {Param("separate", List(<<x, NotGiven>>)) : x \in MCEntries(field)}
        \cup {Param("separate", <<kind, <<x, x>>>>) : x \in MCEntries(field), kind \in Iterables}
        \cup {Param("none", NotGiven)}

MCGiven ==
  {[objects |-> <<"a", "b">>, nodes |-> <<[type |-> "frame", key |-> "f", source |-> 1]>>,
    relations |-> <<>>, fields |-> fields, optional_written |-> written] :
     fields \in {{}, {"frames"}}, written \in {{}, {"title"}}}

\* Encodings of single graphs: three of one encoder, where a node type begins with
\* the second graph, two flat ones without the field that counts, one of them without
\* names, and homogeneous ones with a loop, mirrored by the encoder or not, and
\* behind one without nodes.
CountField(n) == [spec |-> [mode |-> "stack", dtype |-> "i64", dim |-> 1], values |-> <<n>>]

Single(kind, counts, names, objects) ==
  [kind |-> kind, flags |-> [name \in {} |-> TRUE], counts |-> counts, names |-> names,
   objects |-> objects, columns |-> {"obj/x"}, edge_types |-> {},
   fields |-> [sizes |-> CountField(counts["obj"] + 1)], marks |-> [version |-> "v1"],
   targets |-> Pyg!NoTargets, edges |-> <<>>, attrs |-> [key \in {} |-> <<>>]]

Deferring(e, names) == [e EXCEPT !.targets.deferred = <<names>>]
Naming(e, names) == [e EXCEPT !.targets.strings = names]

Looped == [Single("homo", [obj |-> 2], [obj |-> <<"a", "b">>], <<"a", "b">>) EXCEPT
             !.edge_types = {"edge"}, !.edges = <<<<0, 1, "on">>, <<1, 1, "by">>, <<1, 0, "on">>>>]

NoNodes == [Looped EXCEPT !.counts = <<>>, !.names = <<>>, !.objects = <<>>, !.columns = {},
                          !.edge_types = {}, !.edges = <<>>]

NoFields(e) == [e EXCEPT !.fields = <<>>]

MCShelves ==
  {<<Deferring(Single("hetero", [obj |-> 2], [obj |-> <<"a", "b">>], <<"a", "b">>), <<"t1">>),
     Naming(Single("hetero", [obj |-> 1, st |-> 2], [obj |-> <<"a">>, st |-> <<"s", "t">>], <<"a">>),
            <<"t2", "t1">>),
     Deferring(Single("hetero", [obj |-> 0, st |-> 1], [obj |-> <<>>, st |-> <<"u">>], <<>>), <<"t3">>)>>,
   <<Naming([Single("flat", [obj |-> 1], [obj |-> <<"a">>], <<"b">>) EXCEPT !.fields = <<>>], <<"t1">>),
     [Single("flat", [obj |-> 2], [obj |-> <<>>], <<"c">>) EXCEPT !.fields = <<>>]>>,
   <<Looped>>, <<[Looped EXCEPT !.flags = [include_reverse_edges |-> TRUE]]>>,
   <<[Looped EXCEPT !.kind = "", !.targets.attr = <<<<>>>>], Looped>>,
   <<NoFields(NoNodes), NoFields(Looped)>>, <<NoNodes, Looped>>, <<NoNodes>>}

MCAttributeKeys == {"tags", "tags_ptr", "ids", "info"}

MCAttributeValues(key) ==
  CASE key = "tags"     -> {List(<<>>), List(<<Pyg!Text("red"), Pyg!Text("blue")>>), Pyg!Text("red")}
    [] key = "tags_ptr" -> {Pyg!Number(7)}
    [] key = "ids"      -> {Pyg!Number(0), List(<<Pyg!Number(1), Pyg!Number(0)>>),
                            List(<<List(<<Pyg!Number(2), Pyg!Number(3)>>)>>),
                            Pyg!Tensor(2, <<<<0, 1>>, <<1, 1>>>>)}
    [] key = "info"     -> {Pyg!Dict([age |-> Pyg!Number(1)]), Pyg!Nothing}

ByMode(mode) == <<"mode", mode>>
ByDict(f) == <<"dict", f>>
Numbers(mode) == [dtype |-> "int64", mode |-> mode]

MCCollateSpecs ==
  {[key \in {} |-> <<>>],
   [tags |-> ByDict([dtype |-> "str", mode |-> "ragged_cat"]),
    ids  |-> ByDict([inc |-> <<"node", "obj">>] @@ Numbers("ragged_cat"))],
   [tags |-> ByMode("ragged_cat"), ids |-> ByDict([inc |-> <<"field", "sizes">>] @@ Numbers("cat"))],
   [tags |-> <<"none">>, ids |-> ByDict([dim |-> 2, cat_dim |-> -1] @@ Numbers("ragged_cat"))],
   [tags |-> ByMode("const")], [ids |-> ByDict([dim |-> 2] @@ Numbers("stack"))],
   [ids |-> ByDict([inc |-> <<"node", "st">>] @@ Numbers("ragged_cat")), info |-> ByMode("const")],
   [ids |-> ByDict(Numbers("const")), tags_ptr |-> ByDict([dtype |-> "f32", mode |-> "cat"])],
   [tags |-> ByDict([dtype |-> "str"]), ids |-> ByDict([dim |-> 2] @@ Numbers("cat"))]}
=============================================================================
