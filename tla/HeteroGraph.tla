------------------------------ MODULE HeteroGraph ------------------------------
(***************************************************************************)
(* SemanticHGraphEncoderEngine: one state as a heterogeneous graph.        *)
(* Objects are symbol nodes, and so is everything that stands in for one:  *)
(* the symbol of nullary relations and the anchors of targets.  Each atom, *)
(* goal and action is a relation node <<type, what it is about>>, joined   *)
(* to its symbols by edges in both directions that are labelled with the   *)
(* argument's position.  A node is made once per type and content; the     *)
(* edges are added for every occurrence.                                   *)
(*                                                                         *)
(* An encoding is put together from entries.  An entry is one occurrence:  *)
(*   node     the relation node                                            *)
(*   at       the symbols by position, where it adds edges                 *)
(*   touched  the symbols that locality (LGAN) counts as its own           *)
(*   copy     which occurrence of the lane it is                           *)
(***************************************************************************)
EXTENDS HeteroRelations

\* Symbols.
Object(o) == <<"object", o>>

NullaryObject == <<"nullary">>

GoalAnchor(type, literal, level) == <<"target", "goal", type, literal, level>>

ActionAnchor(action) == <<"target", "action", action>>

HistoryAnchor(dt, i, type, literal) == <<"target", "history", dt, i, type, literal>>

StateSymbol(i) == <<"target", "state", i>>

\* atom_symbols: a nullary atom has the nullary object in the place of arguments.
Arguments(atom) ==
  IF Nullary(atom) THEN <<NullaryObject>>
  ELSE [i \in DOMAIN atom.arguments |-> Object(atom.arguments[i])]

ActionArguments(action) == [i \in DOMAIN action.arguments |-> Object(action.arguments[i])]

\* Nullary atoms are skipped unless they are asked for.
Encoded(c, atom) == Nullary(atom) => c.add_nullary_predicates

Entry(node, symbols, copy) ==
  [node |-> node, at |-> symbols, touched |-> ToSet(symbols), copy |-> copy]

(***************************************************************************)
(* Facts: encode_fact and encode_successor_fact.                           *)
(***************************************************************************)
StateFacts(c, lanes) ==
  {atom \in lanes.static \cup lanes.facts :
     /\ CategoryOf(atom) = "static" => c.include_static
     /\ Encoded(c, atom)}

FactEntry(type, atom) == Entry(<<type, atom>>, Arguments(atom), 1)

FactEntries(c, lanes) ==
  {FactEntry(StateRelation(atom.predicate), atom) : atom \in StateFacts(c, lanes)}

Dynamic(facts) == {atom \in facts : CategoryOf(atom) # "static"}

SuccessorEntries(c, facts, suffix) ==
  {FactEntry(SuffixedRelation(atom.predicate, suffix), atom) :
     atom \in {a \in Dynamic(facts) : Encoded(c, a)}}

ChangeEntries(c, before, after, suffix) ==
  LET entries(changed, positive) ==
        {FactEntry(DeltaRelation(atom.predicate, positive, suffix), atom) :
           atom \in {a \in changed : Encoded(c, a)}}
  IN  entries(Dynamic(after) \ Dynamic(before), TRUE)
        \cup entries(Dynamic(before) \ Dynamic(after), FALSE)

(***************************************************************************)
(* Goals: encode_goal.  A plain goal that is a target, or that locality    *)
(* starts from, has its anchor at position 0 and its arguments behind it.  *)
(***************************************************************************)
SourceOf(goal) == IF goal.level > 0 THEN "subgoals" ELSE "goals"

Anchor(goal, type) == GoalAnchor(type, goal.literal, goal.level)

GoalEntry(c, goal, i, suffix, derivation) ==
  LET type == GoalRelation(goal.literal, goal.level, suffix, derivation)
      anchors == IF derivation = "" /\ HasAnchor(c, SourceOf(goal))
                 THEN <<Anchor(goal, type)>> ELSE <<>>
  IN  Entry(<<type, goal.literal.atom>>, anchors \o Arguments(goal.literal.atom), i)

EncodedGoals(c, goals) ==
  {i \in DOMAIN goals : Encoded(c, goals[i].literal.atom)}

PlainGoalEntries(c, goals) ==
  IF "plain" \in c.derivations
  THEN {GoalEntry(c, goals[i], i, "", "") : i \in EncodedGoals(c, goals)}
  ELSE {}

\* A goal holds if the facts and its polarity agree.
Satisfaction(facts, literal) ==
  IF (literal.atom \in facts) = literal.positive THEN "[sat]" ELSE "[unsat]"

SatisfactionEntries(c, goals, facts, suffix) ==
  {GoalEntry(c, goals[i], i, suffix, Satisfaction(facts, goals[i].literal)) :
     i \in {k \in EncodedGoals(c, goals) :
              Satisfaction(facts, goals[k].literal) \in c.derivations}}

(***************************************************************************)
(* Actions: encode_actions.                                                *)
(***************************************************************************)
ActionEntry(c, action, i) ==
  LET anchors == IF HasTarget(c, "actions") \/ c.include_lgan_edges
                 THEN <<ActionAnchor(action)>> ELSE <<>>
  IN  Entry(<<ActionRelation(action.action), action>>, anchors \o ActionArguments(action), i)

ActionEntries(c, actions) ==
  IF c.ignore_actions THEN {}
  ELSE {ActionEntry(c, actions[i], i) : i \in DOMAIN actions}

(***************************************************************************)
(* History: encode_history.  A literal's node is shared by all entries of  *)
(* the history; its arguments are connected the first time, each further   *)
(* occurrence adds its own anchor behind them and a link to its entry.     *)
(***************************************************************************)
HistoryNode(dt, i) == <<"history", dt, i>>

Occurrences(c, history) ==
  FlattenSeq([i \in DOMAIN history |->
    InEntry(SelectSeq(history[i].literals, LAMBDA l : Encoded(c, l.atom)), history[i].dt, i)])

LiteralNode(literal) == <<LiteralRelation(literal.atom.predicate, literal.positive), literal.atom>>

AnchorOf(occurrence, literal) ==
  HistoryAnchor(occurrence.dt, occurrence.entry, LiteralNode(literal)[1], literal)

AnchorsOf(occurrences) ==
  [n \in DOMAIN occurrences |-> AnchorOf(occurrences[n], occurrences[n].literal)]

HistoryEntryAt(node, symbols, connected, n) ==
  [node    |-> node,
   at      |-> [i \in {k \in DOMAIN symbols : k > connected} |-> symbols[i]],
   touched |-> ToSet(symbols),
   copy    |-> n]

HistoryEntry(c, occurrences, n, literal) ==
  HistoryEntryAt(LiteralNode(literal),
                 Arguments(literal.atom)
                   \o (IF HasAnchor(c, "history") THEN <<AnchorOf(occurrences[n], literal)>>
                                                  ELSE <<>>),
                 IF \A m \in 1..(n - 1) :
                      LiteralNode(occurrences[m].literal) # LiteralNode(literal)
                 THEN 0 ELSE Len(Arguments(literal.atom)),
                 n)

EntriesOfHistory(c, occurrences) ==
  {HistoryEntry(c, occurrences, n, occurrences[n].literal) : n \in DOMAIN occurrences}

HistoryEntries(c, history) == EntriesOfHistory(c, Occurrences(c, history))

LinksOf(occurrences) ==
  {<<LiteralNode(occurrences[n].literal),
     HistoryNode(occurrences[n].dt, occurrences[n].entry), n>> : n \in DOMAIN occurrences}

HistoryLinks(c, history) == LinksOf(Occurrences(c, history))

(***************************************************************************)
(* Targets: a row per occurrence, in the order in which they are encoded.  *)
(***************************************************************************)
GoalTargets(c, goals) ==
  LET ordered == SelectSeq(ByCategory(goals),
                           LAMBDA g : Encoded(c, g.literal.atom) /\ HasTarget(c, SourceOf(g)))
  IN  IF "plain" \notin c.derivations THEN <<>>
      ELSE [i \in DOMAIN ordered |->
              [symbol |-> Anchor(ordered[i], GoalRelation(ordered[i].literal, ordered[i].level,
                                                          "", "")),
               group  |-> SourceOf(ordered[i])]]

ActionTargets(c, actions) ==
  IF c.ignore_actions \/ ~HasTarget(c, "actions") THEN <<>>
  ELSE [i \in DOMAIN actions |-> [symbol |-> ActionAnchor(actions[i]), group |-> "actions"]]

HistoryTargets(c, history) ==
  LET anchors == AnchorsOf(Occurrences(c, history))
  IN  IF ~HasTarget(c, "history") THEN <<>>
      ELSE [n \in DOMAIN anchors |-> [symbol |-> anchors[n], group |-> "history"]]

HeteroTargets(c, lanes) ==
  GoalTargets(c, lanes.goals) \o ActionTargets(c, lanes.actions)
    \o HistoryTargets(c, OrderedHistory(lanes.history, lanes.max_steps))

\* lgan_target_symbol_ids: the symbols whose neighbourhood is marked.
LganAnchors(c, lanes) ==
  (IF "plain" \in c.derivations
   THEN {Anchor(lanes.goals[i], GoalRelation(lanes.goals[i].literal, lanes.goals[i].level,
                                             "", "")) :
           i \in {k \in EncodedGoals(c, lanes.goals) :
                    HasAnchor(c, SourceOf(lanes.goals[k]))}}
   ELSE {})
  \cup (IF c.ignore_actions THEN {} ELSE {ActionAnchor(a) : a \in ToSet(lanes.actions)})
  \cup (IF HasAnchor(c, "history")
        THEN ToSet(AnchorsOf(Occurrences(c, OrderedHistory(lanes.history, lanes.max_steps))))
        ELSE {})

(***************************************************************************)
(* add_lgan: what is near an anchor.  TN joins it to the relation nodes    *)
(* that touch it, NN to those that touch only symbols which these touch,   *)
(* RR joins two near nodes that share a symbol.                            *)
(***************************************************************************)
Nodes(entries) == {e.node : e \in entries}

\* relation_to_symbols: all that the occurrences of a node touch.
SymbolsOf(entries) ==
  [node \in Nodes(entries) |-> UNION {e.touched : e \in {f \in entries : f.node = node}}]

TouchingNodes(symbols, anchor) == {node \in DOMAIN symbols : anchor \in symbols[node]}

\* Mutant: near is what shares a symbol with a node at the anchor.
NearNodesSharing(symbols, anchor) ==
  LET local == UNION {symbols[node] : node \in TouchingNodes(symbols, anchor)}
  IN  {node \in DOMAIN symbols : symbols[node] \cap local # {}}

NearNodes(symbols, anchor) ==
  LET local == UNION {symbols[node] : node \in TouchingNodes(symbols, anchor)}
  IN  {node \in DOMAIN symbols : symbols[node] # {} /\ symbols[node] \subseteq local}

Lgan(entries, anchors) ==
  LET symbols == SymbolsOf(entries)
      near == [anchor \in anchors |-> NearNodes(symbols, anchor)]
      tn   == [anchor \in anchors |-> TouchingNodes(symbols, anchor)]
  IN  [tn |-> UNION {{<<node, anchor>> : node \in tn[anchor]} : anchor \in anchors},
       nn |-> UNION {{<<node, anchor>> : node \in near[anchor] \ tn[anchor]} : anchor \in anchors},
       rr |-> UNION {{pair \in near[anchor] \X near[anchor] :
                        /\ pair[1] # pair[2]
                        /\ symbols[pair[1]] \cap symbols[pair[2]] # {}} : anchor \in anchors}]

(***************************************************************************)
(* encode.  Relation types get their feature dimension from the declared   *)
(* arities when an encoding starts; a goal sets that of its own type, and  *)
(* 1 for a nullary predicate, which the builder refuses when it differs.   *)
(***************************************************************************)
HeteroEntries(c, lanes) ==
  FactEntries(c, lanes)
    \cup PlainGoalEntries(c, lanes.goals)
    \cup ActionEntries(c, lanes.actions)
    \cup HistoryEntries(c, OrderedHistory(lanes.history, lanes.max_steps))
    \cup SatisfactionEntries(c, lanes.goals, lanes.static \cup lanes.facts, "")

InputRefused(c, lanes) ==
  \/ lanes.layers >= Len(GoalSuffixes)
  \/ lanes.layers > c.max_goal_level /\ ~c.relaxed_goal_levels
  \/ ~ValidLanes(lanes)

FeatureDim(entry) == Len(entry.node[2].arguments)

\* The goals whose dimension differs from the declared one.
DimensionsClash(c, arities, entries) ==
  \E e \in entries :
    /\ e.node[1][4] # ""
    /\ e.node[1][3] = ""
    /\ Declared(arities, e.node[1])
    /\ ArityOf(arities, e.node[1]) # Slots(c, FeatureDim(e))

HeteroRefused(c, arities, lanes) ==
  \/ InputRefused(c, lanes)
  \/ DimensionsClash(c, arities, HeteroEntries(c, lanes))
  \/ c.include_lgan_edges /\ LganAnchors(c, lanes) = {}

HeteroEncode(c, lanes) ==
  [entries |-> HeteroEntries(c, lanes),
   links   |-> HistoryLinks(c, OrderedHistory(lanes.history, lanes.max_steps)),
   targets |-> HeteroTargets(c, lanes),
   anchors |-> LganAnchors(c, lanes)]

(***************************************************************************)
(* encode_successor: the current state as encode has it, the successor's   *)
(* dynamic facts under a suffix, whole or as changes, and optionally which *)
(* goals they satisfy.                                                     *)
(***************************************************************************)
\* normalize_successor_config
SuccessorConfig(c) == [c EXCEPT !.support_literals = @ \/ c.mode = "delta"]

SuccessorEntriesOf(c, lanes, after, suffix) ==
  FactEntries(c, lanes)
    \cup (IF c.mode = "delta" THEN ChangeEntries(c, lanes.facts, after.facts, suffix)
                              ELSE SuccessorEntries(c, after.facts, suffix))
    \cup PlainGoalEntries(c, lanes.goals)
    \cup ActionEntries(c, lanes.actions)
    \cup HistoryEntries(c, OrderedHistory(lanes.history, lanes.max_steps))
    \cup (IF c.mode = "delta" THEN {}
          ELSE SatisfactionEntries(c, lanes.goals, lanes.static \cup lanes.facts, "")
                 \cup (IF c.successor_satisfaction
                       THEN SatisfactionEntries(c, lanes.goals, Dynamic(after.facts), suffix)
                       ELSE {}))

SuccessorRefused(c, arities, lanes, after, suffix) ==
  \/ InputRefused(c, lanes)
  \/ InputRefused(c, after)
  \/ lanes.objects # after.objects
  \/ DimensionsClash(c, arities, SuccessorEntriesOf(c, lanes, after, suffix))
  \/ c.include_lgan_edges /\ LganAnchors(c, lanes) = {}

(***************************************************************************)
(* HGraphStreamEncoder, the append-only stream: one builder is shared by   *)
(* all appends.  An append encodes into the builder's open graph, commits  *)
(* it and gives out the next id; flush builds and starts over.  What an    *)
(* append that raises has written stays in the open graph.                 *)
(*   graphs   the committed graphs, each the lanes written into it         *)
(*   open     the lanes written into the open graph                        *)
(*   dims     the feature dimensions that the builder knows, [type, arity] *)
(*   next_id  the id of the next append                                    *)
(***************************************************************************)
EmptyStream == [graphs |-> <<>>, open |-> <<>>, dims |-> {}, next_id |-> 0]

\* set_node_feature_dim
DimAccepted(dims, entry) == \A known \in dims : known[1] = entry[1] => known = entry

\* initialize_workspace: types are declared in the order of their names (any fixed
\* order stands for it) until one clashes with what the builder knows by then.
DeclaredDims(dims, arities) ==
  LET types      == Ordered(arities)
      known(k)   == dims \cup {types[j] : j \in 1..(k - 1)}
      declared   == {k \in 1..Len(types) : \A j \in 1..k : DimAccepted(known(j), types[j])}
  IN  dims \cup {types[k] : k \in declared}

ArityClash(stream, arities) == \E entry \in arities : ~DimAccepted(stream.dims, entry)

\* Why an append raises: before the open graph is written to, or after.
RefusedUnwritten(c, arities, stream, lanes) ==
  InputRefused(c, lanes) \/ ArityClash(stream, arities)

RefusedWritten(c, arities, lanes) ==
  \/ DimensionsClash(c, arities, HeteroEntries(c, lanes))
  \/ c.include_lgan_edges /\ LganAnchors(c, lanes) = {}

AppendAccepted(c, arities, stream, lanes) ==
  ~RefusedUnwritten(c, arities, stream, lanes) /\ ~RefusedWritten(c, arities, lanes)

\* Mutant: the id is counted before the graph is encoded, and not given back.
AfterRefusalCounted(c, arities, stream, lanes) ==
  [stream EXCEPT
     !.dims    = IF InputRefused(c, lanes) THEN @ ELSE DeclaredDims(@, arities),
     !.open    = IF RefusedUnwritten(c, arities, stream, lanes) THEN @ ELSE Append(@, lanes),
     !.next_id = @ + 1]

\* What the stream is when append has raised.
AfterRefusal(c, arities, stream, lanes) ==
  [stream EXCEPT
     !.dims = IF InputRefused(c, lanes) THEN @ ELSE DeclaredDims(@, arities),
     !.open = IF RefusedUnwritten(c, arities, stream, lanes) THEN @ ELSE Append(@, lanes)]

\* What it is when append has returned the id stream.next_id.
AfterAppend(c, arities, stream, lanes) ==
  [stream EXCEPT
     !.dims    = DeclaredDims(@, arities),
     !.graphs  = Append(@, Append(stream.open, lanes)),
     !.open    = <<>>,
     !.next_id = @ + 1]

\* flush: build commits an open graph that was written to.
Flushed(stream) ==
  stream.graphs \o (IF stream.open = <<>> THEN <<>> ELSE <<stream.open>>)
=============================================================================
