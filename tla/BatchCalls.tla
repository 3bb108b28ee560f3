------------------------------ MODULE BatchCalls ------------------------------
(***************************************************************************)
(* Calls of encode_batch, for each family of encoders and either backend.  *)
(* First the arguments: as the native parser reads them, for the encoders  *)
(* of pymimir, and as the readers of PyTyr and of the derived encoders do. *)
(*                                                                         *)
(* An argument is a Python value.  A value is a tuple, its kind first:     *)
(*   <<"none">>, <<"text">>, <<"int", n>>, <<"fact", atom>>, <<"bool", b>>,  *)
(*   a leaf       <<"literal", x>>, <<"action", x>>, <<"state", x>>,       *)
(*                <<"dag", x>>                                             *)
(*   a public one <<"wrapped", leaf>>: an object that the backend's users  *)
(*                hold, around the leaf that its engines read              *)
(*   a container  <<"list", items>>, <<"tuple", items>>, or                *)
(*                <<"generator", items>>, which can be read once           *)
(*   a BatchParam <<"param", kind, value>>                                 *)
(* The facade turns public objects into leaves, containers into lists or   *)
(* tuples (Converted), then the native parser finds out whether a lane is  *)
(* shared by the states of the batch or given for each (ParsedLanes).      *)
(*                                                                         *)
(* What a reader makes of a lane is a set: of one sequence, with the lane  *)
(* of each state, or empty when the argument is refused.  The lane of a    *)
(* state is <<lane>>, or <<>> when the state has none.                     *)
(***************************************************************************)
EXTENDS PlanningInputs

CONSTANT MaxLayers   \* max_goal_level of the encoders

NotGiven == <<"none">>

ListLike == {"list", "tuple"}

Iterables == ListLike \cup {"generator"}

\* What is in a container or a BatchParam, and in that, as deep as values nest.
Items(v) ==
  IF v[1] = "param" THEN {v[3]} ELSE IF v[1] \in Iterables THEN ToSet(v[2]) ELSE {}

MaxNesting == 6

Within(v) ==
  LET items[depth \in 0..MaxNesting] ==
        IF depth = 0 THEN {v} ELSE UNION {Items(x) : x \in items[depth - 1]}
  IN  UNION {items[depth] : depth \in 0..MaxNesting}

NoLanes(n) == {[k \in 1..n |-> <<>>]}

(***************************************************************************)
(* Leaves and lanes.  PyTyr also takes (fact, polarity) for a literal; a   *)
(* reader of "public" objects takes no others.                             *)
(***************************************************************************)
IsFdrPair(x) == x[1] = "tuple" /\ Len(x[2]) = 2 /\ x[2][1][1] = "fact" /\ x[2][2][1] = "bool"

IsLeaf(backend, type, x) ==
  \/ x[1] = type /\ backend # "public"
  \/ /\ x[1] = "wrapped" /\ x[2][1] = type
     /\ backend \in {"pymimir", "public"} \/ (backend = "pytyr" /\ type = "literal")
  \/ type = "literal" /\ backend = "pytyr" /\ IsFdrPair(x)

LeafValue(x) ==
  IF x[1] = "wrapped" THEN x[2][2]
  ELSE IF x[1] = "tuple" THEN Literal(x[2][1][2], x[2][2][2])
  ELSE x[2]

LeafValues(items) == [k \in DOMAIN items |-> LeafValue(items[k])]

IsHistoryItem(x) == x[1] = "tuple" /\ Len(x[2]) = 2 /\ x[2][1][1] = "int"

\* parse_goal_literals_iterable and parse_flat_actions_iterable
IsLeafLane(backend, type, v) ==
  v[1] \in Iterables /\ \A x \in ToSet(v[2]) : IsLeaf(backend, type, x)

\* The four lanes of a planning state: each has one way to be one.
IsLane(backend, field, v) ==
  CASE field = "goals"   -> IsLeafLane(backend, "literal", v)
    [] field = "actions" -> IsLeafLane(backend, "action", v)
    [] field = "layers"  -> /\ v[1] \in Iterables
                            /\ \A x \in ToSet(v[2]) : IsLeafLane(backend, "literal", x)
    [] field = "history" -> /\ v[1] \in Iterables
                            /\ \A x \in ToSet(v[2]) :
                                 IsHistoryItem(x) /\ IsLeafLane(backend, "literal", x[2][2])

LaneRead(field, v) ==
  [k \in DOMAIN v[2] |->
     CASE field \in {"goals", "actions"} -> LeafValue(v[2][k])
       [] field = "layers"  -> LeafValues(v[2][k][2])
       [] field = "history" -> [dt |-> v[2][k][2][1][2], literals |-> LeafValues(v[2][k][2][2][2])]]

(***************************************************************************)
(* The facade: convert_batch_payload.  A BatchParam that holds no sequence *)
(* of lanes is refused by either, and is left to the parser here.          *)
(***************************************************************************)
LeafOf(field) ==
  CASE field \in {"goals", "layers", "history"} -> "literal"
    [] field = "actions"                        -> "action"
    [] field \in {"states", "successors"}       -> "state"

Converted(v, leaf) ==
  LET made[x \in Within(v)] ==
        CASE x[1] = "wrapped" /\ x[2][1] = leaf -> x[2]
          [] x[1] = "param" /\ (x[2] = "shared" \/ x[3][1] \in ListLike)
                                                -> <<"param", x[2], made[x[3]]>>
          [] x[1] \in Iterables                 -> <<IF x[1] = "tuple" THEN "tuple" ELSE "list",
                                                     [k \in DOMAIN x[2] |-> made[x[2][k]]]>>
          [] OTHER                              -> x
  IN  made[v]

(***************************************************************************)
(* The native parser.                                                      *)
(***************************************************************************)
ParsedStates(v) ==
  IF v[1] = "state" THEN {<<v[2]>>}
  ELSE IF IsLeafLane("core", "state", v) THEN {LeafValues(v[2])} ELSE {}

SharedLane(field, v, n) ==
  IF IsLane("core", field, v) THEN {[k \in 1..n |-> <<LaneRead(field, v)>>]} ELSE {}

LanePerState(field, items, n) ==
  IF Len(items) = n /\ \A x \in ToSet(items) : x = NotGiven \/ IsLane("core", field, x)
  THEN {[k \in 1..n |-> IF items[k] = NotGiven THEN <<>> ELSE <<LaneRead(field, items[k])>>]}
  ELSE {}

\* Mutant: any sequence makes the layers layers of a state each.
AnySequenceIndicates(field, x) == x = NotGiven \/ x[1] \in ListLike

\* An entry that can only be the lane of a state: *_entry_indicates_per_state.
IndicatesPerState(field, x) ==
  \/ x = NotGiven
  \/ field = "goals" /\ x[1] \in ListLike
  \/ field = "actions" /\ x[1] \in Iterables
  \/ field = "layers" /\ x[1] \in ListLike /\ x[2] # <<>> /\ Head(x[2])[1] \in ListLike
  \/ /\ field = "history" /\ x[1] \in ListLike /\ ~IsHistoryItem(x)
     /\ x[2] # <<>> /\ IsHistoryItem(Head(x[2]))

\* One that may be: *_entry_is_per_state_candidate.
MayBePerState(field, x) ==
  \/ x = NotGiven
  \/ field \in {"goals", "layers"} /\ x[1] \in ListLike
  \/ field = "actions" /\ x[1] \in Iterables
  \/ field = "history" /\ x[1] \in ListLike /\ ~IsHistoryItem(x)

\* A sequence is shared unless an entry says otherwise, or unless it cannot be
\* read so and each of its entries may be the lane of a state.
SequenceOfLanes(field, v, n) ==
  IF \E x \in ToSet(v[2]) : IndicatesPerState(field, x) THEN LanePerState(field, v[2], n)
  ELSE IF IsLane("core", field, v) THEN SharedLane(field, v, n)
  ELSE IF Len(v[2]) = n /\ \A x \in ToSet(v[2]) : MayBePerState(field, x)
       THEN LanePerState(field, v[2], n)
  ELSE {}

\* parse_shared_or_per_state
ParsedLanes(field, v, n) ==
  CASE v = NotGiven                         -> NoLanes(n)
    [] v[1] = "param" /\ v[2] = "none"      -> NoLanes(n)
    [] v[1] = "param" /\ v[2] = "shared"    -> SharedLane(field, v[3], n)
    [] v[1] = "param" /\ v[2] = "separate"  ->
         IF v[3][1] \in ListLike THEN LanePerState(field, v[3][2], n) ELSE {}
    [] v[1] \in ListLike                    -> SequenceOfLanes(field, v, n)
    [] OTHER                                -> SharedLane(field, v, n)

\* parse_successors_batch_param
OfLength(sequences, n) == {s \in sequences : Len(s) = n}

ParsedSuccessors(v, n) ==
  CASE v[1] = "state"                       -> {[k \in 1..n |-> v[2]]}
    [] v[1] = "param" /\ v[2] = "shared"    ->
         IF v[3][1] = "state" THEN {[k \in 1..n |-> v[3][2]]} ELSE {}
    [] v[1] = "param" /\ v[2] = "separate"  ->
         IF v[3][1] \in ListLike THEN OfLength(ParsedStates(v[3]), n) ELSE {}
    [] OTHER                                -> OfLength(ParsedStates(v), n)

\* parse_dags_batch_param; a state without a dag has <<>>.
DagPerState(items, n) ==
  IF Len(items) = n /\ \A x \in ToSet(items) : x = NotGiven \/ x[1] = "dag"
  THEN {[k \in 1..n |-> IF items[k] = NotGiven THEN <<>> ELSE <<items[k][2]>>]} ELSE {}

ParsedDags(v, n) ==
  CASE v = NotGiven                         -> NoLanes(n)
    [] v[1] = "param" /\ v[2] = "none"      -> NoLanes(n)
    [] v[1] = "dag"                         -> {[k \in 1..n |-> <<v[2]>>]}
    [] v[1] = "param" /\ v[2] = "shared"    ->
         IF v[3][1] = "dag" THEN {[k \in 1..n |-> <<v[3][2]>>]} ELSE {}
    [] v[1] = "param" /\ v[2] = "separate"  ->
         IF v[3][1] \in ListLike THEN DagPerState(v[3][2], n) ELSE {}
    [] v[1] \in Iterables                   -> DagPerState(v[2], n)
    [] OTHER                                -> {}

(***************************************************************************)
(* The readers that do not go through the native parser: those of PyTyr,   *)
(* and the derived encoders of either backend.  They decide by other rules *)
(* whether a lane is shared, and hand on what they were given: a shared    *)
(* lane is one object, which every graph reads anew, so that a generator   *)
(* in it is spent after the first (Spent).                                 *)
(***************************************************************************)
PySequences == ListLike \cup {"text"}

Spent(v) ==
  LET spent[x \in Within(v)] ==
        CASE x[1] = "generator" -> <<"generator", <<>>>>
          [] x[1] \in ListLike  -> <<x[1], [k \in DOMAIN x[2] |-> spent[x[2][k]]]>>
          [] OTHER              -> x
  IN  spent[v]

(***************************************************************************)
(* What each state is handed: a value, or none.                            *)
(***************************************************************************)
HandedToAll(v, n) == {[k \in 1..n |-> IF k = 1 THEN v ELSE Spent(v)]}

HandedEach(items, n) == IF Len(items) = n THEN {items} ELSE {}

\* The leaf test of _lane_values is given by the caller: color takes no actions
\* and calls anything one.
IsOwnLeaf(backend, family, field, x) ==
  CASE field = "goals"   -> IsLeaf(backend, "literal", x)
    [] field = "actions" -> family = "color" \/ IsLeaf(backend, "action", x)
    [] field = "history" -> IsHistoryItem(x)

OwnIndicates(backend, family, field, x) ==
  \/ x = NotGiven
  \/ /\ field = "layers" /\ x[1] \in PySequences
     /\ x[1] = "text" \/ (x[2] # <<>> /\ Head(x[2])[1] \in PySequences)
  \/ /\ field # "layers" /\ x[1] \in PySequences
     /\ ~IsOwnLeaf(backend, family, field, x)

\* _lane_values, _subgoal_values, _sequence_lane and _subgoal_lane
Handed(backend, family, field, v, n) ==
  CASE v = NotGiven \/ (v[1] = "param" /\ v[3] = NotGiven) -> {[k \in 1..n |-> NotGiven]}
    [] v[1] = "param" /\ v[2] = "shared"   -> HandedToAll(v[3], n)
    [] v[1] = "param" /\ v[2] = "separate" ->
         IF v[3][1] \in Iterables THEN HandedEach(v[3][2], n) ELSE {}
    [] v[1] \in Iterables                  ->
         IF \E x \in ToSet(v[2]) : OwnIndicates(backend, family, field, x)
         THEN HandedEach(v[2], n) ELSE HandedToAll(<<"list", v[2]>>, n)
    [] OTHER                               -> {}

(***************************************************************************)
(* What is read of what a state is handed.                                 *)
(***************************************************************************)
LayersWithin(v, max) ==
  \/ v = NotGiven
  \/ /\ v[1] \in ListLike /\ Len(v[2]) <= max
     /\ \A layer \in ToSet(v[2]) : layer[1] \in ListLike

\* PyTyr's horizon and flat horizon encoders make a list of the layers before they
\* check them, its derived and ilg encoders take any iterables.
OwnLayersAccepted(backend, family, v) ==
  CASE backend = "pymimir" \/ family \in {"derived", "ilg"}        -> TRUE
    [] family = "color"                                            -> LayersWithin(v, 3)
    [] family \in {"horizon", "flat_horizon", "flat_transition"}   ->
         v[1] \in Iterables => LayersWithin(<<"list", v[2]>>, MaxLayers)
    [] OTHER                                                       -> LayersWithin(v, MaxLayers)

\* Whatever unpacks into an integer and literals is an entry of the history here.
IsOwnHistory(backend, v) ==
  /\ v[1] \in Iterables
  /\ \A x \in ToSet(v[2]) :
       /\ x[1] \in Iterables /\ Len(x[2]) = 2 /\ x[2][1][1] = "int"
       /\ IsLeafLane(backend, "literal", x[2][2])

\* The derived encoders of pymimir make snapshots of public objects, and of no others.
Reader(backend) == IF backend = "pymimir" THEN "public" ELSE backend

OwnReadable(backend, family, field, v) ==
  \/ v = NotGiven
  \/ CASE field = "history" -> IsOwnHistory(Reader(backend), v)
       [] field = "layers"  -> /\ OwnLayersAccepted(backend, family, v)
                               /\ IsLane(Reader(backend), "layers", v)
       [] OTHER             -> IsLane(Reader(backend), field, v)

\* PyTyr's HGraphEncoder looks at all actions before it hands them on.  The dags of
\* its FlatTransitionEncoder are drawn as graphs first, and of those the lanes are
\* read once for the root and again for each node.
ReadTwice(backend, family, field) ==
  /\ backend = "pytyr"
  /\ \/ family = "hgraph" /\ field = "actions"
     \/ family = "flat_transition" /\ field \in {"goals", "layers"}

AfterChecks(backend, family, field, values) ==
  IF ReadTwice(backend, family, field) THEN [k \in DOMAIN values |-> Spent(values[k])] ELSE values

ReadOwn(field, values) ==
  [k \in DOMAIN values |-> IF values[k] = NotGiven THEN <<>> ELSE <<LaneRead(field, values[k])>>]

OwnLanes(backend, family, field, v, n) ==
  {ReadOwn(field, AfterChecks(backend, family, field, values)) :
     values \in {entries \in Handed(backend, family, field, v, n) :
                   \A k \in DOMAIN entries : OwnReadable(backend, family, field, entries[k])}}

(***************************************************************************)
(* States, successors and dags (transition dags of the backend, whose      *)
(* nodes have the goals of their states and no layers).  What is shared is *)
(* looked at for each state only, so that without states anything may be.  *)
(***************************************************************************)
OwnStates(backend, v) ==
  IF IsLeaf(Reader(backend), "state", v) THEN {<<LeafValue(v)>>}
  ELSE IF IsLeafLane(Reader(backend), "state", v) THEN {LeafValues(v[2])} ELSE {}

HandedAhead(v, type, n) ==
  LET payload == IF v[1] = "param" THEN v[3] ELSE v
  IN  CASE (v[1] = "param" /\ v[2] = "shared") \/ payload[1] = type -> {[k \in 1..n |-> payload]}
        [] payload[1] \in Iterables                                 -> HandedEach(payload[2], n)
        [] OTHER                                                    -> {}

\* _successor_values, _transition_batch_values
OwnSuccessors(v, n) ==
  {LeafValues(values) :
     values \in {s \in HandedAhead(v, "state", n) : \A k \in 1..n : s[k][1] = "state"}}

\* _dag_values
OwnDags(v, n) ==
  IF v = NotGiven \/ (v[1] = "param" /\ v[3] = NotGiven) THEN NoLanes(n)
  ELSE UNION {DagPerState(values, n) : values \in HandedAhead(v, "dag", n)}

-----------------------------------------------------------------------------
(***************************************************************************)
(* Calls.  A call is a record of arguments; what comes of it is a set of   *)
(* one sequence, which has for each graph what is encoded in it, or empty  *)
(* when the call raises.                                                   *)
(***************************************************************************)
Families ==
  {"hgraph", "flat", "color", "derived", "ilg", "horizon", "flat_horizon", "transition",
   "flat_transition"}

WithSuccessors == {"transition", "flat_transition"}
WithDags       == {"horizon", "flat_horizon"}
WithHistory    == {"hgraph", "flat", "derived"}
WithActions    == WithHistory \cup {"ilg"}

LaneFields == {"goals", "actions", "layers", "history"}

(***************************************************************************)
(* The public encoders.  Encoders of lookahead graphs refuse actions and   *)
(* a history that has values, and hand neither on (HasValues,              *)
(* HistoryHasValues: _payload_has_values, which takes any pair for an      *)
(* entry of a history).                                                    *)
(***************************************************************************)
HasValues(v) ==
  LET has[x \in Within(v)] ==
        CASE x = NotGiven       -> FALSE
          [] x[1] = "param"     -> x[2] # "none" /\ has[x[3]]
          [] x[1] \in Iterables -> \E y \in ToSet(x[2]) : has[y]
          [] OTHER              -> TRUE
  IN  has[v]

HistoryHasValues(v) ==
  LET has[x \in Within(v)] ==
        CASE x[1] = "param"                  -> x[2] # "none" /\ has[x[3]]
          [] x[1] = "tuple" /\ Len(x[2]) = 2 -> HasValues(x[2][2])
          [] x[1] \in Iterables              -> \E y \in ToSet(x[2]) : has[y]
          [] OTHER                           -> HasValues(x)
  IN  has[v]

LooksAhead(family) == family \in WithSuccessors \cup WithDags

\* require_batch_successors, require_transition_successors
HasSuccessors(family, v) ==
  /\ v # NotGiven
  /\ v[1] = "param" => v[2] # "none" /\ (family = "flat_transition" => v[3] # NotGiven)

\* Arguments that the family has no name for raise a TypeError (_filter_kwargs).
PublicAccepts(family, call) ==
  /\ IF family \in WithSuccessors THEN HasSuccessors(family, call.successors)
     ELSE call.successors = NotGiven
  /\ family \notin WithDags => call.dags = NotGiven
  /\ family \in {"color", "ilg"} => call.history = NotGiven
  /\ LooksAhead(family) => ~HasValues(call.actions) /\ ~HistoryHasValues(call.history)

HandedOn(family, call, field) ==
  IF LooksAhead(family) /\ field \in {"actions", "history"} THEN NotGiven ELSE call[field]

(***************************************************************************)
(* A graph of a batch.                                                     *)
(***************************************************************************)
Or(optional, default) == IF optional = <<>> THEN default ELSE optional[1]

GraphOf(state, goals, layers, actions, history, ahead) ==
  [state |-> state, goals |-> Or(goals, state.default_goals), layers |-> Or(layers, <<>>),
   actions |-> Or(actions, <<>>), history |-> Or(history, <<>>), ahead |-> ahead]

TrivialDag(state) == [root |-> state, nodes |-> 1]

\* A dag of a root and its successor: FlatTransitionEncoder encodes such dags.
TransitionOf(state, successor) == [root |-> state, nodes |-> 2, successor |-> successor]

(***************************************************************************)
(* pymimir.                                                                *)
(***************************************************************************)
\* validate_subgoal_layers_batch_payload, by flat before and by flat horizon without
\* conversion of the layers.
BatchLayersWithin(v, n) ==
  CASE v[1] = "param" /\ v[2] = "separate" ->
         /\ v[3][1] \in ListLike /\ Len(v[3][2]) = n
         /\ \A x \in ToSet(v[3][2]) : LayersWithin(x, MaxLayers)
    [] v[1] = "param" /\ v[2] # "separate" -> LayersWithin(v[3], MaxLayers)
    [] v[1] \in ListLike /\ (\E x \in ToSet(v[2]) : IndicatesPerState("layers", x)) ->
         Len(v[2]) = n /\ \A x \in ToSet(v[2]) : LayersWithin(x, MaxLayers)
    [] OTHER -> LayersWithin(v, MaxLayers)

LayersChecked(family, call, n) ==
  CASE family = "flat" -> BatchLayersWithin(Converted(call.layers, "literal"), n)
    [] family \in {"flat_horizon", "flat_transition"} -> BatchLayersWithin(call.layers, n)
    [] OTHER -> TRUE

CoreLanes(family, call, field, n) ==
  ParsedLanes(field, Converted(HandedOn(family, call, field), LeafOf(field)), n)

\* An ILG state is read by the facade: facts and goals of a public state; of another
\* one neither, so that it is refused if it has facts.
IsPublic(x) == x[1] = "wrapped"

WithoutGoals(state) == [state EXCEPT !.default_goals = <<>>]

IlgStates(items) ==
  IF \A x \in ToSet(items) : IsLeaf("pymimir", "state", x) /\ (IsPublic(x) \/ x[2].facts = {})
  THEN {[k \in DOMAIN items |-> IF IsPublic(items[k]) THEN LeafValue(items[k])
                                ELSE WithoutGoals(LeafValue(items[k]))]}
  ELSE {}

CoreStates(family, call) ==
  CASE family # "ilg"                   -> ParsedStates(Converted(call.states, "state"))
    [] call.states[1] \in Iterables     -> IlgStates(call.states[2])
    [] OTHER                            -> IlgStates(<<call.states>>)

\* Color has no actions: batch_param_has_non_empty_entries.
NoActions(lanes) == \A k \in DOMAIN lanes : Or(lanes[k], <<>>) = <<>>

RootsMatch(states, dags) == \A k \in DOMAIN states : dags[k] # <<>> => dags[k][1].root = states[k]

CoreAhead(family, call, states) ==
  LET n == Len(states)
  IN  CASE family \in WithSuccessors ->
             {IF family = "transition" THEN s ELSE [k \in 1..n |-> TransitionOf(states[k], s[k])] :
                s \in ParsedSuccessors(Converted(call.successors, "state"), n)}
        [] family \in WithDags ->
             {[k \in 1..n |-> Or(dags[k], TrivialDag(states[k]))] :
                dags \in {d \in ParsedDags(call.dags, n) : RootsMatch(states, d)}}
        [] OTHER -> {[k \in 1..n |-> NotGiven]}

\* The engines of these families take the layers of a state only with its goals.
DropsLayers(family) ==
  family \in {"hgraph", "horizon", "flat_horizon", "transition", "flat_transition"}

LayersUsed(family, goals, layers) == IF goals = <<>> /\ DropsLayers(family) THEN <<>> ELSE layers

CoreGraphs(family, call, states) ==
  LET n == Len(states)
  IN  {[k \in 1..n |->
          GraphOf(states[k], goals[k], LayersUsed(family, goals[k], layers[k]), actions[k],
                  history[k], ahead[k])] :
         goals   \in CoreLanes(family, call, "goals", n),
         actions \in {a \in CoreLanes(family, call, "actions", n) :
                        family = "color" => NoActions(a)},
         layers  \in CoreLanes(family, call, "layers", n),
         history \in CoreLanes(family, call, "history", n),
         ahead   \in CoreAhead(family, call, states)}

\* Without states the flat parser reads no other argument.
CoreBatch(family, call) ==
  UNION {IF family = "flat" /\ states = <<>> THEN {<<>>} ELSE CoreGraphs(family, call, states) :
           states \in {s \in CoreStates(family, call) : LayersChecked(family, call, Len(s))}}

(***************************************************************************)
(* PyTyr, and the derived encoders of pymimir.                             *)
(***************************************************************************)
OwnAhead(family, call, states) ==
  LET n == Len(states)
  IN  CASE family \in WithSuccessors ->
             {IF family = "transition" THEN s ELSE [k \in 1..n |-> TransitionOf(states[k], s[k])] :
                s \in OwnSuccessors(call.successors, n)}
        [] family \in WithDags ->
             {[k \in 1..n |-> Or(dags[k], TrivialDag(states[k]))] :
                dags \in {d \in OwnDags(call.dags, n) : RootsMatch(states, d)}}
        [] OTHER -> {[k \in 1..n |-> NotGiven]}

Truthy(v) ==
  CASE v = NotGiven      -> FALSE
    [] v[1] \in ListLike -> v[2] # <<>>
    [] v[1] = "int"      -> v[2] # 0
    [] v[1] = "bool"     -> v[2]
    [] OTHER             -> TRUE

\* Color refuses any payload that is true as actions, and reads none.
ColorActions(backend, v, n) ==
  IF \E values \in Handed(backend, "color", "actions", v, n) :
       \A k \in DOMAIN values : ~Truthy(values[k])
  THEN NoLanes(n) ELSE {}

OwnActions(backend, family, call, n) ==
  IF family = "color" THEN ColorActions(backend, call.actions, n)
  ELSE OwnLanes(backend, family, "actions", HandedOn(family, call, "actions"), n)

OwnGraphs(backend, family, call, states) ==
  LET n == Len(states)
      lanes(field) == OwnLanes(backend, family, field, HandedOn(family, call, field), n)
  IN  {[k \in 1..n |->
          GraphOf(states[k], goals[k], layers[k], actions[k], history[k], ahead[k])] :
         goals   \in lanes("goals"),
         actions \in OwnActions(backend, family, call, n),
         layers  \in lanes("layers"),
         history \in lanes("history"),
         ahead   \in OwnAhead(family, call, states)}

OwnBatch(backend, family, call) ==
  UNION {OwnGraphs(backend, family, call, states) : states \in OwnStates(backend, call.states)}

(***************************************************************************)
(* encode_batch.                                                           *)
(***************************************************************************)
ReadsItsOwn(backend, family) == backend = "pytyr" \/ family = "derived"

EncodedBatch(backend, family, call) ==
  IF ~PublicAccepts(family, call) THEN {}
  ELSE IF ReadsItsOwn(backend, family) THEN OwnBatch(backend, family, call)
  ELSE CoreBatch(family, call)
=============================================================================
