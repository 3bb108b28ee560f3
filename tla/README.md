# mifrost in TLA+

mifrost turns states of planning problems into graph batches for PyTorch
Geometric. C++ encoders (`src/src/_core/mifrost`) write graphs into a
`BatchBuilder`; Python facades (`src/src/mifrost`) drive them for two planner
backends, pymimir and pytyr. This directory holds TLA+ modules for the parts that
keep state and for the encoders between them, TLC configurations for small
instances, and TLAPS proofs of the properties that matter for every instance.

Paths in this file are relative to `src/` (so `src/_core/...` is the C++ core and
`src/mifrost/...` the Python package). Line references are to files as they stand
next to this directory.

Contents: [parts](#parts) · [modules and code](#modules-and-code) ·
[runs](#runs) · [findings](#findings) · [proofs](#proofs) ·
[fairness](#fairness-and-liveness) · [not modelled](#what-is-not-modelled) ·
[plan](#plan)

## Parts

```
 states, goals,          facades (hgraph.py, flat.py, ...)             training code
 actions, history          |  encode, encode_batch, streams                 ^
      |                    v                                                |
      |            batch arguments: shared or per state?                    |
      v                    v                                                |
 owned input / views --> encoder: one graph ----> BatchBuilder ------> BatchEncoding
      ^                  hetero, flat, derived,   next_graph /         get_field, to,
      |                  color, horizon           append_batch_        PyG views, pickle
 TransitionDAG           (pure)                   encoding / build
 (search graphs,           ^
  rustworkx)         adapter_for(problem): ProblemAdapterCache
```

| Part | State it keeps | Operations | What is hard about it |
|---|---|---|---|
| **BatchBuilder** `core/batch_builder.cpp` | per node type: nodes of the open graph, offset, boundary vector (`ptr`); edge columns; number of graphs | `add_nodes`, `add_edge`, `next_graph`, `append_batch_encoding`, `build`, `load_from_batch_encoding`, `reset`, and the PyG build | Three separate pieces of code advance the boundaries, a fourth reads them. Types come and go between graphs. Exceptions leave a call half done. |
| **Graph fields** `core/graph_fields.hpp` | per field: mode, increment, committed rows, boundaries, pending rows of the open graph | `register_graph_field`, `set_graph_field`, commit and merge (inside the builder) | Rows that are indices must be shifted by what earlier graphs hold; the shift of one field is read from another field that is being written in the same loop. |
| **Native streams** `core/encoders/common/stream_encoder_base.hpp` | a vector of cached single-graph encodings with an `active` flag, `reuse_removed` | `append`, `update`, `remove`, `set_reuse_removed`, `flush`, `reset` | ids are slot numbers; batches are in slot order, not in call order |
| **Recipe streams** `mifrost/encoders/custom/base.py`, `mifrost/backends/pymimir_derived.py` | a dict from id to inputs, the removed ids, the next id | the same calls | a second implementation that must agree with the first |
| **Append-only stream** `backends/pymimir/encoders/hetero/hgraph_stream_encoder.cpp` | one builder shared by all appends, the next id, the declared relations | `append`, `update_relations`, `flush`, `reset` | An append that raises midway leaves what it has written in the open graph. Relations may change between two appends of one batch. |
| **BatchEncoding** `batch_encoding_*.cpp`, `pyg_views.cpp` | field storage, target device, tensor cache; each view keeps tensors | `set_field(s)`, `get_field`, `to`, views, `dumps`/`loads`, writes into returned tensors | Some tensors alias storage, some are copies; calls fail between the assignment and the invalidation |
| **Problem adapter cache** `backends/pymimir/problem_adapter_cache.hpp` | a map from the address of a problem to a weak pointer and an adapter | `adapter_for` | addresses are recycled; callers may have released the interpreter lock |
| **Transition DAG** `backends/pymimir/encoders/common/transition_dag.cpp`, `core/semantic/semantic_transition_dag.cpp`, `mifrost/backends/pytyr_horizon.py` | nodes with labels and depths, rows of children | `register_transition(s)`, `from_rustworkx`, the conversion to the encoders' dag | Calls raise midway. Labels of a node come from several calls. Depths are kept incrementally and checked again by the encoders. Two importers read one rustworkx graph. |
| **Semantic views** `core/views/` | pools of atoms and actions, lanes that point into them | made once per graph | A second way to hand over a state, with goals deduplicated and levelled by code of its own |
| **Encoders** `core/encoders/{hetero,flat,homo}/` | none that outlives a call | one graph from one state or one dag | What is emitted must have been declared or planned before: relation types, entity rows, instance tables. Every lane passes through many switches of the configuration. |
| **Flat compositions** `core/encoders/flat/flat_composition.cpp` | the compiled plan | `add_component`, `compile`, encoding by phases | Ownership of records and of declarations is decided at three places. |
| **Batch arguments** `input_handling/batch_input_parser.cpp`, `mifrost/encoders/_batch_contract.py`, `mifrost/backends/pytyr_*.py` | none | from the arguments of `encode_batch` to one lane per state | Shared and per-state arguments are told apart by shape, by several readers that must agree. |
| Snapshot memos, visualisation, bindings, schemas' serial form | see [not modelled](#what-is-not-modelled) | | |

What makes each part correct:

* **BatchBuilder and fields.** A batch is a sequence of graphs. However graphs come
  in, each can be cut out again, unchanged and in its own numbering; no edge joins
  two graphs; no call that throws damages a committed graph for a caller that
  resets.
* **Streams.** An id names one live entry. A flush is what is live, in id order. The
  two implementations cannot be told apart. The append-only stream gives out an id per
  graph, and the graph of an id is what its append wrote.
* **BatchEncoding.** What is read is what is stored, on the device that was asked for.
* **Adapter cache.** A state is encoded with the adapter of its own problem.
* **Transition DAG.** It is what was registered. Depths are distances. Nothing is taken
  back. What calls that returned have built, the encoders accept.
* **Encoders.** A graph says what its input says, and nothing else. What it contains was declared.
  It makes no difference whether the state came as owned input or as views.
* **Compositions and batches.** A record is emitted by its owners and by nobody else. A batch
  encodes for each state what was given for it, and a reader finds it there.

`PROJECT.json` lists every part with its sources, and under `hazards` each place
where the code could fail in a way that a test would hardly reach.

## Modules and code

A name in a module is the name in the source wherever TLA+ allows it. `PROJECT.json`
gives the lines behind each definition. Definitions marked *Mutant* are plausible
bugs. Nothing uses them: put in place of the definition after them, they
break a property.

### The batch builder

| Module | Stands for |
|---|---|
| `GraphBatch` | the promise: a batch is a sequence of graphs, with no offsets anywhere |
| `FieldStorage` | field modes, and `validate_graph_field_storage` |
| `GraphFields` | registering, setting, committing and merging graph fields |
| `BatchBuilder` | the builder: EXTENDS `GraphFields`, since commit and merge of nodes and of fields are one step |
| `BatchBuilderProperties` | the properties, and two mappings that cut a batch back into graphs: `ShapeOf` into nodes and edges, `GraphOf` into these and the rows of fields |
| `IdOrder` | the values of a function in the order of its numbers: slots of a stream, edges of a graph, records of a component; sums of what is in front of a place |
| `MCBatchBuilder` | instances: nodes and edges, then fields, in one run |

How the state corresponds:

* The C++ maps `ptr_`, `node_offsets_` and `current_node_counts_` are functions over all
  `NodeTypes`. A missing key is `<<>>` or 0. The one case where a missing key and
  a zero differ is the key set of `current_node_counts_`, whose keys outlive
  their graph; it is kept in `counted`.
* `registered` is a sequence because the field map iterates in insertion order,
  and that order decides which fields a throwing commit or merge has already
  written and whether a `FIELD_OFFSET` counts a graph twice.
* A field row is one integer. `dim`, `dtype` and the transposed layout of
  `cat_dim = 1` do not change which row ends up where. Feature columns, names and
  attributes are moved together with nodes and edges and are left out.
* `NextGraphThrows` and `AppendEncodingThrows` are the exceptions out of
  `next_graph`/`build` and `append_batch_encoding`. They leave what was written before
  the throw. `torn` records that, and only `Reset` is possible afterwards: no code of the
  repository goes on with such a builder.
* `encoding` is what the last `build()` returned. `build()` resets the builder, so the
  two never hold graphs at the same time, and `LoadFromEncoding` continues from it.
* `PygPtrs` and `PygBatchVector` are what `build_pyg` makes of the boundaries. It moves
  the columns out of the builder that calls it; `as_pyg` loads an encoding into a
  private builder for it (`batch_encoding_conversion.cpp:430`), so there is no action for it.

Five guards are about callers rather than about the code, and each has a name:

* `MayCommit`: a type has been declared before the first commit, as all encoders do.
  Without one, leading graphs are lost from the count (`batch_builder.cpp:1015`).
* `HasTypedGraphs`: a builder whose types are declared has a node or a graph when it is built. From one
  without either, `build()` makes a graph that no boundary vector shows (`batch_builder.cpp:1042-1052`).
  `GraphCount` has the branch; a property that would count its graphs has nothing to cut.
* `MayMerge`: nothing is open when an encoding is merged, as in streams and
  collections. `append_batch_encoding` itself would accept it.
* `LocalRows` and the guard of `AddEdge`: indices are those of the open graph.
* `Liberties` lists two patterns that callers do use and that break properties:
  fields first seen after the first graph (`"late"`), and merges with the count field in front
  of the ids that use it (`"counts_first"`). The passing runs are without them, and one
  violation run has both.

### Streams

| Module | Stands for |
|---|---|
| `EncodingStream` | the promise: live entries under ids, flushed in id order |
| `CachedStream` | `StreamEncoderBase`, with the reset that the facades add behind `flush` |
| `RecipeStream` | `CustomStream`, and the derived encoders' stream with the same bookkeeping |
| `StreamParity` | both, driven by the same calls |

A step stands for the encoding it produces. A set in `Clashes` is a set of steps
whose encodings cannot be merged: the flush raises, and both streams keep their
entries. `RemoveAgain` is the call that the two answer differently (accepted by one, `KeyError` from
the other) with no effect on live entries. A flush of a stream without entries is the call they
answer differently *with* an effect, and is left out: see the observations below.

### Encodings and their tensors

`EncodingTensors` models a finished `BatchEncoding` after it has been handed out.
A tensor is one of three things: a view of the stored vector, a view of a vector
that has been replaced since ("freed"), or a copy with rows of its own. After
`to()` there is a cache with a tensor per field and boundary vector: values on
the host are views, boundaries and everything elsewhere are copies.

Assignment follows the code statement by statement: ragged boundaries are
assigned before the values are coerced, both before they are validated, and the cache is
cleared only after everything succeeded (`SetFields` and `SetFieldsRaises`). `to()`
sets the device first, so it can fail before the cache is touched
(`ToRaisesOnAttribute`) or after it is dropped (`ToRaisesOnField`).

Three history variables name exactly what the properties excuse:

* `spoiled`: keys whose cached tensor a caller wrote to in place, or that a failed `set_fields`
  assigned behind the cache's back;
* `misplaced`: `to()` failed between setting the device and rebuilding the cache;
* `left_behind`: views that had read something when some other call moved the
  encoding.

They are history variables: no guard reads them, and they influence only one
another (`misplaced` decides which views become `left_behind`).

### The adapter cache

`AdapterCache` splits `adapter_for` at its statements (look up, bind the weak pointer,
build, return the reference) because `append` and `update` run it without the
interpreter lock. `Load` and `Drop` are Python code that runs in between. The weak pointer of a
binding leads somewhere as long as someone, a caller or a call, holds the problem.
`MaxInside` is the number of simultaneous calls. The map's own insertion is
taken as atomic; that it is not would only make the finding below worse.
Building an adapter does not fail in the model: its constructor only raises when
memory runs out.

### Search graphs

| Module | Stands for |
|---|---|
| `TransitionDag` | `TransitionDAG`: registering a transition, labels, depths |
| `SemanticDag` | `SemanticTransitionDAG`, the encoders' dag: what its constructor accepts, for the hetero and the flat family |
| `RustworkxImport` | `from_rustworkx` in C++, and PyTyr's importer in Python |
| `LookaheadGraphs` | a caller's dag over its life |
| `MCLookaheadGraphs` | an instance |

The operators of `TransitionDag` take a dag and return the next one, as the
methods change theirs. `Registers` says whether a registration returns, `AfterRecord` what it leaves
behind in either case: a parent that did not exist is added before the labels of the child are
compared, so a refused call can leave a node. `register_transitions` is a loop with
one action per record (`bulk`), because it can raise in the middle and computes
depths only at its end; `unfinished` names the time in between. The edge loop of
`from_rustworkx` is `import`: edges whose source has no node yet wait for the next round.
A dag that an import makes replaces the caller's, so `imported` marks it.

### Encoders

| Module | Stands for |
|---|---|
| `PlanningInputs` | what every encoder is given: the owned input, `ViewPreparation` with its pools, and the lanes read from either |
| `HeteroRelations` | relation types, their arities, what an encoder declares |
| `HeteroGraph` | `SemanticHGraphEncoderEngine`: one state, or a transition, as a heterogeneous graph with anchors, targets, derivations and locality (LGAN); and the append-only stream of such graphs |
| `FlatGraph` | schema, entity table and tuples of the flat family |
| `HorizonGraphs` | what both Horizon encoders read of a dag, `encode_horizon` of the hetero engine, and the flat Horizon encoder |
| `FlatBatch` | how tuples of several graphs are stored, packed by relation, collated by PyG and found again |
| `DerivedGraph`, `DerivedBatch` | the instance table, nodes, edges, shortcuts and distances of the derived encoders; their tensors in a batch and in PyG |
| `ColorGraph` | color graphs, with names and without |
| `FlatComposition` | components from `compile()` to emission, and the built-in flat encoders as a composition |
| `BatchCalls` | the arguments of `encode_batch`, as the native parser reads them and as the readers of PyTyr and of the derived encoders do; and what a call comes to, per family and backend |
| `Collation` | the Python attributes of single encodings, as `batch_encodings` collates them by spec or by default |
| `PygExport` | names, graph attrs and target names in a batch, and what `as_pyg` makes of them, of attributes and of homogeneous edges |
| `EncoderSessions` | all of these at work |
| `MCEncoderSessions` | an instance |

An encoder keeps nothing between calls, so an encoding is no variable: it is an
operator of the configuration and the input, and the properties say what
encoding the present input gives. The variables of `EncoderSessions` are what a caller
holds. A session is of one of six kinds:

* `encoding`: a planner acts (`Act`, which adds the effects to the history), sets
  subgoals, offers actions; the state can be encoded at any time by each family;
* `searching`: a dag grows from the root and is encoded by both Horizon encoders;
* `appending`: inputs go into the append-only stream (and, for the two batch properties, into
  batches), relations are updated in between, and appends raise before, at the start or in the
  middle of a graph;
* `composing`: components are added, compiled and given records;
* `batching`: the arguments of a call of `encode_batch` are put together;
* `collating`: attributes are set on single encodings, which are then batched and exported.

How data is abstracted:

* A node, an entity or a tuple argument is known by what it stands for (an
  object, an anchor, a state), not by a number. Numbers come in where the code
  computes with them: positions of slots, the arguments of packed tuples, the node numbers in
  derived tensors.
* A relation name is the tuple of its parts, as in `RelationKey`. That two different
  tuples never print alike is assumed.
* A hetero graph is put together from entries, one per occurrence; the nodes and edges
  are read off the entries as sets, since the code makes a node once per type and content.
* Python values in `BatchCalls` are tuples with their kind in front; a generator is a
  container that can be read once. The facade's conversion and the parsers' decisions are modelled;
  error texts are not. Values of attributes are tagged in the same way; a tensor is its rank and its rows, and its element type
  is left out.
* What a reader makes of an argument is a set with at most one element; it is empty when the call raises.

## Runs

The passing runs explore their state space completely.

| Run | Asks | Bounds | Distinct states |
|---|---|---|---|
| `builder` | Do nodes, edges, boundaries and field rows always cut back into the graphs, also when a commit or merge is refused? | 2 node types, an edge type between them, 3 graphs of at most 2 nodes per type, 2 edges, two encodings to merge; with fields (every mode and every increment, `FieldsApart`) 2 graphs of one type and 3 encodings more, one lacking a field and with another constant, one without ids | 62,505 |
| `stream_parity` | Do the two streams agree, and does each keep the promise? | 3 steps of which two clash, 4 ids | 38,874 |
| `encoding_tensors` | Do reads and views follow storage and device through failures? | a STACK and a RAGGED_CAT field, 2 graphs, 2 devices, 2 views with 2 properties | 243,120 |
| `adapter_cache` | Does every call encode with its own live adapter? | 4 problems on 2 addresses, 2 threads, one call at a time | 252,165 |
| `lookahead_graphs` | Is a search graph what was registered, whatever calls raise, and do the importers agree? | 3 states, 2 actions, 3 transitions, 1 refused call, bulk calls; rustworkx graphs of 3 nodes and 3 edges, of which those with at most one edge are built on | 168,762 |
| `encoder_sessions` | Does every family show its input, from either form of it, and do streams, compositions and batches keep it? | 3 objects, 4 predicates, 2 schemas; histories of 2, dags of 3 transitions, 3 appends, 4 components with 2 records, calls with two arguments besides the states, up to 3 encodings with 3 changes under 9 sets of collate specs; 5 + 5 + 2 encoder configurations | 24,078 |

Why these bounds are enough:

* *Three graphs, two types.* A type can first appear in graph 1, 2 or 3, and can
  stay away from a graph in the middle or at the end. `build()` then has 0, 1 or
  2 boundaries to pad. Offsets are per type and independent, so that a second type
  is needed only to tell the source's offset from the target's. Two
  graphs are enough for fields: a shift reads the sum over earlier graphs, and the
  double count of `merged_fields` shows with the first encoding that has counts.
* *Four ids.* Two can be removed while two stay live: reuse has a smallest id to
  choose, and id order differs from call order.
* *Two views, two devices.* One view is moved while the other one has read something.
* *Four problems on two addresses.* An address is recycled twice while the other is in use.
* *Three states, three transitions.* Enough for a diamond without its second level, a
  cycle, a self-loop, a repeated pair, a node reached late whose depth shrinks, an edge between unreached
  nodes, and in an import an edge that waits for the next round.
* *Four predicates.* One each that is static, fluent, nullary and derived, of arity 3, 1, 0 and 1,
  so that each category and each special case of arity occurs. One object is named like a predicate. Subgoals repeat a goal and one
  another.
* *Encoder configurations.* Instead of all combinations of some thirty switches, twelve configurations are
  chosen so that each switch is on in one and meets the switches it shares code with.
* *Two states per batch.* A shared argument and one per state differ for two states
  as they do for more. Shapes that two readers could take for different things (a pair, a layer list of
  the length of the batch, an empty list) are all among the arguments.

`MaxNodes`, `MaxEdges`, `MaxGraphs`, `MaxIds`, `MaxInside`, `Orders` (the
orders in which fields are registered), `MaxTransitions`, `MaxRefused`, `MaxBuiltOn`, `MaxRxEdges`,
`MaxHistory`, `MaxAppends`, `MaxComponents`, `MaxRecords` and `MaxChanges` are the bounds in the modules, and
`MaxNesting` in `BatchCalls`: how deep the values of a call nest. TLC stops with an error when a call has a deeper one.
(`MaxLayers` is no bound of the model but `max_goal_level` of the encoders.) `CHECK_DEADLOCK FALSE`
is in the configurations of three modules: in those of `AdapterCache` each problem is loaded once, so the
supply of problems runs out; in those of `MCLookaheadGraphs` and `MCEncoderSessions` a caller stops when a
bound is reached, as any caller of a library may stop. `builder` has a state
constraint (`FieldsApart`): once there are fields, two graphs and one node type. `MCEncodingTensors` uses symmetry:
the sets concerned are sets of model values that no definition tells apart, and
no liveness is checked there.

What the properties say:

* `BoundariesTrackOffsets`, `SomePtrSpansTheBatch`: the boundary vector of each type ends at
  the type's offset, never runs ahead of the graphs, and some type spans all
  graphs, so that `build()` counts them right. `next_graph`, `append_batch_encoding` and
  `load_from_batch_encoding` each maintain this with code of their own.
* `EdgesStayInOneGraph`: both ends of each stored edge lie in one graph's range.
* `BuiltEncodingValid`: what `build()` returns passes the validation that `loads` and
  the conversions apply.
* `FieldIdsInRange`: ids of a `FIELD_OFFSET` field are ids its count field declares.
* `CutsBackIntoItsShapes`, `CutsBackIntoItsGraphs`: `BatchBuilder` implements `GraphBatch`. The mappings
  `ShapeOf` and `GraphOf` recompute every local graph from the global columns in every state, so a
  wrong shift, a missing boundary or a padding at the wrong end, in any graph and
  at any later time, shows as a committed graph that changed. The first is about nodes and edges
  and is proved; the second adds the rows of fields.
* `SameEntries`, `SameFreshId`, `SameBatches`: the two streams agree.
  `CachedKeepsPromise`, `RecipeKeepsPromise`: each implements `EncodingStream`.
* `ReadsFollowStorage`, `ViewsFollowDevice`: a cached tensor shows the storage, never a
  freed vector, on the target device, and views do not mix devices, apart from
  what `spoiled`, `misplaced` and `left_behind` name.
* `EncodesWithItsAdapter`, `BuiltOnce`: at the moment of encoding the adapter exists
  and belongs to the problem; it was built once.

* `PygBuildKeepsGraphs`: the PyG build, which reads the boundaries with code of its own, splits
  an encoding into the same graphs.
* Search graphs. `DagIsWhatWasRegistered`: one node per state, one edge per accepted record, and nothing
  else but the parents of refused calls. `DepthsAreDistances` and `LabelsAreTheFirstGiven`: for calls in any order, in bulk
  or one by one. `BuiltDagsEncode`: the constructor of the encoders' dag accepts exactly what calls
  that returned have built, but for the cases it names. `ImportersAgree`,
  `ImportRaisesWithPyTyr`: the importers of the two backends read a rustworkx graph
  alike and refuse the same graphs. `NothingIsTakenBack`: indices, labels and edges are stable through every call,
  also one that raises. `ImportEnds`: the edge loop ends on every graph.
* `ViewsEncodeLikeOwned`: for all families the two forms of input encode alike.
* `EveryGraphShowsTheInput`, `HorizonShowsEveryState`: a graph is read back by types and slots
  and compared with what the input says, in both directions: nothing is missing, nothing is made up.
  The reading knows nothing of how the graph was written.
* `EmittedAsPlanned`: tuples and nodes are of declared relations, with the declared slots, over planned rows.
* `SameNeighbourhoods`: the two families' locality fields, computed by separate
  code over separate numberings, mark the same pairs.
* `DerivedGraphDrawsTheTable`: nodes, edges and distances of a derived graph against its instance table.
* `ColorGraphsIgnoreNames`: exporting names changes no number and no color, unless `NamesClash`.
* `BatchedRowsUnpack`: graph-major, packed by relation or collated, a reader finds the tuples of a relation of
  a graph; and the rows of a derived graph survive batching by the builder and by PyG.
* `EncodingsSurviveCollation`: attributes, names and references of single encodings are found again in their batch at
  their position, and a single PyG object has the attributes of its encoding.
* `StreamKeepsAppends`: ids and graphs of the append-only stream stay together through appends that raise
  at three different places. It says exactly which graph has what an append wrote that raised midway;
  that a graph should not have it is `GraphIsItsAppend`, which does not hold (`torn_appends`).
* `OnlyOwnersEmit`: a component emits only records that it declares and that name it or nobody, none more often than given,
  and under unique owners no two emit the same; records that name nobody are emitted by all who declare them;
  and what is emitted is whole. That the component which a record names emits it is `NamedOwnersEmit`,
  which does not hold (`named_owners`).
* `BatchEncodesEachState`: each state of a batch is encoded with the lanes given for it, shared, bare or one
  per state, for both backends and all families; and plain calls are not refused. Two kinds of lanes are
  set apart (`SetApart`): layers without goals, and generators that were read before. For these the property says
  nothing, and `SharedLayersServeAllStates` does not hold (`shared_layers`).

Each property of a passing run has a mutant in `PROJECT.json`: a changed definition with which the run fails.
What properties excuse has a name and a comment with the line that causes it:
`spoiled`, `misplaced`, `left_behind`, `NamesClash`, and the lanes of `SetApart`.

## Findings

Six runs are expected to fail, each on one property, two of them by two faults of the code at once. Each of them stops at the first
state that violates it, at the bounds of the passing run of its module.

| Run | What it shows |
|---|---|
| `merged_fields` | An encoding with counts and ids, in this order, is merged behind a graph without fields, and no field of what `build()` returns is sound (`SomeFieldIsSound`). The ids: `append_batch_encoding` sums a `FIELD_OFFSET` while it is appending fields, so the sum already holds the merged encoding's own count. No count was committed before, and yet the ids `<<1, 0>>` become `<<3, 2>>` beside the count `<<2>>`; the same happens in an empty builder. `next_graph` computes all increments first and gets it right. The counts: a STACK field that only the later encoding carries is registered without rows for the graph before, and `build()` returns what its own validation refuses. The other order is refused at the merge. |
| `in_place_writes` | After `to("cpu")` the boundary vector that `get_field` returns is the cached tensor itself. A write to it shows in later reads, though boundaries are documented as snapshots. |
| `appending_threads` | Two threads append states of one new problem to streams of one encoder, both without the interpreter lock. Both build an adapter, and the second destroys the one the first is encoding with. |
| `torn_appends` | An append to the append-only stream raises in the middle of a graph (no anchor for LGAN edges). Its nodes stay in the shared builder, and the next append returns an id whose graph holds both. |
| `named_owners` | Two components declare a relation, owners are unique, and a record names one of them, as the error text and `docs/flat-composition.md` advise. The record passes validation and is emitted by nobody (`flat_composition.cpp:644-656`, `1139-1151`). |
| `shared_layers` | Two states share subgoal layers, which are a generator, and have no goals; neither backend gives each its layers. In C++ the pymimir `hgraph`, Horizon and transition engines take the default goals and drop the layers (`hgraph_stream_encoder.cpp:299-305`), where `encode` keeps them. In Python PyTyr reads the generator for the first graph, and for the second it is empty (`pytyr_flat.py:59`, `81`). The tutorial promises one payload reused for all states. |

Smaller observations made while modelling, excused by name or outside of the inputs of a run:

* Encoders of lookahead graphs refuse a history, but of a pair of histories they look
  only at the second (`_horizon_validation.py:20`).
* The `-1` that marks a row without a node in `instance_node_indices` is shifted with the rest by
  batching (a comment says so, `_derived_visualization.py:564`); `BatchedRowsUnpack`
  reads it for rows that have a node.
* With line-graph edges and without reverse edges, the direction of a shortcut depends on the order
  of the goals, which owned input sorts and views do not.
* A ragged key and a key `<key>_ptr` of its own may both be set: the boundaries are overwritten by the collated default
  (`batch_encoding_collection.cpp:113-116`).
* `cat_dim=1` passes the rules for `dim=1` and is then refused with any value, since its pieces have no second dimension.
* Target names that were read (attr or strings) come before those still deferred, whatever the order of the graphs
  (`ReadAfterDeferred`; `batch_encoding_state.cpp:122-165`).
* Names of nodes and objects are flat lists that are cut by node counts: a graph without names in front of one with names
  gets the latter's.
* `build` takes the number of graphs from the longest boundaries (`batch_builder.cpp:1015-1055`): encodings without any
  node type, in front of all others, are no graphs of their batch (`Uncounted`), and its stacked fields, which have a value
  for each of them, keep it from being exported.
* A single homogeneous object has its edges mirrored unless the encoder declared `include_reverse_edges`,
  whatever its value; a batched object never has.
* A single PyG object takes a list of one for a collated value and unwraps it.
* `update_relations` changes the relations of later appends only; an arity that
  differs from the open batch's makes every append raise until `flush`.
* append, remove, flush, append: the native facade flushes an empty batch and restarts at id 0 (`encoders/base.py:331-334`);
  `CustomStream` refuses to flush an empty stream and goes on with id 1 (`custom/base.py:400`).
  `docs/how-to/write-your-own-encoder.md:179-181` says the two work alike.
* What holds for shared layers holds for any shared lane that is a generator, also in the Python code of derived encoders
  (`SpentBefore`). In the PyTyr `hgraph` runtime a generator of actions is spent even before the first graph,
  by the check of the actions (`pytyr_hgraph.py:174-180`).

## Proofs

TLAPS checks the following for all values of the constants that satisfy the
named assumptions in the modules (`EdgeEnds`, `SingleGraphs`, `FieldSpecs`,
`AssignmentTypes`, `InputsOwned`, `RecordsGiven`, ...), none of which bounds a size.

| Module | Theorems | Inductive invariant |
|---|---|---|
| `BatchBuilder_proofs` | `GraphTypes`, `BoundariesAlwaysTrackOffsets`, `SomePtrAlwaysSpans`, `EdgesAlwaysStayInOneGraph`, `BuiltPtrsAlwaysSpan`, `PygBuildAlwaysKeepsGraphs`, `BuilderTypes`, `BuiltEncodingsAreValid`, `IdsAlwaysInRange`, `BatchIsItsShapes` | `IInv`, with `FieldInv`, `StorageInv`, `RangeInv` and `HandedClean` on top |
| `StreamParity_proofs` | `EntriesStaySame`, `FreshIdsStaySame`, `FlushesStaySame`, `RecipeStreamKeepsPromise`, `CachedStreamKeepsPromise` | `Inv`, `Typed` |
| `EncodingTensors_proofs` | `CacheFollowsStorage`, `ViewsStayOnDevice`, `TensorTypesHold` | `CacheInv`, and the view invariant on top |
| `AdapterCache_proofs` | `CallsEncodeWithTheirAdapter`, `AdaptersAreBuiltOnce`, `CallsAreTyped` | `Inv`; `CalledInv` for the types |
| `LookaheadGraphs_proofs` | `AlwaysTyped`, `AlwaysOneNode`, `NeverTakenBack`, `AlwaysWhatWasRegistered`, `AlwaysFirstGiven`, `AlwaysDistances`, `AlwaysEncoded`, `RaisesWithPyTyr`, `AlwaysAgree` | `Inv`, `Tells`, `DepthsComputed`, `Reads` |
| `EncoderSessions_proofs` | `StreamAlwaysKeepsAppends`, `BatchedRowsAlwaysUnpack`, `OnlyOwnersAlwaysEmit`, `ViewsAlwaysEncodeLikeOwned`, `DerivedGraphAlwaysDrawsTheTable` | `StreamInv`; with `AppendingConfig`; `CompositionInv`; `PlannedInput` of the root; with `DrawingConfig` |
| `GraphRows_proofs` | `TuplesUnpack`, `DrawingsAlwaysSurvive` | none: about the operators of `FlatGraph`, `FlatBatch`, `DerivedGraph` and `DerivedBatch` |
| `IdOrder_proofs` | lemmas on ids in order, for streams, cuts and compositions, on sums and concatenations, and on vectors of one content | |

**Batch builder.** The builder's variables and a finished encoding are two forms of one
thing, so both are turned into a record (`Layout`, `LayoutOf`) and one predicate, `Good`,
is kept for both: types, `WellBounded`, `Spanned` and `EdgesWithinGraphs`. None of the safety
properties is inductive alone. Edges stay in one graph only while the
boundaries end at the offsets, and loading keeps either only if `build()` padded
correctly, so `IInv` is `Good` of the builder and, when there is one, `Good` of the encoding with
the lengths of its padded boundaries. The argument goes through two lemmas about
padding (`PaddedEntries`, `PaddedAppend`: appending a boundary to a short vector
and then padding is padding first and then appending) and one lemma per way a
graph comes in: `CommittedGood` for `next_graph`, `JoinedGood` for a merge, `SealedGood` for
`build()`, together with `GraphCountIsRight` (the longest boundary vector has the
number of graphs).

The PyG build reads the boundaries with code of its own. `BatchVectorFacts` says what its vector holds at each
node (the graph in whose range the node falls), and `GoodKeepsGraphs` concludes for every good layout, so that
`PygBuildAlwaysKeepsGraphs` needs no invariant beyond `IInv`.

**The refinement of `GraphBatch`.** `BatchIsItsShapes` shows that every initial state maps to an initial state and
every step to a step of `GraphBatch` or to a stutter, for nodes and edges. A cut is the edges whose source lies in a
range, in the order of their numbers. `EdgesStayInOneGraph` alone does not make it right: that an edge with its
source in the range has its target there too takes ranges that do not overlap, and those come from `IInv`. The argument is in three layers:

* lemmas on order (`IdOrder_proofs`): a function on finitely many numbers has one listing, and adding numbers behind all others
  appends to it, taking numbers from none changes nothing;
* lemmas on layouts (`BatchBuilder_proofs`): a cut of a committed graph reads neither what is appended behind it nor how the
  boundaries are padded (`CutsKept`), a commit appends the open cut (`CommitAppends`), and a merged
  encoding is cut out as it was before it was shifted (`JoinedCut`);
* one lemma per action (`AddNodesShapes` to `ResetShapes`). `HandedClean` is needed for them: while an encoding is
  handed out, nothing is open in the builder, so that `load` and `reset` lose nothing.

A step that throws maps to the loss of the open graph (`Aborted`): what was committed stays.

**Streams.** `Inv` is `SameEntries` with the types it needs. `NextIdsAgree` shows that
the first inactive slot and the least removed id are the same number, from the existence
of a least element of a set of numbers (`LeastExists`, from the library's fact that `<` is
well-founded on `Nat`). The theorems are about `Spec`, whose callers do not flush an empty stream; without that
they are false: the numberings go apart.

`Typed` adds what both streams hold. A flush goes over slots in one stream and over a sorted dict in the
other; both are `InOrder` of one function (`SameOrder`), which gives `FlushesStaySame`. The two
refinements of `EncodingStream` rest on the same lemma: `Live` of a stream is that function, and each call changes it as
the promise says (`LiveSteps`).

**Encoding tensors.** `ReadsFollowStorage` is inductive together with `TypeOK`
(`CacheInv`): a write through a cached view changes cache and storage together, a write
through an older view marks its key. `AssignedStorage` is the lemma about `set_fields`, refused or
not: a field keeps its old rows unless its keys are marked. `ViewInv` adds
`ViewsFollowDevice`, with `MovedViews` for all calls that move the encoding.

**Adapter cache.** Proved under `MaxInside = 1` and a finite set of threads; with 2 it is false
(`appending_threads`). `Inv` says that two live problems never share an address, that an adapter is owned
by one binding, and that a fresh binding's adapter was built from the problem
its weak pointer names.

**Search graphs.** Four invariants, each on top of those before it.

* `Inv` says of the caller's dag and of the dag an import is filling that
  it is typed and has one node per state (`DagOK`). The import's dag is part of it because it
  becomes the caller's. Every operation is a chain of three (`Ensured`, labels, `AddTransition`), and
  one lemma each shows that it keeps `DagOK` and that the next dag `Extends` the one before,
  whether the call returns or raises; `NeverTakenBack` composes these with transitivity.
* `Tells` relates a dag to the records registered so far: between two states there are as many edges as accepted
  records (`Arcs`, `Registrations`), only parents of refused records are nodes beside, and a node's labels are the
  first given. One lemma for a record that is accepted and one for a refused one carry all calls, bulk calls and imports, which gives
  `AlwaysWhatWasRegistered` and `AlwaysFirstGiven`.
* `DepthsComputed`: outside of a bulk call the depths are those of `finalize_depths`. It computes level by level; `LevelsSettle`
  shows that no node is new after as many levels as there are nodes, and from there that depths are distances
  (`AlwaysDistances`) and that the semantic dag accepts them (`AlwaysEncoded`, with the topological sort and the count of
  parallel edges read from `Tells`).
* `Reads` is about the rounds of `from_rustworkx`: each edge of the rustworkx graph is still to be gone through or has
  become a record, and an edge that waits has a source that is not available, unless this round made one so. Where the loop
  gives up, some node is not reached from the root, which PyTyr refuses as well (`RaisesWithPyTyr`); where it ends, dag and
  PyTyr's nodes correspond by the permutation that sorts by depth and index (`AlwaysAgree`).

The types of the adapter cache hold with any number of threads inside (`CallsAreTyped`).

**Graph fields.** Three invariants stand on `IInv`. `FieldInv` has the types and says that only registered
fields are pending, with one row where the mode wants one; it holds of a torn builder too. `StorageInv` says that
the builder's fields have the shape `validate_graph_field_storage` asks for, with
the committed graphs as the number of graphs: `CommittedValid` and `MergedValid` show that a whole commit or merge adds
one graph to every field, and `BuiltGraphCount` that the number `build()` reads off the boundaries
is that of the committed graphs. A field that comes late holds fewer graphs than the batch, hence the assumption
`"late" \notin Liberties`, without which the theorem is false (`merged_fields`). `RangeInv` bounds pending ids by the pending
counts and stored ids by the sum of the stored ones; `RowsBelowGrown` shows that both bounds move
together. With counts merged in front of their ids it is false (`merged_fields`), hence `"counts_first" \notin Liberties`.
The sum is the cardinality of the set of ids handed out (`IdsDeclared`), so that it
adds up by facts about finite sets, and `MergedOrder` is a recursive function; what is
said of all its values is shown at the least one where it would fail (`NatLeast`). Two assumptions on the
constants carry the argument: `SingleFields` (what a one-graph encoding brings is valid and in range itself) and `FieldUses`.

**Append-only stream and compositions.** Both are about `EncoderSessions`, where what a single append or record is made of
comes from the encoders; the theorems on the stream and on records need nothing of these beyond the shape of a record.

* `StreamInv` says what the stream is after any log of calls: the graph of an id is what was written while one append
  fewer had returned, in order, and the open graph what was written since. An append that raises midway adds to the open graph and
  gives no id, so a graph may hold the writes of several calls; `WrittenInLonger` shows that one more entry of the log adds to that
  graph only. `DeclaredOnce` shows that dimensions, once taken, give each type one arity. No assumption on the constants is needed.
* `CompositionInv` keeps the plan and the records well-formed and the plan as `compile()` accepted it.
  The records that a component gets are `InOrder` of those `EmitsRecord` selects, and `CopiesSelected` shows that this loses and doubles
  none: a record given twice arrives twice. `EmitsWhatIsMeant` reads from the acceptance of plan and graph that the code
  selects only what is meant for the component, all of it where no component is named, and nothing that has another declarer under
  unique owners; and `ProjectionsWhole` that projected tuples have their relation's arity and name planned nodes.
  `SlotsInSequence` and `RecordsGiven` say that slots and records are sequences, as the vectors of the code are.

**Rows of batched graphs.** `BatchedRowsAlwaysUnpack` says `BatchedRowsUnpack` of every log of appended states, any domain and any
configs that the constructors accept. Of flat graphs: packed graph by graph, packed by relation (where that is not refused) or
collated from single graphs, each relation of each graph reads back its tuples, in order, on entities in its own graph's range, and
instance numbers find the tuple they were given for. Of derived graphs: rows of the builder's batch, and of PyG's batch of
single graphs, mean the nodes, edges and table rows they meant in their own graph. The proof is in `GraphRows_proofs`; the
flat half has two parts.

* `TuplesUnpack` takes any graphs whose tuples fit (`GraphsFit`: the relation is listed, the width is the relation's, arguments are in the table) and
  follows the offsets. Offsets are sums and the packed vectors concatenations, both recursive functions; `SumExists`,
  `SumSteps` (`IdOrder_proofs`), and the lemmas on where the parts of a concatenation lie go from one number to the next by a least
  counterexample (`AllReached`), which needs no induction theorem.
* `FlatEncodingFits` shows that what the encoder emits does fit. The C++ code counts entities in one pass
  and emits tuples in another that looks their numbers up with `at()`; the lemmas go lane by lane and show that each atom, goal, action and
  history literal that the second pass emits was met by the first under the same conditions (entities, `EntitiesHold`), and that
  `build_schema` registered its relation with its arity for the levels, derivations and polarities that can occur (`RelationsFit`).
  `SchemaIsConsistent` is what makes an arity be *the* arity: the key of a relation spells out the entry, so that no key is registered with two layouts.

The derived half goes the same way: operators on any graphs first, then what the encoder draws.

* `DrawingsAlwaysSurvive` takes any graphs whose nodes are laid out as declared and whose edges, members and channels name nodes of theirs
  (`DrawingFits`). Merging shifts edges and rows by what lies in front, and the shifts are the sums of the counts that are written beside
  them; `CollationAgrees` shows that PyG's increments, added graph by graph from tensors of single graphs, are these same sums, so that
  its batch is the builder's. `NodesSurvive`, `TuplesSurvive`, `HyperedgesSurvive` and `AnchorsSurvive` then read each row back.
* `EncodedDrawing` shows that what the encoder draws fits: objects are numbered first, instances after them and the anchor
  last, and every edge is drawn between nodes that were numbered before. Numbers are looked up by name, so that this
  takes each argument of each atom to be a numbered object. `OccurrencesDrawable` has this of facts and goals from their types and from the refusals of
  `append_state`. Arguments of actions and of history literals are checked by nobody: the encoder takes their numbers from the
  backend's adapter as they are (`backends/pytyr/semantic_flat_encoder.cpp:72`). The property is therefore about entries
  whose actions and history name objects of the state (`Grounded`), which is what planners return.

**Views and owned inputs.** `ViewsAlwaysEncodeLikeOwned` says `ViewsEncodeLikeOwned` of any domain, accepted config and planner. The inductive
invariant is `PlannedInput(root)`: the root is an owned input on the objects of the start, its facts are ground
atoms, its history is of the past, and its actions are on its objects. `ActPlanned` has to show that the effects of an action, which enter the history, are literals
on such atoms and that entries age. Then:

* What a view lends is what the input holds. The preparation refers to atoms by their place in a pool of distinct atoms; every atom
  that layers and near history use is in the pool (`UsesAre`), so that a reference is read back as the literal it was made from
  (`ReadBack`). The goals that views prepare come layer by layer, each at its highest level (`HighestAgree`), and history is
  sorted for the view and sorted again by the encoder, which changes nothing (`OrderedOnce`, through blocks of one age).
* Flat and heterogeneous encoders then read the same lanes in both forms, up to the form of the history (`SameLanes`). One lemma each shows that validity, refusals
  and rows depend on nothing else (`ValidityAgrees`, `RefusalsAgree`, `TuplesAgree`), and `SuccessorsAgree` has this of
  successor states.
* Derived and color encoders are given goals with repetitions, sorted in one form and as written in the other
  (`OccurrencesDiffer`). So lanes differ, and tables and drawings come out in another order. `SortedContent` shows that goals are the same
  with the same multiplicities, `InstancesContent` carries this to the table of instances, and `DrawingsAgree` to the drawing: nodes and
  edges as sets, and shortcuts by the places that they join. An object that is in too many places has no shortcuts, so that the
  number of its places must agree too (`ShortcutsAre`).

**Derived graphs and their tables.** `DerivedGraphAlwaysDrawsTheTable` says `DerivedGraphDrawsTheTable` of any domain, accepted config and planner. The
invariant is `PlannedInput(root)` again, with `DrawingConfig`: the encoder is one whose config `validate_config` let pass. `PlannedDrawable` has that what
such a root says can be drawn. Then, for the table of any lanes (`TableIsDrawn`):

* *Edges.* Each way to expand a row is shown to draw edges of that row only (`PlainlyDraw`, `InstanceEdgesDraw`) and to touch every
  argument at its place (`InstanceEdgesTouch`). Rows of two and more arguments are expanded by star, clique, chain or first argument; a star needs
  an instance node, which is why the config must be accepted. Shortcuts join two literals that share an argument (`ShortcutsRun`). An
  instance node or the anchor is there whenever an edge runs to it (`DerivedEdgesAre`, `NodesDrawnOnce`).
* *Distances.* `emit_spd_fields` starts a search at each object, keeps the pairs whose first object has the lower number, and never looks at the drawing. `ReachedFrom` is
  that search, round by round. `InRounds` shows that an object is in a round exactly when a way of so many rows leads to it, `RoundsBothWays` that this holds both
  ways, so that the half of the pairs that is kept says all, and `Shortest` that a distance that is said is the least over the neighbours of the other end.
* *Both together.* Two objects are in one row exactly when the drawing with all pairs joined has them joined, through an edge or
  through an instance node (`RowsMeet`, `MeetingIs`). `DistancesFollow` puts the two parts together.

Four assumptions on the constants are about data that only have types in the code. `DomainGiven`: finitely many predicates and action
schemas, and a schema that the encoders accept (`SchemaAccepted`; otherwise no encoder is constructed). `InputsOwned`: inputs are made of vectors,
with at least one goal layer (`SemanticFlatRelationInput`; a missing layer is the default goals). `EncodersMade`: the
configs are those that the constructor accepts, the highest goal level and the reach of distances are natural numbers, and the expansion is one of the four of
its enum. `PlannerGiven`: a planner's states hold ground
atoms of non-static predicates, its history lies in the past, and callers set layers and actions of the types that the
setters take, actions on objects of the problem. The first is what the backends' states are: they keep ground atoms of the problem that a view enumerates.
The last is what an adapter can number: it knows no other objects. TLC evaluates all four
in `encoder_sessions`.

**Only model-checked:**

* `CutsBackIntoItsGraphs`, that is, the rows of fields in a cut. CAT rows have no boundaries, so the mapping finds a graph's rows by
  their values (ids in the range its counts declare, node indices in the range of its nodes). That this
  gives back the rows holds for the inputs of the run, whose indices are local and counted, and is no property of the code for every
  input: a reader of a real batch cannot do it either when an index is out of range. What is proved of field rows is
  `BuiltEncodingsAreValid` and `IdsAlwaysInRange`.
* `ImportEnds`: liveness.
* Of `encoder_sessions`, all but `StreamKeepsAppends`, `OnlyOwnersEmit`, `BatchedRowsUnpack`, `ViewsEncodeLikeOwned` and
  `DerivedGraphDrawsTheTable`. What a reader makes of
  a nested Python value (`BatchEncodesEachState`, `EncodingsSurviveCollation`) is a recursive function of the value's depth.
  `EmittedAsPlanned`, `EveryGraphShowsTheInput`, `HorizonShowsEveryState` and `SameNeighbourhoods` compare two programs for the same graph, each a few hundred lines; they are within the prover's reach and
  left for want of time. `ColorGraphsIgnoreNames` compares colors, which are made of the text of atoms (`ToString`); no prover here knows
  anything of it.

## Fairness and liveness

`LookaheadGraphs` states `WF_vars(ImportSteps)`: the edge loop of `from_rustworkx` is one
call that runs on its own, so once begun it takes its next step. `ImportEnds` is the liveness property
that goes with it: an edge whose source has no node waits for a later round, and the loop must notice that
a round has made no progress.

No other specification states fairness. The parts are synchronous and act only
when they are called: no queue is drained, no thread of its own runs, no answer is awaited, and nothing
is retried. A property that something eventually happens would be one about the
callers. `adapter_for` holds no lock, so no call can wait for another.

## What is not modelled

* **Snapshot memos** of `pymimir.py`. A memo is cleared as a whole when it is full, and an entry is equal to
  what would be computed again; only object identity could differ, and no code depends on it.
* **Visualisation, module bindings, exports, logging.** They convert or forward.
* **How backends reach planner memory.** Views and adapters translate pymimir and pytyr objects into atoms; those
  libraries are not in the repository. The model starts at what the views return.
* **Serialised schemas**, and the refusal of batches whose schema flags differ.
* **Toolkit parts**: lifted rows, object features, sparse atoms, and the writer and tables of custom encoders, which
  marshal one graph into the builder.
* **`update_relations` on another thread** than an append (`init_hgraph_encoder.cpp:187`): the relations
  are read without a lock while an append runs. What a reader sees of a vector that is being replaced is undefined.
* **Feature columns and the layout of tensors** in PyG objects: they travel with the graphs that carry them.
* **ILG batches from native states**: pymimir's ILG is modelled for its public states.
* **What a caller does with a tensor** it held across `set_field`: the vector behind it is
  gone, and only tensors in the cache are modelled.

Weak points of the code that no property covers are in `PROJECT.json` with a note that says why.

## Plan

Done: the batch builder with its fields, the streams, the encoding's tensors, the adapter cache,
search graphs, the encoders of all families, compositions, batch arguments, and collation.

What is left, in order of weight:

1. **Threads and relations**: `update_relations` against a running append, split at its statements as
   `adapter_for` is.
2. **Toolkit**: lifted rows and object features as operators, checked against a reference as the lanes are.
3. **Proofs**: `EmittedAsPlanned` for the flat family, states first and then Horizon roots; the adapter cache for any number of
   threads on problems that are already bound.
