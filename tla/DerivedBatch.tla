----------------------------- MODULE DerivedBatch -----------------------------
(***************************************************************************)
(* Derived graphs as tensors.  The engine writes the table of instances as *)
(* graph fields, the builder offsets them, the Python carrier reshapes     *)
(* them (_finalize_pyg) and PyG can put carriers of single graphs together *)
(* (DerivedGraphData.__inc__).  Numbers of nodes count from 0.             *)
(***************************************************************************)
EXTENDS DerivedGraph, FlatBatch

NumberOf(graph, node) == IF node = NoNode THEN -1 ELSE At(graph.nodes, node) - 1

NumbersOf(graph, nodes) == [k \in DOMAIN nodes |-> NumberOf(graph, nodes[k])]

ChannelsOfNode(node) ==
  CASE node[1] = "object"   -> Unlabeled
    [] node[1] = "anchor"   -> [Unlabeled EXCEPT !.role = "anchor"]
    [] node[1] = "instance" -> ChannelsOf(node[2])

(***************************************************************************)
(* set_instance_fields and what encode_impl writes beside them.  A field   *)
(* that is not asked for is empty.                                         *)
(***************************************************************************)
NodesIn(inst) == [k \in DOMAIN inst.arguments |-> ObjectNode(inst.arguments[k])]

\* A hyperedge of an instance without arguments has the anchor in it.
Members(inst) == IF inst.arguments = <<>> THEN <<AnchorNode>> ELSE NodesIn(inst)

EdgeRow(graph, e) ==
  [src |-> NumberOf(graph, e.src), dst |-> NumberOf(graph, e.dst), kind |-> e.kind,
   positions |-> e.positions, channels |-> e.channels]

When(asked, rows) == IF asked THEN rows ELSE <<>>

InstanceNumbers(d, graph) ==
  [k \in DOMAIN graph.instances |-> NumberOf(graph, NodeOfInstance(d, graph.instances[k]))]

TableFields(d, graph, hyperedges, tuples) ==
  [num_nodes              |-> Len(graph.nodes),
   x_ids                  |-> [k \in DOMAIN graph.nodes |-> ChannelsOfNode(graph.nodes[k])],
   edges                  |-> [k \in DOMAIN graph.edges |-> EdgeRow(graph, graph.edges[k])],
   object_names           |-> graph.objects,
   hyperedge_counts       |-> Len(hyperedges),
   hyperedge_sizes        |-> [k \in DOMAIN hyperedges |-> Len(Members(hyperedges[k]))],
   hyperedge_node_indices |-> FlattenSeq([k \in DOMAIN hyperedges |->
                                NumbersOf(graph, Members(hyperedges[k]))]),
   hyperedge_ids          |-> [k \in DOMAIN hyperedges |-> k - 1],
   hyperedge_attr_rows    |-> [k \in DOMAIN hyperedges |-> ChannelsOf(hyperedges[k])],
   tuple_counts           |-> Len(tuples),
   tuple_slot_sizes       |-> [k \in DOMAIN tuples |-> Len(tuples[k].arguments)],
   tuple_args             |-> FlattenSeq([k \in DOMAIN tuples |->
                                NumbersOf(graph, NodesIn(tuples[k]))]),
   tuple_attrs            |-> [k \in DOMAIN tuples |-> ChannelsOf(tuples[k])],
   spd_src                |-> [k \in DOMAIN graph.distances |->
                                NumberOf(graph, graph.distances[k].src)],
   spd_dst                |-> [k \in DOMAIN graph.distances |->
                                NumberOf(graph, graph.distances[k].dst)],
   spd_dist               |-> [k \in DOMAIN graph.distances |-> graph.distances[k].dist],
   history_dt_offset      |-> graph.dt_offset,
   instance_node_indices  |-> When(CollectsInstances(d), InstanceNumbers(d, graph)),
   anchor_index           |-> When(HasAnchorNode(d), <<NumberOf(graph, AnchorNode)>>)]

GraphFieldsOf(d, graph) ==
  TableFields(d, graph, When(d.include_hyperedge_incidence, graph.instances),
                        When(HasTuples(d), graph.instances))

(***************************************************************************)
(* The builder: each graph behind those before it, nodes counted on, and   *)
(* hyperedges too.                                                         *)
(***************************************************************************)
NodesBefore(fields, g) == SumTo([h \in DOMAIN fields |-> fields[h].num_nodes], g - 1)

HyperedgesBefore(fields, g) == SumTo([h \in DOMAIN fields |-> fields[h].hyperedge_counts], g - 1)

PerGraph(fields, key) == [g \in DOMAIN fields |-> fields[g][key]]

Concatenated(fields, key) == FlattenSeq(PerGraph(fields, key))

OnNodes(fields, key) ==
  FlattenSeq([g \in DOMAIN fields |-> Shifted(fields[g][key], NodesBefore(fields, g))])

OnHyperedges(fields, key) ==
  FlattenSeq([g \in DOMAIN fields |-> Shifted(fields[g][key], HyperedgesBefore(fields, g))])

EdgesBehind(edges, by) ==
  [k \in DOMAIN edges |-> [edges[k] EXCEPT !.src = @ + by, !.dst = @ + by]]

\* What there is by the row, by the graph, and what refers to nodes.
RowKeys ==
  {"x_ids", "object_names", "hyperedge_sizes", "hyperedge_attr_rows", "tuple_slot_sizes",
   "tuple_attrs", "spd_dist"}

GraphKeys == {"num_nodes", "hyperedge_counts", "tuple_counts", "history_dt_offset"}

NodeColumns ==
  {"instance_node_indices", "hyperedge_node_indices", "tuple_args", "spd_src", "spd_dst",
   "anchor_index"}

Batched(fields, key) ==
  IF key \in RowKeys THEN Concatenated(fields, key)
  ELSE IF key \in GraphKeys THEN PerGraph(fields, key)
  ELSE IF key \in NodeColumns THEN OnNodes(fields, key)
  ELSE IF key = "hyperedge_ids" THEN OnHyperedges(fields, key)
  ELSE FlattenSeq([g \in DOMAIN fields |-> EdgesBehind(fields[g].edges, NodesBefore(fields, g))])

NativeBatch(fields) ==
  [key \in RowKeys \cup GraphKeys \cup NodeColumns \cup {"hyperedge_ids", "edges"} |->
     Batched(fields, key)]

(***************************************************************************)
(* _finalize_pyg.                                                          *)
(***************************************************************************)
\* _object_counts: nodes of the role "object", graph by graph.
ObjectPlaces(rows) == {k \in DOMAIN rows : rows[k].role = "object"}

ObjectCounts(batch) ==
  [g \in DOMAIN batch.num_nodes |->
     Cardinality(ObjectPlaces(CatSlice(batch.x_ids, batch.num_nodes, g)))]

NestedNames(names, counts) == [g \in DOMAIN counts |-> CatSlice(names, counts, g)]

\* torch.repeat_interleave
Interleaved(ids, sizes) ==
  FlattenSeq([k \in DOMAIN ids |-> [i \in 1..sizes[k] |-> ids[k]]])

\* The carrier of a batch; that of one graph is no different here.
Carrier(batch) ==
  [node_sizes            |-> batch.num_nodes,
   x_ids                 |-> batch.x_ids,
   edges                 |-> batch.edges,
   object_names          |-> NestedNames(batch.object_names, ObjectCounts(batch)),
   instance_node_indices |-> batch.instance_node_indices,
   hyperedge_nodes       |-> batch.hyperedge_node_indices,
   hyperedge_owners      |-> Interleaved(batch.hyperedge_ids, batch.hyperedge_sizes),
   hyperedge_attr_ids    |-> batch.hyperedge_attr_rows,
   num_hyperedges        |-> batch.hyperedge_counts,
   tuple_args            |-> batch.tuple_args,
   tuple_sizes           |-> batch.tuple_slot_sizes,
   tuple_attr_ids        |-> batch.tuple_attrs,
   num_tuples            |-> batch.tuple_counts,
   spd_src               |-> batch.spd_src,
   spd_dst               |-> batch.spd_dst,
   spd_dist              |-> batch.spd_dist,
   history_dt_offset     |-> batch.history_dt_offset,
   anchor_index          |-> batch.anchor_index]

(***************************************************************************)
(* Batch.from_data_list over carriers, with the increments of the class.   *)
(***************************************************************************)
\* Mutant: the key is left to PyG, which knows what to count by "index" in a name.
NodeKeysNamedIndex ==
  {"tuple_args", "spd_src", "spd_dst", "anchor_index", "hyperedge_nodes"}

\* __inc__: what is counted in nodes, and what in hyperedges.
NodeKeys ==
  {"tuple_args", "spd_src", "spd_dst", "instance_node_indices", "anchor_index",
   "hyperedge_nodes"}

OwnerKeys == {"hyperedge_owners"}

NodesInFront(carriers, k) ==
  SumTo([m \in DOMAIN carriers |-> SumOf(carriers[m].node_sizes)], k - 1)

HyperedgesInFront(carriers, k) ==
  SumTo([m \in DOMAIN carriers |-> SumOf(carriers[m].num_hyperedges)], k - 1)

Placed(carriers, key, k) ==
  IF key = "edges" THEN EdgesBehind(carriers[k].edges, NodesInFront(carriers, k))
  ELSE IF key \in NodeKeys THEN Shifted(carriers[k][key], NodesInFront(carriers, k))
  ELSE IF key \in OwnerKeys THEN Shifted(carriers[k][key], HyperedgesInFront(carriers, k))
  ELSE carriers[k][key]

FromDataList(carriers) ==
  [key \in DOMAIN carriers[1] |->
     FlattenSeq([k \in DOMAIN carriers |-> Placed(carriers, key, k)])]

(***************************************************************************)
(* Reading a carrier: padded_tuple_matrix by the pointers that tuple_ptr   *)
(* derives from the sizes, and hyperedges by their owners.                 *)
(***************************************************************************)
TupleRow(carrier, n) == CatSlice(carrier.tuple_args, carrier.tuple_sizes, n)

MembersOf(carrier, n) ==
  {carrier.hyperedge_nodes[m] : m \in {k \in DOMAIN carrier.hyperedge_owners :
                                         carrier.hyperedge_owners[k] = n}}

\* The index in a batch of a row of a graph, given how many rows each graph has.
RowOf(counts, g, n) == SumTo(counts, g - 1) + n

(***************************************************************************)
(* What a reader must find, in the carrier of a batch and in carriers of   *)
(* single graphs put together.                                             *)
(***************************************************************************)
\* Numbers in a carrier against the table of all nodes of the batch.
MeansIn(table, first, numbers, nodes) ==
  /\ Len(numbers) = Len(nodes)
  /\ \A k \in DOMAIN nodes :
       numbers[k] >= first /\ numbers[k] + 1 \in DOMAIN table /\ table[numbers[k] + 1] = nodes[k]

RowSurvives(d, carrier, table, first, inst, n) ==
  /\ HasNode(d, inst) /\ CollectsInstances(d) =>
       carrier.x_ids[carrier.instance_node_indices[n] + 1] = ChannelsOf(inst)
  /\ HasTuples(d) =>
       /\ MeansIn(table, first, TupleRow(carrier, n), NodesIn(inst))
       /\ carrier.tuple_attr_ids[n] = ChannelsOf(inst)
  /\ d.include_hyperedge_incidence =>
       {table[m + 1] : m \in MembersOf(carrier, n - 1)} = ToSet(Members(inst))

GraphSurvives(d, carrier, table, counts, graphs, g) ==
  /\ carrier.object_names[g] = graphs[g].objects
  /\ HasAnchorNode(d) => table[carrier.anchor_index[g] + 1] = AnchorNode
                           /\ carrier.anchor_index[g] + 1 = SumTo(carrier.node_sizes, g)
  /\ \A n \in DOMAIN graphs[g].instances :
       RowSurvives(d, carrier, table, SumTo(carrier.node_sizes, g - 1), graphs[g].instances[n],
                   RowOf(counts, g, n))

Survive(d, carrier, graphs) ==
  \A g \in DOMAIN graphs :
    GraphSurvives(d, carrier, FlattenSeq(PerGraph(graphs, "nodes")),
                  [h \in DOMAIN graphs |-> Len(graphs[h].instances)], graphs, g)

GraphsSurvive(d, graphs, fields) ==
  graphs # <<>> =>
    /\ Survive(d, Carrier(NativeBatch(fields)), graphs)
    /\ FromDataList([k \in DOMAIN graphs |-> Carrier(NativeBatch(<<fields[k]>>))])
         = Carrier(NativeBatch(fields))

DrawingsSurvive(d, graphs) ==
  GraphsSurvive(d, graphs, [k \in DOMAIN graphs |-> GraphFieldsOf(d, graphs[k])])
=============================================================================
