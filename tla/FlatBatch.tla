------------------------------- MODULE FlatBatch -------------------------------
(***************************************************************************)
(* How the tuples of flat graphs are stored, and how they are read back.   *)
(* The sink of a graph counts tuples per relation and keeps the arguments  *)
(* of a relation together, in the order of the relation ids.  A batch is   *)
(* one column of arguments, graph after graph, with the entities of the    *)
(* earlier graphs added to each; an encoder of batches regroups it by      *)
(* relation.  FlatRelationData finds the tuples of a relation by adding up *)
(* the slots in front of them.                                             *)
(***************************************************************************)
EXTENDS IdOrder, SequencesExt

\* Relations are 1..Len(ids): their ids.
Relations(ids) == DOMAIN ids

SumOf(numbers) == SumTo(numbers, Len(numbers))

(***************************************************************************)
(* FlatRelationSink.  A graph is [entities, tuples].                       *)
(***************************************************************************)
TuplesOf(ids, graph, r) == {n \in DOMAIN graph.tuples : graph.tuples[n].key = ids[r]}

Emitted(ids, graph, r) == Chosen(graph.tuples, TuplesOf(ids, graph, r))

relation_counts(ids, graph) == [r \in Relations(ids) |-> Len(Emitted(ids, graph, r))]

\* The row of an entity counts from 0.
RowNumber(graph, entity) ==
  (CHOOSE i \in DOMAIN graph.entities : graph.entities[i] = entity) - 1

RowNumbers(graph, tuple) ==
  [k \in DOMAIN tuple.args |-> RowNumber(graph, tuple.args[k])]

Bucket(ids, graph, r) ==
  LET emitted == Emitted(ids, graph, r)
  IN  FlattenSeq([n \in DOMAIN emitted |-> RowNumbers(graph, emitted[n])])

relation_args(ids, graph) == FlattenSeq([r \in Relations(ids) |-> Bucket(ids, graph, r)])

\* RelationInstanceIndex: tuples are numbered by relation, and in a relation as emitted.
InstanceNumber(ids, graph, n) ==
  Cardinality({m \in DOMAIN graph.tuples :
    \E r, s \in Relations(ids) :
      /\ ids[r] = graph.tuples[m].key
      /\ ids[s] = graph.tuples[n].key
      /\ r < s \/ (r = s /\ m < n)})

(***************************************************************************)
(* The fields of a batch, as the builder concatenates them.                *)
(***************************************************************************)
EntitiesBefore(graphs, g) == SumTo([i \in DOMAIN graphs |-> Len(graphs[i].entities)], g - 1)

\* Mutant: arguments keep the row numbers of their graph.
ShiftedNot(args, by) == args

Shifted(args, by) == [k \in DOMAIN args |-> args[k] + by]

\* An entry per relation: its encoded arity is the arity the batch says it has.
Batch(ids, arities, graphs) ==
  [ids        |-> ids,
   arities    |-> arities,
   node_sizes |-> [g \in DOMAIN graphs |-> Len(graphs[g].entities)],
   counts     |-> [g \in DOMAIN graphs |-> relation_counts(ids, graphs[g])],
   args       |-> FlattenSeq([g \in DOMAIN graphs |->
                    Shifted(relation_args(ids, graphs[g]), EntitiesBefore(graphs, g))]),
   layout     |-> "graph_major"]

(***************************************************************************)
(* pack_flat_relation_args_relation_major.                                 *)
(***************************************************************************)
Graphs(b) == DOMAIN b.counts

Width(b, g, r) == b.counts[g][r] * b.arities[r]

GraphWidth(b, g) == SumTo([r \in Relations(b.ids) |-> Width(b, g, r)], Len(b.ids))

\* Where the segment of a relation of a graph starts, graph-major.
GraphMajorStart(b, g, r) ==
  SumTo([h \in Graphs(b) |-> GraphWidth(b, h)], g - 1)
    + SumTo([s \in Relations(b.ids) |-> Width(b, g, s)], r - 1)

Segment(b, start, width) == SubSeq(b.args, start + 1, start + width)

\* No argument and some tuple: refused, although tuples without slots have none.
PackRefused(b) ==
  /\ b.layout = "graph_major"
  /\ Len(b.counts) > 1
  /\ \/ /\ b.args = <<>>
        /\ \E g \in Graphs(b), r \in Relations(b.ids) : b.counts[g][r] # 0
     \/ SumTo([g \in Graphs(b) |-> GraphWidth(b, g)], Len(b.counts)) # Len(b.args)

RelationMajorArgs(b) ==
  FlattenSeq([r \in Relations(b.ids) |->
    FlattenSeq([g \in Graphs(b) |-> Segment(b, GraphMajorStart(b, g, r), Width(b, g, r))])])

Packed(b) ==
  IF b.layout = "relation_major" THEN b
  ELSE [b EXCEPT !.layout = "relation_major",
                 !.args = IF Len(b.counts) > 1 THEN RelationMajorArgs(b) ELSE @]

(***************************************************************************)
(* Batch.from_data_list over carriers of single graphs: PyG concatenates,  *)
(* adding the rows of earlier graphs (__inc__), and the normalization      *)
(* keeps the layout all of them name.                                      *)
(***************************************************************************)
Collated(carriers) ==
  LET sizes == [k \in DOMAIN carriers |-> SumOf(carriers[k].node_sizes)]
  IN  [carriers[1] EXCEPT
         !.node_sizes = FlattenSeq([k \in DOMAIN carriers |-> carriers[k].node_sizes]),
         !.counts     = FlattenSeq([k \in DOMAIN carriers |-> carriers[k].counts]),
         !.args       = FlattenSeq([k \in DOMAIN carriers |->
                          Shifted(carriers[k].args, SumTo(sizes, k - 1))])]

(***************************************************************************)
(* FlatRelationData.                                                       *)
(***************************************************************************)
\* relation_instance_counts_total
TotalCount(b, r) == SumTo([g \in Graphs(b) |-> b.counts[g][r]], Len(b.counts))

\* _relation_major_slot_offsets_for_graph
RelationMajorStart(b, g, r) ==
  SumTo([s \in Relations(b.ids) |-> TotalCount(b, s) * b.arities[s]], r - 1)
    + SumTo([h \in Graphs(b) |-> Width(b, h, r)], g - 1)

SlotStart(b, g, r) ==
  IF b.layout = "relation_major" THEN RelationMajorStart(b, g, r) ELSE GraphMajorStart(b, g, r)

\* A chunk viewed as a matrix.
Matrix(slots, instances, arity) ==
  [n \in 1..instances |-> SubSeq(slots, (n - 1) * arity + 1, n * arity)]

\* flattened_relations_view(graph_index=g)
RelationsOfGraph(b, g) ==
  [r \in Relations(b.ids) |->
     Matrix(Segment(b, SlotStart(b, g, r), Width(b, g, r)), b.counts[g][r], b.arities[r])]

\* flattened_relations_view(): all graphs.
RelationsOfBatch(b) ==
  [r \in Relations(b.ids) |->
     IF b.layout = "relation_major"
     THEN Matrix(Segment(b, RelationMajorStart(b, 1, r), TotalCount(b, r) * b.arities[r]),
                 TotalCount(b, r), b.arities[r])
     ELSE FlattenSeq([g \in Graphs(b) |-> RelationsOfGraph(b, g)[r]])]

\* graph_node_range and graph_relation_instance_range: [first, end).
NodeRange(b, g) ==
  LET start == SumTo(b.node_sizes, g - 1) IN <<start, start + b.node_sizes[g]>>

InstanceRange(b, g) ==
  LET sizes == [h \in Graphs(b) |-> SumOf(b.counts[h])]
      start == SumTo(sizes, g - 1)
  IN  <<start, start + sizes[g]>>

\* _graph_cat_field_slice: the values of one graph, given the sizes of all.
CatSlice(values, sizes, g) ==
  SubSeq(values, SumTo(sizes, g - 1) + 1, SumTo(sizes, g))

(***************************************************************************)
(* What a reader must find, however a batch got to it.                     *)
(***************************************************************************)
\* A row read back has the entities of a tuple, in its own graph's range.
RowMeans(row, args, table, range) ==
  /\ Len(row) = Len(args)
  /\ \A k \in DOMAIN row : /\ row[k] + 1 \in DOMAIN table
                           /\ range[1] <= row[k] /\ row[k] < range[2]
                           /\ table[row[k] + 1] = args[k]

RowsMean(rows, tuples, table, range) ==
  /\ Len(rows) = Len(tuples)
  /\ \A n \in DOMAIN tuples : RowMeans(rows[n], tuples[n].args, table, range)

NumberedRows(ids, graph, numbered) ==
  [n \in DOMAIN graph.tuples |-> numbered[InstanceNumber(ids, graph, n) + 1]]

GraphUnpacks(ids, graph, rows, table, range, instances) ==
  /\ \A r \in Relations(ids) : RowsMean(rows[r], Emitted(ids, graph, r), table, range)
  /\ instances[2] - instances[1] = Len(graph.tuples)
  /\ RowsMean(NumberedRows(ids, graph, FlattenSeq(rows)), graph.tuples, table, range)

EntityTable(graphs) == FlattenSeq([g \in DOMAIN graphs |-> graphs[g].entities])

Unpacks(b, graphs) ==
  /\ \A g \in DOMAIN graphs :
       GraphUnpacks(b.ids, graphs[g], RelationsOfGraph(b, g), EntityTable(graphs),
                    NodeRange(b, g), InstanceRange(b, g))
  /\ RelationsOfBatch(b)
       = [r \in Relations(b.ids) |->
            FlattenSeq([g \in DOMAIN graphs |-> RelationsOfGraph(b, g)[r]])]

EveryWayUnpacks(batch, singles, graphs) ==
  graphs # <<>> =>
    /\ Unpacks(batch, graphs)
    /\ ~PackRefused(batch) => Unpacks(Packed(batch), graphs)
    /\ Unpacks(Collated(singles), graphs)

GraphsUnpack(ids, widths, graphs) ==
  EveryWayUnpacks(Batch(ids, widths, graphs),
                  [k \in DOMAIN graphs |-> Batch(ids, widths, <<graphs[k]>>)], graphs)
=============================================================================
