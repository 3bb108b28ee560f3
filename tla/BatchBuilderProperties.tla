----------------------- MODULE BatchBuilderProperties -----------------------
(***************************************************************************)
(* What makes a batch builder correct, and how a batch is cut back into    *)
(* the graphs of GraphBatch.                                               *)
(***************************************************************************)
EXTENDS BatchBuilder, IdOrder

Rows == Seq(Int)
Edge == Nat \X Nat

BatchType ==
  [registered : Seq(Fields), values : [Fields -> Rows], field_ptr : [Fields -> Rows],
   ptrs : [NodeTypes -> Seq(Nat)], edge_index : [EdgeTypes -> Seq(Edge)], num_graphs : Nat]

ASSUME NoneIsNoBatch == None \notin BatchType

\* Every variable keeps the type that BatchBuilder's members declare.
FieldTypeOK ==
  /\ registered \in Seq(Fields)
  /\ values \in [Fields -> Rows]
  /\ field_ptr \in [Fields -> Rows]
  /\ pending \in [Fields -> Rows \cup {NoValue}]

GraphTypeOK ==
  /\ current_node_counts \in [NodeTypes -> Nat]
  /\ counted \in SUBSET NodeTypes
  /\ node_offsets \in [NodeTypes -> Nat]
  /\ ptrs \in [NodeTypes -> Seq(Nat)]
  /\ edge_index \in [EdgeTypes -> Seq(Edge)]
  /\ current_graph_idx \in Nat

TypeOK ==
  /\ FieldTypeOK
  /\ GraphTypeOK
  /\ torn \in BOOLEAN
  /\ encoding \in BatchType \cup {None}

-----------------------------------------------------------------------------
(* Boundaries and edges, of the builder or of what loading an encoding     *)
(* makes of a builder.                                                     *)

Layout ==
  [ptrs |-> ptrs, offsets |-> node_offsets, counts |-> current_node_counts,
   keys |-> counted, edge_index |-> edge_index, num_graphs |-> current_graph_idx]

LayoutOf(e) ==
  [ptrs |-> e.ptrs, offsets |-> [t \in NodeTypes |-> CountOf(e, t)], counts |-> NoNodes,
   keys |-> KeysOf(e), edge_index |-> e.edge_index, num_graphs |-> e.num_graphs]

IsBoundary(ptr) ==
  /\ ptr[1] = 0
  /\ \A i \in 1..(Len(ptr) - 1) : ptr[i] <= ptr[i + 1]

WellBounded(b) ==
  \A t \in NodeTypes :
    IF b.ptrs[t] = <<>> THEN b.offsets[t] = 0
    ELSE /\ IsBoundary(b.ptrs[t])
         /\ Last(b.ptrs[t]) = b.offsets[t]
         /\ Len(b.ptrs[t]) \in 2..(b.num_graphs + 1)
         /\ t \in b.keys

\* The boundary vector of a type ends at the type's offset and never runs
\* ahead of the committed graphs, and a type without one holds no nodes:
\* what next_graph, append_batch_encoding and load_from_batch_encoding each
\* maintain with code of their own.
BoundariesTrackOffsets == WellBounded(Layout)

Spanned(b) ==
  b.num_graphs > 0 => \E t \in NodeTypes : Len(b.ptrs[t]) = b.num_graphs + 1

\* Some type spans the whole batch, so that build() finds the true number of
\* graphs in the longest boundary vector.
SomePtrSpansTheBatch == Spanned(Layout)

\* The first node of type t in graph k, with the boundaries padded as build()
\* will pad them.  Graph num_graphs + 1 is the open one, and what would start
\* behind it is its end.
Start(b, t, k) ==
  IF k = b.num_graphs + 2 THEN b.offsets[t] + b.counts[t]
  ELSE IF b.ptrs[t] = <<>> THEN 0
  ELSE LeftPadded(b.ptrs[t], b.num_graphs + 1)[k]

InGraph(b, t, k, v) == Start(b, t, k) <= v /\ v < Start(b, t, k + 1)

EdgesWithinGraphs(b) ==
  \A r \in EdgeTypes : \A i \in DOMAIN b.edge_index[r] :
    \E k \in 1..(b.num_graphs + 1) :
      /\ InGraph(b, SrcOf[r], k, b.edge_index[r][i][1])
      /\ InGraph(b, DstOf[r], k, b.edge_index[r][i][2])

\* No edge crosses from one graph into another: source and target of every
\* stored edge fall into the node ranges of the same graph, whichever way the
\* graph came into the batch.
EdgesStayInOneGraph == EdgesWithinGraphs(Layout)

\* The graph in which the PyG build puts each node, if in any.
NoGraph == -1
PygPlaces(b) ==
  LET boundaries == PygPtrs(b.ptrs, b.counts)
  IN [t \in NodeTypes |->
        LET place == PygBatchVector(boundaries[t])
        IN [v \in 0..(b.offsets[t] + b.counts[t] - 1) |->
              IF v < Len(place) THEN place[v + 1] ELSE NoGraph]]

PygKeepsGraphs(b) ==
  LET places == PygPlaces(b)
  IN /\ \A r \in EdgeTypes : \A i \in DOMAIN b.edge_index[r] :
          places[SrcOf[r]][b.edge_index[r][i][1]] = places[DstOf[r]][b.edge_index[r][i][2]]
     /\ \A t \in NodeTypes : \A v \in DOMAIN places[t] :
          places[t][v] # NoGraph <=> v < b.offsets[t] \/ b.num_graphs = 0

\* build_pyg, of the builder or of what as_pyg loads an encoding into, splits
\* the nodes as build() does: the ends of an edge come out in one graph, each
\* committed node is in a graph, and those of the open graph are in none,
\* except that a builder with no committed graph is a graph by itself.
PygBuildKeepsGraphs ==
  ~torn => PygKeepsGraphs(IF encoding = None THEN Layout ELSE LayoutOf(encoding))

\* Each ptr of an encoding that build() hands out spans all of its graphs ("so
\* every ptr spans the full batch").
BuiltPtrsSpan ==
  encoding # None =>
    \A t \in KeysOf(encoding) :
      IsBoundary(encoding.ptrs[t]) /\ Len(encoding.ptrs[t]) = encoding.num_graphs + 1

\* An encoding that build() hands out is well-formed: each graph field passes
\* validate_graph_field_storage and each ptr spans all graphs.
BuiltEncodingValid ==
  /\ BuiltPtrsSpan
  /\ encoding # None =>
       \A f \in ToSet(encoding.registered) :
         ValidStorage(f, encoding.values[f], encoding.field_ptr[f], encoding.num_graphs)

\* The ids of a FIELD_OFFSET field, in a finished batch, are ids that its
\* count field hands out ("index.max() + 1 == table.size(0)", as consumers
\* infer the size of the table).
FieldIdsInRange ==
  encoding # None =>
    \A f \in ToSet(encoding.registered) : IncKind[f] = "FIELD_OFFSET" =>
      \A i \in DOMAIN encoding.values[f] :
        encoding.values[f][i] < CountSum(encoding.values[IncOf[f]])

\* A field whose rows the validator accepts, and whose ids its count field hands out.
SoundField(f, e) ==
  /\ ValidStorage(f, e.values[f], e.field_ptr[f], e.num_graphs)
  /\ IncKind[f] = "FIELD_OFFSET" =>
       \A i \in DOMAIN e.values[f] : e.values[f][i] < CountSum(e.values[IncOf[f]])

\* Of the graph fields of an encoding that build() hands out, one at least has rows for
\* all graphs ("STACK expects rows == num_graphs", graph_fields.hpp:266) and no id
\* behind the last ("`hyperedge_index[1].max() + 1 == hyperedge_attr_ids.size(0)`",
\* derived-encoding-strategies.md:222).
SomeFieldIsSound ==
  encoding # None /\ encoding.registered # <<>> =>
    \E f \in ToSet(encoding.registered) : SoundField(f, encoding)

-----------------------------------------------------------------------------
(* The refinement mapping: graph k of a batch b, in indices of its own.    *)

CutAt(b, t) == IF b.ptrs[t] = <<>> THEN [i \in 1..(b.num_graphs + 1) |-> 0] ELSE b.ptrs[t]

Between(rows, lo, hi) == SelectSeq(rows, LAMBDA v : lo <= v /\ v < hi)

\* The edges whose source is in range, by their number in the columns.
Relocated(cols, srcLo, srcHi, dstLo) ==
  [i \in {j \in DOMAIN cols : srcLo <= cols[j][1] /\ cols[j][1] < srcHi} |->
     <<cols[i][1] - srcLo, cols[i][2] - dstLo>>]

LocalEdges(cols, srcLo, srcHi, dstLo) == InOrder(Relocated(cols, srcLo, srcHi, dstLo))

\* A row of counts, a slice of a ragged field, the constant; ids and node
\* indices of a CAT field belong to the graph whose range they fall into.
LocalField(b, f, k) ==
  IF f \notin ToSet(b.registered) THEN <<>>
  ELSE
    LET nodeBase == IF IncKind[f] = "NODE_OFFSET" THEN CutAt(b, IncOf[f])[k] ELSE 0
        idBase(j) == CountSum(SubSeq(b.values[IncOf[f]], 1, j))
    IN CASE Mode[f] = "STACK" -> Shifted(<<b.values[f][k]>>, -nodeBase)
         [] Mode[f] = "CONST" -> b.values[f]
         [] Mode[f] = "RAGGED_CAT" ->
              Shifted(SubSeq(b.values[f], b.field_ptr[f][k] + 1, b.field_ptr[f][k + 1]),
                      -(IF IncKind[f] = "FIELD_OFFSET" THEN idBase(k - 1) ELSE nodeBase))
         [] OTHER ->
              IF IncKind[f] = "FIELD_OFFSET"
              THEN Shifted(Between(b.values[f], idBase(k - 1), idBase(k)), -idBase(k - 1))
              ELSE Shifted(Between(b.values[f], nodeBase, CutAt(b, IncOf[f])[k + 1]), -nodeBase)

\* The nodes and edges of graph k, and no rows of fields.
ShapeOf(b, k) ==
  [nodes |-> [t \in NodeTypes |-> CutAt(b, t)[k + 1] - CutAt(b, t)[k]],
   edges |-> [e \in EdgeTypes |->
     LocalEdges(b.edge_index[e], CutAt(b, SrcOf[e])[k], CutAt(b, SrcOf[e])[k + 1],
                CutAt(b, DstOf[e])[k])],
   vals  |-> NoRows]

GraphOf(b, k) == [ShapeOf(b, k) EXCEPT !.vals = [f \in Fields |-> LocalField(b, f, k)]]

\* The batch as build() would lay out the committed graphs now.
LiveBatch == Batch(values, field_ptr, ptrs, current_graph_idx)

HeldBatch == IF encoding = None THEN LiveBatch ELSE encoding

OpenShape ==
  [nodes |-> current_node_counts,
   edges |-> [e \in EdgeTypes |->
     LocalEdges(edge_index[e], node_offsets[SrcOf[e]],
                node_offsets[SrcOf[e]] + current_node_counts[SrcOf[e]],
                node_offsets[DstOf[e]])],
   vals  |-> [f \in Fields |-> IF pending[f] = NoValue THEN NoValue ELSE <<>>]]

OpenGraph == [OpenShape EXCEPT !.vals = pending]

CONSTANT Aborted

ASSUME AbortedIsNoGraph ==
  Aborted \notin [nodes : [NodeTypes -> Nat], edges : [EdgeTypes -> Seq(Int \X Int)],
                  vals : [Fields -> Seq(Int) \cup {NoValue}]]

\* Committed graphs and the open one; a call that threw has lost the open graph.
CommittedShapes == [k \in 1..HeldBatch.num_graphs |-> ShapeOf(HeldBatch, k)]
ShapeInHand == IF torn THEN Aborted ELSE OpenShape
HandedOut == encoding # None

Shapes == INSTANCE GraphBatch WITH
  Locals <- {ShapeOf(e, 1) : e \in Encodings},
  graphs <- CommittedShapes,
  open   <- ShapeInHand,
  sealed <- HandedOut

\* Whatever fields are registered and assigned: offsets and boundaries cut a
\* batch back into exactly the nodes and edges of the graphs that were put in.
CutsBackIntoItsShapes == Shapes!AbstractSpec

OfferedGraphs == {GraphOf(e, 1) : e \in Encodings}
CommittedGraphs == LET b == HeldBatch IN [k \in 1..b.num_graphs |-> GraphOf(b, k)]

Promise == INSTANCE GraphBatch WITH
  Locals <- OfferedGraphs,
  graphs <- CommittedGraphs,
  open   <- IF torn THEN Aborted ELSE OpenGraph,
  sealed <- HandedOut

\* The builder keeps the promise of GraphBatch: the same with the rows of the
\* graphs' fields, shifted as they are.
CutsBackIntoItsGraphs == Promise!AbstractSpec
=============================================================================
