---------------------------- MODULE BatchBuilder ----------------------------
(***************************************************************************)
(* BatchBuilder: graphs are written one after the other into one set of    *)
(* columns.  A caller describes the open graph with indices local to it;   *)
(* the builder shifts them by what earlier graphs hold and keeps one       *)
(* boundary vector ("ptr") per node type so that the batch can be cut back *)
(* into its graphs.  Feature columns, names and other attributes travel    *)
(* with these and are left out.                                            *)
(*                                                                         *)
(* An absent map key is modelled as follows: ptrs[t] = <<>>, node_offsets  *)
(* and current_node_counts 0, and `counted` is the key set of              *)
(* current_node_counts, whose keys outlive their graph.                    *)
(***************************************************************************)
EXTENDS GraphFields

CONSTANTS
  NodeTypes, EdgeTypes,
  SrcOf, DstOf,    \* [EdgeTypes -> NodeTypes]
  FieldInputs,     \* [Fields -> sets of local values that callers assign]
  Orders,          \* bound: the orders in which callers register fields
  Encodings,       \* single-graph encodings offered to append_batch_encoding
  MaxNodes,        \* bound: [NodeTypes -> nodes per graph]
  MaxEdges,        \* bound: edges per edge type and batch
  MaxGraphs,       \* bound: graphs per batch
  Liberties,       \* which of the call patterns below callers use
  None             \* no encoding built

ASSUME EdgeEnds == SrcOf \in [EdgeTypes -> NodeTypes] /\ DstOf \in [EdgeTypes -> NodeTypes]
ASSUME Bounds == MaxNodes \in [NodeTypes -> Nat] /\ MaxEdges \in Nat /\ MaxGraphs \in Nat

\* What build() makes of one graph; append_batch_encoding refuses another
\* number of graphs.  A type has a ptr whether or not it has nodes.
KeysOf(e) == {t \in NodeTypes : e.ptrs[t] # <<>>}
CountOf(e, t) == IF e.ptrs[t] = <<>> THEN 0 ELSE Last(e.ptrs[t])

ASSUME SingleGraphs ==
  \A e \in Encodings :
    /\ e.num_graphs = 1
    /\ \A t \in NodeTypes : e.ptrs[t] \in Seq(Nat)
    /\ \A t \in KeysOf(e) : Len(e.ptrs[t]) = 2 /\ e.ptrs[t][1] = 0
    /\ \A r \in EdgeTypes :
         /\ e.edge_index[r] \in Seq(Nat \X Nat)
         /\ \A i \in DOMAIN e.edge_index[r] :
              /\ e.edge_index[r][i][1] < CountOf(e, SrcOf[r])
              /\ e.edge_index[r][i][2] < CountOf(e, DstOf[r])

\* An encoder's own fields are valid, and its ids are ids its counts hand out.
ASSUME SingleFields ==
  \A e \in Encodings :
    /\ e.registered \in Seq(Fields)
    /\ e.values \in [Fields -> Seq(Int)]
    /\ e.field_ptr \in [Fields -> Seq(Int)]
    /\ \A f \in ToSet(e.registered) :
         /\ ValidStorage(f, e.values[f], e.field_ptr[f], 1)
         /\ IncKind[f] = "FIELD_OFFSET" =>
              \A i \in DOMAIN e.values[f] : e.values[f][i] < CountSum(e.values[IncOf[f]])

ASSUME FieldUses ==
  \A f \in Fields :
    /\ FieldInputs[f] \subseteq Seq(Int)
    /\ IncKind[f] = "NODE_OFFSET" => IncOf[f] \in NodeTypes

\* "late":         a field registered, or first merged, after the first graph
\* "counts_first": a merge with a count field in front of the ids that use it
ASSUME LibertiesKnown == Liberties \subseteq {"late", "counts_first"}

VARIABLES
  current_node_counts,  \* nodes of the open graph, per type
  counted,              \* the types current_node_counts has a key for
  node_offsets,         \* nodes of the committed graphs, per type
  ptrs,                 \* boundaries, per type
  edge_index,           \* per edge type, the <<src, dst>> columns
  current_graph_idx,    \* committed graphs
  torn,                 \* an exception left a call half done
  encoding              \* what build() returned last, while the caller holds it

graphVars == <<current_node_counts, counted, node_offsets, ptrs, edge_index,
               current_graph_idx>>
vars == <<fieldVars, graphVars, torn, encoding>>

NoNodes == [t \in NodeTypes |-> 0]
NoPtrs == [t \in NodeTypes |-> <<>>]
NoEdges == [e \in EdgeTypes |-> <<>>]

Init ==
  /\ FieldsInit
  /\ current_node_counts = NoNodes
  /\ counted = {}
  /\ node_offsets = NoNodes
  /\ ptrs = NoPtrs
  /\ edge_index = NoEdges
  /\ current_graph_idx = 0
  /\ torn = FALSE
  /\ encoding = None

\* After an exception callers start over: the half-done call cannot be undone.
Usable == encoding = None /\ ~torn

-----------------------------------------------------------------------------
(* Describing the open graph.                                              *)

\* add_nodes keeps the larger count; a type seen with no nodes gets a key too.
AddNodes(t, count) ==
  /\ Usable
  /\ counted' = counted \cup {t}
  /\ current_node_counts' = [current_node_counts EXCEPT ![t] = IF @ < count THEN count ELSE @]
  /\ UNCHANGED <<fieldVars, node_offsets, ptrs, edge_index, current_graph_idx, torn, encoding>>

\* The caller numbers nodes from 0 within the open graph and type.
AddEdge(e, src_index, dst_index) ==
  /\ Usable
  /\ src_index < current_node_counts[SrcOf[e]]
  /\ dst_index < current_node_counts[DstOf[e]]
  /\ Len(edge_index[e]) < MaxEdges
  /\ edge_index' = [edge_index EXCEPT ![e] =
       Append(@, <<src_index + node_offsets[SrcOf[e]], dst_index + node_offsets[DstOf[e]]>>)]
  /\ UNCHANGED <<fieldVars, current_node_counts, counted, node_offsets, ptrs,
                 current_graph_idx, torn, encoding>>

RegisterGraphField(f) ==
  /\ Usable
  /\ current_graph_idx = 0 \/ "late" \in Liberties
  /\ \E order \in Orders : IsPrefix(registered, order) /\ f \in ToSet(order)
       /\ f \notin ToSet(registered) => order[Len(registered) + 1] = f
  /\ RegisterField(f)
  /\ UNCHANGED <<graphVars, torn, encoding>>

\* Rows that index nodes or ids stay within the open graph's.
LocalRows(f, rows) ==
  /\ IncKind[f] = "NODE_OFFSET" =>
       \A i \in DOMAIN rows : rows[i] < current_node_counts[IncOf[f]]
  /\ IncKind[f] = "FIELD_OFFSET" =>
       /\ pending[IncOf[f]] # NoValue
       /\ \A i \in DOMAIN rows : rows[i] < pending[IncOf[f]][1]

SetGraphField(f, rows) ==
  /\ Usable
  /\ LocalRows(f, rows)
  /\ SetField(f, rows)
  /\ UNCHANGED <<graphVars, torn, encoding>>

-----------------------------------------------------------------------------
(* Committing the open graph.                                              *)

\* Mutant: the count field is summed after the graph's own counts went in.
CommitIncAfterCounts ==
  [f \in Fields |->
     IF IncKind[f] = "NODE_OFFSET" THEN node_offsets[IncOf[f]]
     ELSE IF IncKind[f] = "FIELD_OFFSET" /\ pending[IncOf[f]] # NoValue
          THEN CountSum(values[IncOf[f]] \o pending[IncOf[f]])
     ELSE 0]

\* What a graph's rows are shifted by: the committed nodes, or the sum of the
\* committed count field.
CommitInc ==
  [f \in Fields |->
     IF IncKind[f] = "NODE_OFFSET" THEN node_offsets[IncOf[f]]
     ELSE IF IncKind[f] = "FIELD_OFFSET" THEN CountSum(values[IncOf[f]])
     ELSE 0]

FirstGraph == current_graph_idx = 0

OffsetsWith(counts) == [t \in NodeTypes |-> node_offsets[t] + counts[t]]

\* Mutant: the boundary is the graph's count instead of the running total.
PtrsWithCounts(keys, counts) ==
  [t \in NodeTypes |-> IF t \in keys THEN Append(Opened(ptrs[t]), counts[t]) ELSE ptrs[t]]

\* Every type with a key advances by one boundary, whether or not the graph
\* has nodes of it.
PtrsWith(keys, counts) ==
  [t \in NodeTypes |->
     IF t \in keys THEN Append(Opened(ptrs[t]), node_offsets[t] + counts[t]) ELSE ptrs[t]]

\* Mutant: only types the graph has nodes of get a boundary.
CommittedPtrsOfNodes ==
  [t \in NodeTypes |->
     IF current_node_counts[t] > 0 THEN PtrsWith(counted, current_node_counts)[t] ELSE ptrs[t]]

\* next_graph also repeats the boundary of types that have a ptr but no key.
CommittedPtrs ==
  [t \in NodeTypes |->
     IF t \notin counted /\ ptrs[t] # <<>> THEN Append(ptrs[t], Last(ptrs[t]))
     ELSE PtrsWith(counted, current_node_counts)[t]]

\* Every encoder declares a node type before it commits its first graph.
MayCommit == current_graph_idx < MaxGraphs /\ counted # {}

NextGraph ==
  /\ Usable /\ MayCommit
  /\ ~CommitThrows(FirstGraph)
  /\ values' = CommittedValues(ToSet(registered), CommitInc)
  /\ field_ptr' = CommittedPtr(ToSet(registered))
  /\ pending' = CommittedPending(ToSet(registered))
  /\ node_offsets' = OffsetsWith(current_node_counts)
  /\ ptrs' = CommittedPtrs
  /\ current_node_counts' = NoNodes
  /\ current_graph_idx' = current_graph_idx + 1
  /\ UNCHANGED <<registered, counted, edge_index, torn, encoding>>

\* The fields are committed first: when one is refused, those before it keep
\* the graph's rows and no boundary moves.  build() throws out of the
\* next_graph() it starts with in the same way.
NextGraphThrows ==
  /\ Usable /\ MayCommit
  /\ CommitThrows(FirstGraph)
  /\ values' = CommittedValues(CommittedBefore(FirstGraph), CommitInc)
  /\ field_ptr' = CommittedPtr(CommittedBefore(FirstGraph))
  /\ pending' = CommittedPending(CommittedBefore(FirstGraph))
  /\ torn' = TRUE
  /\ UNCHANGED <<registered, graphVars, encoding>>

-----------------------------------------------------------------------------
(* Building.                                                               *)

\* Mutants: no padding, and padding behind the last boundary.
Unpadded(ptr, n) == ptr
RightPadded(ptr, n) ==
  IF ptr = <<>> THEN <<>>
  ELSE [i \in 1..n |-> IF i <= Len(ptr) THEN ptr[i] ELSE Last(ptr)]

\* Graphs before the first one that has the type get its first boundary.
LeftPadded(ptr, n) ==
  IF ptr = <<>> THEN <<>>
  ELSE LET missing == n - Len(ptr) IN
       [i \in 1..n |-> IF i <= missing THEN ptr[1] ELSE ptr[i - missing]]

\* Mutant: an absent boundary vector counts as one graph less than none.
GraphCountOfEmpty(boundaries, declared, idx) ==
  LET spans == {Len(boundaries[t]) - 1 : t \in NodeTypes}
  IN CHOOSE n \in spans : \A m \in spans : m <= n

\* The longest boundary vector decides how many graphs there are.  Where none
\* has two boundaries, the types that are declared (node_counts) make one graph.
GraphCount(boundaries, declared, idx) ==
  LET spans == {Len(boundaries[t]) - 1 : t \in {u \in NodeTypes : boundaries[u] # <<>>}}
  IN IF ~(spans \subseteq {0}) THEN CHOOSE n \in spans : \A m \in spans : m <= n
     ELSE IF declared # {} THEN 1 ELSE idx

Batch(vals, fptr, boundaries, n) ==
  [registered |-> registered, values |-> vals, field_ptr |-> fptr,
   ptrs |-> [t \in NodeTypes |-> LeftPadded(boundaries[t], n + 1)],
   edge_index |-> edge_index, num_graphs |-> n]

\* The PyG build reads the boundaries again, without committing the open
\* graph.  A builder that has committed none is one graph of the open nodes.
Bounded(boundaries) == {t \in NodeTypes : Len(boundaries[t]) >= 2}

LongestBoundary(boundaries) ==
  LET lengths == {Len(boundaries[t]) : t \in Bounded(boundaries)}
  IN CHOOSE n \in lengths : \A m \in lengths : m <= n

UnboundedPtr(boundaries, counts, t) ==
  IF Bounded(boundaries) = {} /\ counts[t] > 0 THEN <<0, counts[t]>> ELSE <<>>

\* Mutant: the missing graphs are taken to be the last ones.
PygPtrsPaddedBehind(boundaries, counts) ==
  [t \in NodeTypes |->
     IF t \in Bounded(boundaries) THEN RightPadded(boundaries[t], LongestBoundary(boundaries))
     ELSE UnboundedPtr(boundaries, counts, t)]

PygPtrs(boundaries, counts) ==
  [t \in NodeTypes |->
     IF t \in Bounded(boundaries) THEN LeftPadded(boundaries[t], LongestBoundary(boundaries))
     ELSE UnboundedPtr(boundaries, counts, t)]

\* The graph, counted from 0, that each node lies in.  Boundaries start at 0
\* and never fall.
PygBatchVector(ptr) ==
  IF ptr = <<>> THEN <<>>
  ELSE [v \in 1..Last(ptr) |->
          (CHOOSE k \in 1..(Len(ptr) - 1) : ptr[k] < v /\ v <= ptr[k + 1]) - 1]

\* What makes build() commit the open graph by itself.
HasUncommitted ==
  \/ \E t \in NodeTypes : current_node_counts[t] > 0
  \/ \E f \in ToSet(registered) : pending[f] # NoValue

Cleared ==
  /\ registered' = <<>>
  /\ values' = NoRows
  /\ field_ptr' = NoRows
  /\ pending' = NothingPending
  /\ current_node_counts' = NoNodes
  /\ counted' = {}
  /\ node_offsets' = NoNodes
  /\ ptrs' = NoPtrs
  /\ edge_index' = NoEdges
  /\ current_graph_idx' = 0
  /\ torn' = FALSE

\* What is left out: types that were declared, and no node and no graph, from
\* which build() makes a graph that no boundary vector shows.
HasTypedGraphs == counted # {} => current_graph_idx > 0

Build ==
  /\ Usable
  /\ \/ /\ HasUncommitted /\ MayCommit /\ ~CommitThrows(FirstGraph)
        /\ encoding' = Batch(CommittedValues(ToSet(registered), CommitInc),
                             CommittedPtr(ToSet(registered)), CommittedPtrs,
                             GraphCount(CommittedPtrs, counted, current_graph_idx + 1))
     \/ /\ ~HasUncommitted /\ HasTypedGraphs
        /\ encoding' = Batch(values, field_ptr, ptrs,
                             GraphCount(ptrs, counted, current_graph_idx))
  /\ Cleared

\* reset(), or the caller letting go of the encoding of a builder that
\* build() has already reset.
Reset == Cleared /\ encoding' = None

LoadFromEncoding ==
  /\ encoding # None
  /\ registered' = encoding.registered
  /\ values' = encoding.values
  /\ field_ptr' = encoding.field_ptr
  /\ pending' = NothingPending
  /\ ptrs' = encoding.ptrs
  /\ edge_index' = encoding.edge_index
  /\ current_graph_idx' = encoding.num_graphs
  /\ current_node_counts' = NoNodes
  /\ counted' = KeysOf(encoding)
  /\ node_offsets' = [t \in NodeTypes |-> CountOf(encoding, t)]
  /\ torn' = FALSE
  /\ encoding' = None

-----------------------------------------------------------------------------
(* Merging a single-graph encoding behind the committed graphs.            *)

MergedCounts(e) ==
  [t \in NodeTypes |->
     IF current_node_counts[t] < CountOf(e, t) THEN CountOf(e, t) ELSE current_node_counts[t]]

\* Mutant: node indices of a merged field are not shifted.
MergeIncOfIds(e) ==
  [f \in Fields |-> IF IncKind[f] = "FIELD_OFFSET" THEN FieldOffsetInMerge(f, e) ELSE 0]

\* The same for a merged graph, whose count field may have grown already.
MergeInc(e) ==
  [f \in Fields |->
     IF IncKind[f] = "NODE_OFFSET" THEN node_offsets[IncOf[f]]
     ELSE IF IncKind[f] = "FIELD_OFFSET" THEN FieldOffsetInMerge(f, e)
     ELSE 0]

\* Mutants: both ends shifted by the source's offset, and shifted the wrong way.
ShiftedBySource(e) ==
  [r \in EdgeTypes |->
     [i \in DOMAIN e.edge_index[r] |->
        <<e.edge_index[r][i][1] + node_offsets[SrcOf[r]],
          e.edge_index[r][i][2] + node_offsets[SrcOf[r]]>>]]
ShiftedBack(e) ==
  [r \in EdgeTypes |->
     [i \in DOMAIN e.edge_index[r] |->
        <<e.edge_index[r][i][1] - node_offsets[SrcOf[r]],
          e.edge_index[r][i][2] - node_offsets[DstOf[r]]>>]]

\* Each end of an edge is shifted by the offset of its own type.
ShiftedEdges(e) ==
  [r \in EdgeTypes |->
     [i \in DOMAIN e.edge_index[r] |->
        <<e.edge_index[r][i][1] + node_offsets[SrcOf[r]],
          e.edge_index[r][i][2] + node_offsets[DstOf[r]]>>]]

\* Streams and batch_encodings merge into a builder with no open graph.
MayMerge(e) ==
  /\ ~HasUncommitted
  /\ current_graph_idx < MaxGraphs
  /\ KeysOf(e) # {}
  /\ ToSet(e.registered) \subseteq ToSet(registered) \/ FirstGraph \/ "late" \in Liberties
  /\ "counts_first" \in Liberties \/ \A f \in ToSet(e.registered) :
       IncKind[f] = "FIELD_OFFSET" => ~Precedes(IncOf[f], f, MergedOrder(e))

AppendEncoding(e) ==
  /\ Usable /\ MayMerge(e)
  /\ ~MergeThrows(e)
  /\ registered' = MergedOrder(e)
  /\ values' = MergedValues(ToSet(MergedOrder(e)), e, MergeInc(e))
  /\ field_ptr' = MergedPtr(ToSet(MergedOrder(e)), e)
  /\ counted' = counted \cup KeysOf(e)
  /\ node_offsets' = OffsetsWith(MergedCounts(e))
  /\ ptrs' = PtrsWith(counted \cup KeysOf(e), MergedCounts(e))
  /\ edge_index' = [r \in EdgeTypes |-> edge_index[r] \o ShiftedEdges(e)[r]]
  /\ current_node_counts' = NoNodes
  /\ current_graph_idx' = current_graph_idx + 1
  /\ UNCHANGED <<pending, torn, encoding>>

\* A required field that e lacks, or a CONST that differs, is noticed after
\* e's node counts and earlier fields have been taken over.
AppendEncodingThrows(e) ==
  /\ Usable /\ MayMerge(e)
  /\ MergeThrows(e)
  /\ registered' = MergedOrder(e)
  /\ values' = MergedValues(MergedBefore(e), e, MergeInc(e))
  /\ field_ptr' = MergedPtr(MergedBefore(e), e)
  /\ counted' = counted \cup KeysOf(e)
  /\ current_node_counts' = MergedCounts(e)
  /\ torn' = TRUE
  /\ UNCHANGED <<pending, node_offsets, ptrs, edge_index, current_graph_idx, encoding>>

-----------------------------------------------------------------------------
Next ==
  \/ \E t \in NodeTypes : \E count \in 0..MaxNodes[t] : AddNodes(t, count)
  \/ \E e \in EdgeTypes :
       \E i \in 0..(MaxNodes[SrcOf[e]] - 1), j \in 0..(MaxNodes[DstOf[e]] - 1) : AddEdge(e, i, j)
  \/ \E f \in Fields : RegisterGraphField(f)
  \/ \E f \in Fields : \E rows \in FieldInputs[f] : SetGraphField(f, rows)
  \/ NextGraph
  \/ NextGraphThrows
  \/ \E e \in Encodings : AppendEncoding(e)
  \/ \E e \in Encodings : AppendEncodingThrows(e)
  \/ Build
  \/ Reset
  \/ LoadFromEncoding

Spec == Init /\ [][Next]_vars
=============================================================================
