---------------------------- MODULE MCBatchBuilder ----------------------------
(***************************************************************************)
(* Instances of the batch builder: two node types and edges across them,   *)
(* graphs written, merged and reloaded, as long as no field is registered; *)
(* and graph fields of all modes and increments over one node type,        *)
(* written graph by graph, merged, refused halfway, built and reloaded.    *)
(***************************************************************************)
EXTENDS BatchBuilderProperties

CONSTANTS obj, fact, holds, counts, ids, atoms, kind

-----------------------------------------------------------------------------
(* Shapes.                                                                 *)

MCEdgeTypes == {holds}
MCSrcOf == [e \in MCEdgeTypes |-> fact]
MCDstOf == [e \in MCEdgeTypes |-> obj]

MCMaxNodes == (obj :> 1) @@ (fact :> 2)

Shape(nodes, edges) ==
  [registered |-> <<>>, values |-> [f \in Fields |-> <<>>], field_ptr |-> [f \in Fields |-> <<>>],
   ptrs |-> [t \in NodeTypes |-> IF t \in DOMAIN nodes THEN <<0, nodes[t]>> ELSE <<>>],
   edge_index |-> [e \in EdgeTypes |-> edges], num_graphs |-> 1]

\* A graph of both types, and one whose problem has no fact at all.
MCShapes == {Shape((obj :> 1) @@ (fact :> 2), << <<1, 0>> >>), Shape(obj :> 2, <<>>)}

-----------------------------------------------------------------------------
(* Fields.                                                                 *)

MCFields == {counts, ids, atoms, kind}
MCMode == (counts :> "STACK") @@ (ids :> "CAT") @@ (atoms :> "RAGGED_CAT") @@ (kind :> "CONST")
MCIncKind == (counts :> "NONE") @@ (ids :> "FIELD_OFFSET") @@ (atoms :> "NODE_OFFSET")
               @@ (kind :> "NONE")
MCIncOf == (counts :> kind) @@ (ids :> counts) @@ (atoms :> obj) @@ (kind :> kind)
MCFieldInputs == (counts :> {<<2>>}) @@ (ids :> {<<1, 0>>})
                   @@ (atoms :> {<<0>>}) @@ (kind :> {<<7>>})

SingleGraph(order, vals) ==
  [registered |-> order,
   values |-> [f \in MCFields |-> IF f \in ToSet(order) THEN vals[f] ELSE <<>>],
   field_ptr |-> [f \in MCFields |->
     IF f = atoms /\ f \in ToSet(order) THEN <<0, Len(vals[f])>> ELSE <<>>],
   ptrs |-> [t \in NodeTypes |-> IF t = obj THEN <<0, 2>> ELSE <<>>],
   edge_index |-> NoEdges, num_graphs |-> 1]

MCVals == (counts :> <<2>>) @@ (ids :> <<1, 0>>) @@ (atoms :> <<1>>) @@ (kind :> <<7>>)

\* The count field is registered behind the ids that use it; the second
\* encoding lacks the ragged field and has another constant, the third has no
\* ids at all, and a shape lacks every field.
MCEncodings ==
  {SingleGraph(<<atoms, ids, counts, kind>>, MCVals),
   SingleGraph(<<ids, counts, kind>>, (kind :> <<8>>) @@ MCVals),
   SingleGraph(<<atoms, ids, counts, kind>>, (counts :> <<0>>) @@ (ids :> <<>>) @@ MCVals)}

\* What a derived encoder produces (counts, then ids), and an encoder without fields.
MCMixed == {SingleGraph(<<counts, ids>>, MCVals), Shape(obj :> 2, <<>>)}

\* Direct writing may register the counts before or behind their ids.
MCOrders == {<<counts, ids, atoms, kind>>, <<atoms, ids, counts, kind>>}

-----------------------------------------------------------------------------
(* Both in one run.                                                        *)

MCShapesAndFields == MCShapes \cup MCEncodings

\* Bound: a batch with fields has two graphs at most, of objects only.
FieldsApart ==
  registered # <<>> => current_graph_idx <= 2 /\ counted \subseteq {obj}
=============================================================================
