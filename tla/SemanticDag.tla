------------------------------ MODULE SemanticDag ------------------------------
(***************************************************************************)
(* SemanticTransitionDAG: the backend-neutral dag that a Horizon encoder   *)
(* reads.  It is built once, from nodes and edges that must already agree: *)
(* the constructor checks the topology and every depth and accepts or      *)
(* refuses the whole.  A dag here is                                       *)
(*   nodes   a sequence of [state, depth, labels] records, root first      *)
(*   edges   a function from registrations to pairs of positions: two      *)
(*           registrations of one pair are two edges                       *)
(***************************************************************************)
EXTENDS TransitionDag

NodeSet(d) == DOMAIN d.nodes

Pairs(d) == {d.edges[t] : t \in DOMAIN d.edges}

(***************************************************************************)
(* Accessors.                                                              *)
(***************************************************************************)
ChildrenOf(d, i) == {j \in NodeSet(d) : <<i, j>> \in Pairs(d)}

ParentsOf(d, i) == {j \in NodeSet(d) : <<j, i>> \in Pairs(d)}

Targets(d, include_root) == IF include_root THEN NodeSet(d) ELSE NodeSet(d) \ {1}

candidate_id_coverage(d, include_root) ==
  LET present == {i \in Targets(d, include_root) : d.nodes[i].labels.candidate_id # None}
  IN  IF present = {} THEN "none"
      ELSE IF present = Targets(d, include_root) THEN "complete" ELSE "partial"

\* No ids at all, or an id for every target and no id twice.
ValidCandidateIds(d, include_root) ==
  LET targets == Targets(d, include_root)
  IN  \/ candidate_id_coverage(d, include_root) = "none"
      \/ /\ candidate_id_coverage(d, include_root) = "complete"
         /\ \A i, j \in targets :
              d.nodes[i].labels.candidate_id = d.nodes[j].labels.candidate_id => i = j

\* candidate_ids(): the explicit ids of the targets, or none.
candidate_ids(d, include_root) ==
  IF candidate_id_coverage(d, include_root) = "none" THEN <<>>
  ELSE LET first == IF include_root THEN 1 ELSE 2
       IN  [k \in 1..(Len(d.nodes) - first + 1) |->
              d.nodes[first + k - 1].labels.candidate_id]

(***************************************************************************)
(* The constructor.                                                        *)
(***************************************************************************)
RootIsPlain(d) ==
  /\ d.nodes # <<>>
  /\ d.nodes[1].depth = 0
  /\ d.nodes[1].labels.action = None
  /\ d.nodes[1].labels.delta = None

EdgesValid(d, allow_non_dag_topology) ==
  /\ \A t \in DOMAIN d.edges : d.edges[t][1] \in NodeSet(d) /\ d.edges[t][2] \in NodeSet(d)
  /\ \A t \in DOMAIN d.edges : d.edges[t][1] = d.edges[t][2] => allow_non_dag_topology
  /\ \A t, u \in DOMAIN d.edges : d.edges[t] = d.edges[u] => t = u

\* The topological sort takes a node once all its parents are taken.
Takeable(d, taken) == {i \in NodeSet(d) : ParentsOf(d, i) \subseteq taken}

Sorted(d) ==
  LET taken[k \in 0..Len(d.nodes)] ==
        IF k = 0 THEN {} ELSE Takeable(d, taken[k - 1])
  IN  taken[Len(d.nodes)]

\* The breadth-first search that the stated depths are compared with.
ShortestDepth(d) ==
  LET levels == Levels(1, Pairs(d), Len(d.nodes))
  IN  [i \in NodeSet(d) |-> Depth(levels, Len(d.nodes), i)]

Accepted(d, allow_non_dag_topology) ==
  /\ RootIsPlain(d)
  /\ \A i \in NodeSet(d) : d.nodes[i].depth >= 0
  /\ EdgesValid(d, allow_non_dag_topology)
  /\ allow_non_dag_topology \/ Sorted(d) = NodeSet(d)
  /\ LET shortest == ShortestDepth(d)
     IN  \A i \in NodeSet(d) : shortest[i] >= 0 /\ d.nodes[i].depth = shortest[i]

(***************************************************************************)
(* materialize_dag: what the pymimir Horizon encoders make of a            *)
(* TransitionDAG.  The hetero encoder leaves an action of the root out and *)
(* admits cycles; the flat encoder does neither.                           *)
(***************************************************************************)
Edges(g) == [t \in Transitions(g) |-> Endpoints(g, t)]

\* Mutant: an action of the root is handed on.
HeteroDagAsIs(g) == [nodes |-> g.nodes, edges |-> Edges(g)]

HeteroDag(g) ==
  [nodes |-> [g.nodes EXCEPT ![1].labels.action = None], edges |-> Edges(g)]

FlatDag(g) == [nodes |-> g.nodes, edges |-> Edges(g)]

HeteroAccepts(g) == Accepted(HeteroDag(g), TRUE)

FlatAccepts(g) == Accepted(FlatDag(g), FALSE)

(***************************************************************************)
(* append_target_candidate_rows: the target columns of one graph.  With    *)
(* no explicit ids the node index stands in.                               *)
(***************************************************************************)
TargetRowsRefused(d, include_root) == ~ValidCandidateIds(d, include_root)

TargetRows(d, include_root) ==
  LET first == IF include_root THEN 1 ELSE 2
      explicit == candidate_ids(d, include_root)
  IN  [k \in 1..(Len(d.nodes) - first + 1) |->
         [index        |-> first + k - 2,
          candidate_id |-> IF explicit = <<>> THEN first + k - 2 ELSE explicit[k],
          depth        |-> d.nodes[first + k - 1].depth]]
=============================================================================
