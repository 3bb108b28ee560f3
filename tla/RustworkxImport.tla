---------------------------- MODULE RustworkxImport ----------------------------
(***************************************************************************)
(* A search graph can also come from outside, as a rustworkx PyDiGraph.    *)
(* The two backends read it with two importers: TransitionDAG              *)
(* .from_rustworkx in C++ and PyTyrHorizonRuntime._rustworkx_dag in        *)
(* Python.  A graph is                                                     *)
(*   data   the nodes in index order, [state, candidate_id, delta] each    *)
(*   edges  the sequence of <<source, target, action>>                     *)
(***************************************************************************)
EXTENDS SemanticDag

EmptyGraph == [data |-> <<>>, edges |-> <<>>]

Indices(rx) == DOMAIN rx.data

EdgeSet(rx) == {rx.edges[k] : k \in DOMAIN rx.edges}

Roots(rx) == {i \in Indices(rx) : \A e \in EdgeSet(rx) : e[2] # i}

SingleRoot(rx) == Cardinality(Roots(rx)) = 1

RootOf(rx) == CHOOSE i \in Indices(rx) : i \in Roots(rx)

Targeted(rx) == Indices(rx) \ {RootOf(rx)}

(***************************************************************************)
(* from_rustworkx, the checks in front of the edge loop.  A missing id may *)
(* fall back to the node's index, which may be taken by an explicit id.    *)
(***************************************************************************)
ExplicitIds(rx) == {i \in Targeted(rx) : rx.data[i].candidate_id # None}

ResolvedId(rx, fallback, i) ==
  IF i = RootOf(rx) THEN None
  ELSE IF rx.data[i].candidate_id = None /\ fallback THEN i - 1 ELSE rx.data[i].candidate_id

ImportChecked(rx, fallback) ==
  /\ rx.data # <<>>
  /\ SingleRoot(rx)
  /\ fallback \/ ExplicitIds(rx) \in {{}, Targeted(rx)}
  /\ \A i, j \in Targeted(rx) :
       ResolvedId(rx, fallback, i) = ResolvedId(rx, fallback, j)
         => i = j \/ ResolvedId(rx, fallback, i) = None

\* The record an edge becomes once its source is available.
EdgeRecord(rx, fallback, e) ==
  [parent |-> rx.data[e[1]].state,
   child  |-> rx.data[e[2]].state,
   labels |-> [action       |-> e[3],
               candidate_id |-> ResolvedId(rx, fallback, e[2]),
               delta        |-> rx.data[e[2]].delta]]

(***************************************************************************)
(* The edge loop goes round the pending edges until none is left or a      *)
(* round registers nothing: an edge whose source is available becomes a    *)
(* record and makes its target available, the others wait for the next     *)
(* round.  The records are then registered in a new dag, in their order.   *)
(***************************************************************************)
ImportStarted(rx, fallback) ==
  [fallback |-> fallback, pending |-> rx.edges, waiting |-> <<>>,
   available |-> {RootOf(rx)}, progressed |-> FALSE,
   records |-> <<>>, registered |-> 0,
   dag |-> NewDag(rx.data[RootOf(rx)].state)]

\* Mutants: an edge that is too early is dropped, and a target stays unavailable.
AfterEdgeOnce(rx, import) ==
  LET e == Head(import.pending) IN
  IF e[1] \in import.available
  THEN [import EXCEPT !.pending = Tail(@), !.available = @ \cup {e[2]}, !.progressed = TRUE,
                      !.records = Append(@, EdgeRecord(rx, import.fallback, e))]
  ELSE [import EXCEPT !.pending = Tail(@)]

AfterEdgeFromRoot(rx, import) ==
  LET e == Head(import.pending) IN
  IF e[1] \in import.available
  THEN [import EXCEPT !.pending = Tail(@), !.progressed = TRUE,
                      !.records = Append(@, EdgeRecord(rx, import.fallback, e))]
  ELSE [import EXCEPT !.pending = Tail(@), !.waiting = Append(@, e)]

AfterEdge(rx, import) ==
  LET e == Head(import.pending) IN
  IF e[1] \in import.available
  THEN [import EXCEPT !.pending = Tail(@), !.available = @ \cup {e[2]}, !.progressed = TRUE,
                      !.records = Append(@, EdgeRecord(rx, import.fallback, e))]
  ELSE [import EXCEPT !.pending = Tail(@), !.waiting = Append(@, e)]

\* Mutant: progress of one round counts for the next.
NextRoundProgressed(import) == [import EXCEPT !.pending = import.waiting, !.waiting = <<>>]

NextRound(import) ==
  [import EXCEPT !.pending = import.waiting, !.waiting = <<>>, !.progressed = FALSE]

(***************************************************************************)
(* _rustworkx_dag.  Nodes are numbered by depth and index; a repeated edge *)
(* is kept once; every edge into a node must carry the same action.        *)
(***************************************************************************)
RxPairs(rx) == {<<e[1], e[2]>> : e \in EdgeSet(rx)}

RxDepths(rx) ==
  LET levels == Levels(RootOf(rx), RxPairs(rx), Len(rx.data))
  IN  [i \in Indices(rx) |-> Depth(levels, Len(rx.data), i)]

IncomingActions(rx, i) == {e[3] : e \in {f \in EdgeSet(rx) : f[2] = i}}

ReadByPyTyr(rx) ==
  /\ rx.data # <<>>
  /\ SingleRoot(rx)
  /\ \A e \in EdgeSet(rx) : e[1] # e[2]
  /\ LET depth == RxDepths(rx) IN \A i \in Indices(rx) : depth[i] >= 0
  /\ \A i \in Indices(rx) : Cardinality(IncomingActions(rx, i)) <= 1

\* The place of each node in the semantic numbering.
SemanticIndex(rx) ==
  LET depth == RxDepths(rx)
      Before(i, j) == depth[i] < depth[j] \/ (depth[i] = depth[j] /\ i < j)
  IN  [j \in Indices(rx) |-> 1 + Cardinality({i \in Indices(rx) : Before(i, j)})]

PyTyrDag(rx) ==
  LET place == SemanticIndex(rx)
      depth == RxDepths(rx)
      Native(k) == CHOOSE i \in Indices(rx) : place[i] = k
      Incoming(i) == IF IncomingActions(rx, i) = {} THEN None
                     ELSE CHOOSE a \in IncomingActions(rx, i) : TRUE
  IN  [nodes |-> [k \in 1..Len(rx.data) |->
                    Node(rx.data[Native(k)].state, depth[Native(k)],
                         [action       |-> Incoming(Native(k)),
                          candidate_id |-> rx.data[Native(k)].candidate_id,
                          delta        |-> rx.data[Native(k)].delta])],
       edges |-> [p \in RxPairs(rx) |-> <<place[p[1]], place[p[2]]>>]]

PyTyrAccepts(rx) == ReadByPyTyr(rx) /\ Accepted(PyTyrDag(rx), FALSE)
=============================================================================
