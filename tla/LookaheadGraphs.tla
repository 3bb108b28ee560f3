---------------------------- MODULE LookaheadGraphs ----------------------------
(***************************************************************************)
(* A caller's search graph over its life: built call by call, in bulk, or  *)
(* imported from a rustworkx graph that was itself put together node by    *)
(* node and edge by edge.  Calls are refused midway, and the dag they      *)
(* leave behind is the one the next call and the encoders see.             *)
(***************************************************************************)
EXTENDS RustworkxImport

CONSTANTS Root,            \* the state a dag is made for
          Calls,           \* records given to register_transition
          BulkCalls,       \* sequences of records given to register_transitions
          RxNodes,         \* the node data callers put at each index of a PyDiGraph
          RxEdges,         \* and the edges they put between the nodes
          MaxTransitions,  \* bound on the registrations of one dag
          MaxRefused,      \* bound on the calls that raise
          MaxBuiltOn,      \* bound on the edges of an imported dag that is built on
          MaxRxEdges

ASSUME RootAssumption == Root \in States

ASSUME InputAssumption ==
  /\ Calls \subseteq Records
  /\ \A records \in BulkCalls : records \in Seq(Records) /\ records # <<>>

\* What callers may put on a node or an edge of a rustworkx graph.
NodeData ==
  [state : States, candidate_id : Optional(CandidateIds), delta : Optional(Deltas)]

ASSUME GraphAssumption ==
  /\ RxNodes \in Seq(SUBSET NodeData)
  /\ RxEdges \subseteq (Nat \X Nat \X Optional(GroundActions))
  /\ 0..Len(RxNodes) \subseteq CandidateIds  \* an index may stand in for an id

VARIABLES dag,         \* the TransitionDAG
          accepted,    \* history: the records whose registration returned
          refused,     \* history: records whose registration raised
          bulk,        \* what register_transitions has left to register
          unfinished,  \* history: the last bulk call has not computed the depths
          rx,          \* the rustworkx graph
          import,      \* the edge loop of from_rustworkx, or Idle
          imported     \* dag is what importing rx gave

vars == <<dag, accepted, refused, bulk, unfinished, rx, import, imported>>

Idle == [pending |-> <<>>, waiting |-> <<>>]

Importing == import # Idle

Init ==
  /\ dag = NewDag(Root)
  /\ accepted = <<>>
  /\ refused = {}
  /\ bulk = <<>>
  /\ unfinished = FALSE
  /\ rx = EmptyGraph
  /\ import = Idle
  /\ imported = FALSE

\* A call on the dag itself.  One session builds a dag by calls or imports
\* it; an imported dag may be built on, and is then no longer what rx says.
OnDag ==
  /\ ~Importing /\ bulk = <<>>
  /\ rx = EmptyGraph \/ (imported /\ Len(accepted) <= MaxBuiltOn)
  /\ Len(accepted) < MaxTransitions
  /\ imported' = FALSE
  /\ rx' = EmptyGraph
  /\ UNCHANGED import

OnGraph ==
  /\ ~Importing
  /\ accepted = <<>> /\ refused = {}
  /\ imported' = FALSE
  /\ UNCHANGED <<dag, accepted, refused, bulk, unfinished, import>>

(***************************************************************************)
(* register_transition.                                                    *)
(***************************************************************************)
RegisterTransition(r) ==
  /\ OnDag
  /\ Registers(dag, r, TRUE)
  /\ dag' = Finalized(AfterRecord(dag, r, TRUE))
  /\ accepted' = Append(accepted, r)
  /\ unfinished' = FALSE
  /\ UNCHANGED <<refused, bulk>>

RegisterTransitionRaises(r) ==
  /\ OnDag
  /\ Cardinality(refused) < MaxRefused
  /\ ~Registers(dag, r, TRUE)
  /\ dag' = AfterRecord(dag, r, TRUE)
  /\ refused' = IF contains(dag, r.parent) THEN refused \cup {r} ELSE refused
  /\ UNCHANGED <<accepted, bulk, unfinished>>

(***************************************************************************)
(* register_transitions.  The binding collects the records first, so a bad *)
(* tuple raises before anything is registered.  They are then registered   *)
(* one by one, parents added as needed, and the depths computed once, at   *)
(* the end; a record that is refused ends the call before that.            *)
(***************************************************************************)
BulkBegins(records) ==
  /\ OnDag
  /\ bulk' = records
  /\ unfinished' = TRUE
  /\ UNCHANGED <<dag, accepted, refused>>

BulkRegisters ==
  /\ bulk # <<>>
  /\ Registers(dag, Head(bulk), FALSE)
  /\ LET joined == AfterRecord(dag, Head(bulk), FALSE)
     IN  dag' = IF Tail(bulk) = <<>> THEN Finalized(joined) ELSE joined
  /\ accepted' = Append(accepted, Head(bulk))
  /\ bulk' = Tail(bulk)
  /\ unfinished' = (Tail(bulk) # <<>>)
  /\ UNCHANGED <<refused, rx, import, imported>>

BulkRaises ==
  /\ bulk # <<>>
  /\ ~Registers(dag, Head(bulk), FALSE)
  /\ dag' = AfterRecord(dag, Head(bulk), FALSE)
  /\ refused' = refused \cup {Head(bulk)}
  /\ bulk' = <<>>
  /\ UNCHANGED <<accepted, unfinished, rx, import, imported>>

(***************************************************************************)
(* A rustworkx graph under construction, by its own API.                   *)
(***************************************************************************)
RxAddNode(data) ==
  /\ OnGraph
  /\ Len(rx.data) < Len(RxNodes)
  /\ data \in RxNodes[Len(rx.data) + 1]
  /\ rx' = [rx EXCEPT !.data = Append(@, data)]

RxAddEdge(e) ==
  /\ OnGraph
  /\ Len(rx.edges) < MaxRxEdges
  /\ e[1] \in Indices(rx) /\ e[2] \in Indices(rx)
  /\ rx' = [rx EXCEPT !.edges = Append(@, e)]

(***************************************************************************)
(* from_rustworkx.  It returns a new dag or raises; the caller's dag is    *)
(* replaced only when it returns.                                          *)
(***************************************************************************)
ImportBegins(fallback) ==
  /\ ~Importing /\ bulk = <<>>
  /\ ImportChecked(rx, fallback)
  /\ import' = ImportStarted(rx, fallback)
  /\ UNCHANGED <<dag, accepted, refused, bulk, unfinished, rx, imported>>

ImportEdge ==
  /\ Importing
  /\ import.pending # <<>>
  /\ import' = AfterEdge(rx, import)
  /\ UNCHANGED <<dag, accepted, refused, bulk, unfinished, rx, imported>>

ImportNextRound ==
  /\ Importing
  /\ import.pending = <<>> /\ import.waiting # <<>>
  /\ import.progressed
  /\ import' = NextRound(import)
  /\ UNCHANGED <<dag, accepted, refused, bulk, unfinished, rx, imported>>

\* The records one by one, in the new dag; the depths come at the end.
EdgesDone == import.pending = <<>> /\ import.waiting = <<>>

NextRecord == import.records[import.registered + 1]

ImportRegisters ==
  /\ Importing
  /\ EdgesDone
  /\ import.registered < Len(import.records)
  /\ Registers(import.dag, NextRecord, FALSE)
  /\ import' = [import EXCEPT !.registered = @ + 1,
                              !.dag = AfterRecord(@, NextRecord, FALSE)]
  /\ UNCHANGED <<dag, accepted, refused, bulk, unfinished, rx, imported>>

ImportReturns ==
  /\ Importing
  /\ EdgesDone
  /\ import.registered = Len(import.records)
  /\ dag' = IF import.records = <<>> THEN import.dag ELSE Finalized(import.dag)
  /\ accepted' = import.records
  /\ refused' = {}
  /\ unfinished' = FALSE
  /\ imported' = TRUE
  /\ import' = Idle
  /\ UNCHANGED <<bulk, rx>>

\* No round got further, or two nodes with one state carry labels that clash.
ImportRaises ==
  /\ Importing
  /\ \/ import.pending = <<>> /\ import.waiting # <<>> /\ ~import.progressed
     \/ /\ EdgesDone
        /\ import.registered < Len(import.records)
        /\ ~Registers(import.dag, NextRecord, FALSE)
  /\ import' = Idle
  /\ UNCHANGED <<dag, accepted, refused, bulk, unfinished, rx, imported>>

ImportSteps == ImportEdge \/ ImportNextRound \/ ImportRegisters \/ ImportReturns \/ ImportRaises

Next ==
  \/ \E r \in Calls : RegisterTransition(r) \/ RegisterTransitionRaises(r)
  \/ \E records \in BulkCalls : BulkBegins(records)
  \/ BulkRegisters \/ BulkRaises
  \/ \E data \in UNION {RxNodes[k] : k \in DOMAIN RxNodes} : RxAddNode(data)
  \/ \E e \in RxEdges : RxAddEdge(e)
  \/ \E fallback \in BOOLEAN : ImportBegins(fallback)
  \/ ImportSteps

\* The edge loop of from_rustworkx runs to its end once it has begun; nobody
\* is obliged to make any call.
Spec == Init /\ [][Next]_vars /\ WF_vars(ImportSteps)

-----------------------------------------------------------------------------
(***************************************************************************)
(* Properties.                                                             *)
(***************************************************************************)

DagNodes == [state : States, depth : Int, labels : Labels]

DagTyped(g) ==
  /\ g \in [nodes : Seq(DagNodes), adjacency : Seq(Seq(Positions(g)))]
  /\ g.nodes # <<>>
  /\ DOMAIN g.adjacency = Positions(g)

\* Edges join nodes that exist (adjacency_ has a row per node), in the
\* caller's dag and in the one an import fills, whatever calls were refused.
TypeOK ==
  /\ DagTyped(dag)
  /\ accepted \in Seq(Records)
  /\ refused \subseteq Records
  /\ bulk \in Seq(Records)
  /\ unfinished \in BOOLEAN
  /\ imported \in BOOLEAN
  /\ Importing => DagTyped(import.dag) /\ import.records \in Seq(Records)

StateOf(i) == dag.nodes[i].state

DagRoot == StateOf(1)

Given == {accepted[k] : k \in DOMAIN accepted}

RegistrationsOf(s, t) ==
  {k \in DOMAIN accepted : accepted[k].parent = s /\ accepted[k].child = t}

ArcsBetween(s, t) ==
  {a \in Transitions(dag) :
     StateOf(Endpoints(dag, a)[1]) = s /\ StateOf(Endpoints(dag, a)[2]) = t}

OneNodePerState(g) ==
  \A i, j \in Positions(g) : g.nodes[i].state = g.nodes[j].state => i = j

\* The dag is what was registered (state_to_index_, adjacency_): a state has
\* one node however it came in, every accepted record is one edge between the
\* nodes of its states, and nothing else is, whatever was refused in between.
DagIsWhatWasRegistered ==
  /\ OneNodePerState(dag)
  /\ \A s, t \in States : Cardinality(ArcsBetween(s, t)) = Cardinality(RegistrationsOf(s, t))
  /\ LET met == {DagRoot} \cup {r.parent : r \in Given} \cup {r.child : r \in Given}
     IN  met \subseteq Known(dag) /\ Known(dag) \subseteq met \cup {r.parent : r \in refused}

\* Depths are the distances from the root (finalize_depths), after calls in
\* any order, in bulk or one by one: the root alone has depth 0, an edge adds
\* at most one, a deeper node has a parent one level up, and what no edge
\* leads to from a node with a depth has none.  A refused bulk call may
\* leave depths behind until a later call computes them.
DepthsAreDistances ==
  ~unfinished =>
    LET depth(i) == dag.nodes[i].depth IN
    /\ depth(1) = 0
    /\ \A i \in Positions(dag) : \A j \in Children(dag, i) :
         depth(i) >= 0 => depth(j) \in 0..(depth(i) + 1)
    /\ \A j \in Positions(dag) \ {1} :
         depth(j) = -1 \/ \E i \in Positions(dag) : j \in Children(dag, i)
                                                     /\ depth(j) = depth(i) + 1 /\ depth(i) >= 0

FirstGiven(s, field) ==
  LET given == {k \in DOMAIN accepted :
                  accepted[k].child = s /\ accepted[k].labels[field] # None}
  IN  IF given = {} THEN None
      ELSE accepted[CHOOSE k \in given : \A l \in given : k <= l].labels[field]

\* A node carries the first action, candidate id and delta that a registration
\* gave it, and no two registrations disagree about the last two; only a
\* refused call into the same node may have left a label of its own behind.
LabelsAreTheFirstGiven ==
  \A i \in Positions(dag) : \A field \in DOMAIN NoLabels :
    LET s == StateOf(i) IN
    /\ s \notin {r.child : r \in refused} =>
         dag.nodes[i].labels[field] = FirstGiven(s, field)
    /\ field # "action" => \A r \in Given :
         r.child = s => r.labels[field] \in {None, dag.nodes[i].labels[field]}

GivenPairs == {<<r.parent, r.child>> : r \in Given}

RegisteredOnce == Cardinality(GivenPairs) = Len(accepted)

AllReached == \A i \in Positions(dag) : dag.nodes[i].depth >= 0

\* Every set of states has one that no state of the set leads to.
Acyclic ==
  \A S \in (SUBSET Known(dag)) \ {{}} : \E t \in S : \A s \in S : <<s, t>> \notin GivenPairs

RootLabels == dag.nodes[1].labels

\* What a caller built by calls that returned can be encoded, unless a pair
\* was registered twice, a node is not reached or the root carries a delta;
\* the flat encoder also wants no cycle and no action on the root.  The
\* constructor of the semantic dag refuses nothing else, in particular no
\* depth that the incremental dag computed.
BuiltDagsEncode ==
  ~unfinished =>
    LET sound == RegisteredOnce /\ AllReached /\ RootLabels.delta = None
    IN  /\ HeteroAccepts(dag) <=> sound
        /\ FlatAccepts(dag) <=> sound /\ Acyclic /\ RootLabels.action = None

DistinctStates(graph) ==
  \A i, j \in Indices(graph) : graph.data[i].state = graph.data[j].state => i = j

\* The two importers read one graph alike: a graph with distinct states that
\* both accept gives the same nodes, edges, depths, actions and deltas, and
\* the candidate ids that were given.  Only a repeated edge makes the pymimir
\* dag one that its own encoder refuses.
ImportersAgree ==
  imported /\ DistinctStates(rx) /\ PyTyrAccepts(rx) =>
    LET d == PyTyrDag(rx)
        InPyTyr(i) == CHOOSE j \in NodeSet(d) : d.nodes[j].state = StateOf(i)
    IN
    /\ Known(dag) = {d.nodes[j].state : j \in NodeSet(d)}
    /\ {<<InPyTyr(a[1]), InPyTyr(Endpoints(dag, a)[2])>> : a \in Transitions(dag)} = Pairs(d)
    /\ \A i \in Positions(dag) :
         LET mine == dag.nodes[i]  theirs == d.nodes[InPyTyr(i)] IN
         /\ mine.depth = theirs.depth
         /\ mine.labels.action = theirs.labels.action
         /\ mine.labels.delta = theirs.labels.delta
         /\ i > 1 => theirs.labels.candidate_id \in {None, mine.labels.candidate_id}
    /\ HeteroAccepts(dag) <=> RegisteredOnce

\* from_rustworkx raises in its edge loop only where PyTyr's importer refuses
\* too, or where two nodes share a state.
ImportRaisesWithPyTyr ==
  [][Importing /\ ~Importing' /\ ~imported' => ~DistinctStates(rx) \/ ~PyTyrAccepts(rx)]_vars

\* Nodes keep their place, state and labels, and rows of children only grow.
Extends(h, g) ==
  /\ Len(g.nodes) <= Len(h.nodes)
  /\ \A i \in Positions(g) :
       /\ g.nodes[i].state = h.nodes[i].state
       /\ \A field \in DOMAIN NoLabels :
            g.nodes[i].labels[field] \in {None, h.nodes[i].labels[field]}
       /\ \A k \in DOMAIN g.adjacency[i] :
            /\ k \in DOMAIN h.adjacency[i]
            /\ h.adjacency[i][k] = g.adjacency[i][k]

\* Indices are stable: no call moves or drops a node, takes a label away,
\* replaces one or removes an edge, whether it returns or raises.
NothingIsTakenBack == [][imported' \/ Extends(dag', dag)]_vars

\* The edge loop ends on every graph, with cycles and unreachable parts too.
ImportEnds == Importing ~> ~Importing
=============================================================================
