---------------------------- MODULE TransitionDag ----------------------------
(***************************************************************************)
(* TransitionDAG: the search graph that a caller builds from planner       *)
(* states before a Horizon encoder looks ahead in it.  A node is found by  *)
(* its state, so registering a transition twice, or two transitions into   *)
(* the same state, meets nodes that exist already and whose labels may     *)
(* disagree.  The node with index i of the code is nodes[i + 1] here.      *)
(* The operators below take a dag and return the next one, as the methods  *)
(* of the class change theirs.                                             *)
(***************************************************************************)
EXTENDS Integers, Sequences, FiniteSets

CONSTANTS States,         \* planner states
          GroundActions,  \* what a transition may be labelled with
          CandidateIds,   \* identities callers give to target nodes
          Deltas,         \* literal lists callers attach to a node
          None            \* an absent optional

ASSUME NoneAssumption == None \notin GroundActions \cup CandidateIds \cup Deltas

Optional(S) == S \cup {None}

Labels == [action       : Optional(GroundActions),
           candidate_id : Optional(CandidateIds),
           delta        : Optional(Deltas)]

NoLabels == [action |-> None, candidate_id |-> None, delta |-> None]

Records == [parent : States, child : States, labels : Labels]

Node(state, depth, labels) == [state |-> state, depth |-> depth, labels |-> labels]

(***************************************************************************)
(* A dag and how it is read.                                               *)
(***************************************************************************)
Positions(g) == DOMAIN g.nodes

Known(g) == {g.nodes[i].state : i \in Positions(g)}

contains(g, s) == s \in Known(g)

index(g, s) == CHOOSE i \in Positions(g) : g.nodes[i].state = s

NewDag(root) == [nodes |-> <<Node(root, 0, NoLabels)>>, adjacency |-> <<<<>>>>]

\* transitions(): every registered pair, once per registration.
Transitions(g) ==
  UNION {{<<i, k>> : k \in DOMAIN g.adjacency[i]} : i \in Positions(g)}

Endpoints(g, t) == <<t[1], g.adjacency[t[1]][t[2]]>>

Children(g, i) == {g.adjacency[i][k] : k \in DOMAIN g.adjacency[i]}

(***************************************************************************)
(* get_or_add_node: an unknown state gets a node at the end, with a depth  *)
(* to be computed.  A known one keeps the labels it has and takes those it *)
(* lacks; a candidate id or delta that differs from the recorded one is    *)
(* refused, after the labels in front of it have been written.             *)
(***************************************************************************)
Agrees(known, given) == given = None \/ known = None \/ known = given

\* Mutant: the label given last wins.
FilledAgain(known, given) == IF given = None THEN known ELSE given

Filled(known, given) == IF known = None THEN given ELSE known

CandidateAgrees(known, given) == Agrees(known.candidate_id, given.candidate_id)

LabelsAgree(known, given) ==
  /\ CandidateAgrees(known, given)
  /\ Agrees(known.delta, given.delta)

\* Mutant: the candidate id is written before it is compared.
FilledUnchecked(known, given) ==
  [action       |-> Filled(known.action, given.action),
   candidate_id |-> IF given.candidate_id = None
                    THEN known.candidate_id ELSE given.candidate_id,
   delta        |-> Filled(known.delta, given.delta)]

FilledLabels(known, given) ==
  [action       |-> Filled(known.action, given.action),
   candidate_id |-> Filled(known.candidate_id, given.candidate_id),
   delta        |-> IF CandidateAgrees(known, given)
                    THEN Filled(known.delta, given.delta) ELSE known.delta]

WithNode(g, s, labels) ==
  IF contains(g, s)
  THEN [g EXCEPT !.nodes[index(g, s)].labels = FilledLabels(@, labels)]
  ELSE [nodes     |-> Append(g.nodes, Node(s, -1, labels)),
        adjacency |-> Append(g.adjacency, <<>>)]

\* Whether get_or_add_node returns rather than throws.
MayLabel(g, s, labels) ==
  contains(g, s) => LabelsAgree(g.nodes[index(g, s)].labels, labels)

(***************************************************************************)
(* finalize_depths: breadth-first from the root; what it does not reach    *)
(* keeps depth -1.                                                         *)
(***************************************************************************)
PairsOf(g) == {Endpoints(g, t) : t \in Transitions(g)}

Reached(pairs, met) == met \cup {p[2] : p \in {q \in pairs : q[1] \in met}}

\* What is met within 0, 1, ..., n steps from root along the pairs.
Levels(root, pairs, n) ==
  LET levels[k \in 0..n] == IF k = 0 THEN {root} ELSE Reached(pairs, levels[k - 1])
  IN  levels

\* The number of levels that a node is not yet met in.
Depth(levels, n, i) ==
  IF i \in levels[n] THEN Cardinality({k \in 0..(n - 1) : i \notin levels[k]}) ELSE -1

\* Mutant: a depth that was computed once is kept.
FinalizedOnce(g) ==
  LET levels == Levels(1, PairsOf(g), Len(g.nodes))
  IN  [g EXCEPT !.nodes = [i \in Positions(g) |->
         IF g.nodes[i].depth = -1 THEN [g.nodes[i] EXCEPT !.depth = Depth(levels, Len(g.nodes), i)]
         ELSE g.nodes[i]]]

Finalized(g) ==
  LET levels == Levels(1, PairsOf(g), Len(g.nodes))
  IN  [g EXCEPT !.nodes = [i \in Positions(g) |->
         [g.nodes[i] EXCEPT !.depth = Depth(levels, Len(g.nodes), i)]]]

(***************************************************************************)
(* register_transition_impl, without the depths.                           *)
(***************************************************************************)
WithParent(g, r, require_parent) ==
  IF require_parent THEN g ELSE WithNode(g, r.parent, NoLabels)

WithChild(g, r, require_parent) ==
  WithNode(WithParent(g, r, require_parent), r.child, r.labels)

Registers(g, r, require_parent) ==
  /\ require_parent => contains(g, r.parent)
  /\ MayLabel(WithParent(g, r, require_parent), r.child, r.labels)

\* Mutant: the edge leads to the place behind the last node.
JoinedBehind(g, r) ==
  [g EXCEPT !.adjacency[index(g, r.parent)] = Append(@, Len(g.nodes) + 1)]

Joined(g, r) ==
  [g EXCEPT !.adjacency[index(g, r.parent)] = Append(@, index(g, r.child))]

\* Mutant: the edge of a refused record stays.
AfterRecordJoined(g, r, require_parent) ==
  IF require_parent /\ ~contains(g, r.parent) THEN g
  ELSE Joined(WithChild(g, r, require_parent), r)

\* The dag after one record: joined when it is accepted, else as far as the
\* call got before it threw.
AfterRecord(g, r, require_parent) ==
  IF require_parent /\ ~contains(g, r.parent) THEN g
  ELSE IF Registers(g, r, require_parent)
  THEN Joined(WithChild(g, r, require_parent), r)
  ELSE WithChild(g, r, require_parent)
=============================================================================
