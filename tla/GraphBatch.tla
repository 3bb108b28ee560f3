----------------------------- MODULE GraphBatch -----------------------------
(***************************************************************************)
(* What a batch builder promises, without any offset: a batch is the       *)
(* sequence of the graphs put into it.  Committed graphs never change,     *)
(* a new graph is appended whole, an operation that throws loses only the  *)
(* graph that was open, and a finished encoding can be taken up again.     *)
(*                                                                         *)
(* BatchBuilder implements this with global node indices, boundary ("ptr") *)
(* vectors and shifted field values; its refinement mapping cuts the batch *)
(* back into local graphs.                                                 *)
(***************************************************************************)
EXTENDS Naturals, Sequences

CONSTANTS
  NodeTypes,   \* node type names
  EdgeTypes,   \* (source type, relation, target type) triples
  Fields,      \* graph-field keys
  Locals,      \* the single-graph encodings that may be merged, as graphs
  NoValue,     \* a field that the open graph has not assigned
  Aborted      \* the open graph of a builder whose last call threw

VARIABLES
  graphs,      \* the committed graphs, in order
  open,        \* the graph under construction, or Aborted
  sealed       \* TRUE once build() handed the batch out

abstractVars == <<graphs, open, sealed>>

NoGraph ==
  [nodes |-> [t \in NodeTypes |-> 0],
   edges |-> [e \in EdgeTypes |-> <<>>],
   vals  |-> [f \in Fields |-> NoValue]]

\* A field left unassigned (CAT, RAGGED_CAT) contributes no rows.
Closed(g) ==
  [g EXCEPT !.vals = [f \in Fields |-> IF g.vals[f] = NoValue THEN <<>> ELSE g.vals[f]]]

Building == ~sealed /\ open # Aborted

DeclareNodes ==
  /\ Building
  /\ open' # Aborted
  /\ \E t \in NodeTypes :
       /\ open'.nodes[t] > open.nodes[t]
       /\ open' = [open EXCEPT !.nodes[t] = open'.nodes[t]]
  /\ UNCHANGED <<graphs, sealed>>

Connect ==
  /\ Building
  /\ open' # Aborted
  /\ \E e \in EdgeTypes :
       /\ Len(open'.edges[e]) = Len(open.edges[e]) + 1
       /\ open' = [open EXCEPT !.edges[e] = Append(@, open'.edges[e][Len(@) + 1])]
  /\ UNCHANGED <<graphs, sealed>>

Assign ==
  /\ Building
  /\ open' # Aborted
  /\ \E f \in Fields :
       /\ open.vals[f] = NoValue
       /\ open' = [open EXCEPT !.vals[f] = open'.vals[f]]
  /\ UNCHANGED <<graphs, sealed>>

Commit ==
  /\ Building
  /\ open' = NoGraph
  /\ UNCHANGED sealed
  /\ graphs' = Append(graphs, Closed(open))

Merge ==
  /\ Building
  /\ open = NoGraph
  /\ UNCHANGED <<open, sealed>>
  /\ \E g \in Locals : graphs' = Append(graphs, g)

Seal ==
  /\ Building
  /\ sealed' = TRUE
  /\ open' = NoGraph
  /\ \/ open = NoGraph /\ graphs' = graphs
     \/ open # NoGraph /\ graphs' = Append(graphs, Closed(open))

Resume ==
  /\ sealed
  /\ sealed' = FALSE
  /\ UNCHANGED <<graphs, open>>

Abort ==
  /\ Building
  /\ open' = Aborted
  /\ UNCHANGED <<graphs, sealed>>

Clear ==
  /\ graphs' = <<>>
  /\ open' = NoGraph
  /\ sealed' = FALSE

AbstractInit ==
  /\ graphs = <<>>
  /\ open = NoGraph
  /\ sealed = FALSE

AbstractNext ==
  \/ DeclareNodes \/ Connect \/ Assign \/ Commit \/ Merge
  \/ Seal \/ Resume \/ Abort \/ Clear

AbstractSpec == AbstractInit /\ [][AbstractNext]_abstractVars

=============================================================================
