----------------------------- MODULE FieldStorage -----------------------------
(***************************************************************************)
(* The storage of a graph field in a finished encoding: rows, and the      *)
(* boundaries of a RAGGED_CAT field.                                       *)
(***************************************************************************)
EXTENDS Integers, SequencesExt

CONSTANTS
  Fields,    \* graph-field keys
  Mode       \* [Fields -> Modes]

Modes == {"STACK", "CAT", "RAGGED_CAT", "CONST"}

ASSUME FieldModes == Mode \in [Fields -> Modes]

\* validate_graph_field_storage: what a field must look like in an encoding of
\* num_graphs graphs.
ValidStorage(f, rows, ptr, num_graphs) ==
  CASE Mode[f] = "STACK" -> Len(rows) = num_graphs /\ ptr = <<>>
    [] Mode[f] = "CONST" -> Len(rows) = (IF num_graphs = 0 THEN 0 ELSE 1) /\ ptr = <<>>
    [] Mode[f] = "CAT"   -> ptr = <<>>
    [] OTHER ->
         /\ Len(ptr) = num_graphs + 1
         /\ ptr[1] = 0
         /\ \A i \in 1..(Len(ptr) - 1) : ptr[i] <= ptr[i + 1]
         /\ Last(ptr) = Len(rows)
=============================================================================
