----------------------------- MODULE GraphFields -----------------------------
(***************************************************************************)
(* The graph-level tensors ("graph fields") of a batch under construction. *)
(* A field is registered once with a mode and an increment rule, assigned  *)
(* at most once per graph (pending), and committed with its graph:         *)
(*   STACK       one row per graph                                         *)
(*   CAT         rows concatenated over the graphs, no boundaries          *)
(*   RAGGED_CAT  rows concatenated, boundaries kept in field_ptr           *)
(*   CONST       the same row for every graph, stored once                 *)
(* Rows that hold indices are shifted when they are stored: by the nodes   *)
(* of earlier graphs (NODE_OFFSET) or by the sum of an I64 STACK field of  *)
(* counts over earlier graphs (FIELD_OFFSET).                              *)
(*                                                                         *)
(* A row is one integer: dim, dtype and the column-major layout of         *)
(* cat_dim = 1 do not change which rows end up where.                      *)
(***************************************************************************)
EXTENDS FieldStorage, Integers, FiniteSets, SequencesExt

CONSTANTS
  IncKind,   \* [Fields -> increment kinds]
  IncOf,     \* the node type or the count field that an increment refers to
  NoValue    \* std::nullopt of GraphField::pending

IncKinds == {"NONE", "NODE_OFFSET", "FIELD_OFFSET"}

\* FIELD_OFFSET is only accepted on a STACK field; the encoders' count fields
\* hold counts and are not shifted themselves.
ASSUME FieldSpecs ==
  /\ IncKind \in [Fields -> IncKinds]
  /\ \A f \in Fields : IncKind[f] = "FIELD_OFFSET" =>
       IncOf[f] \in Fields /\ Mode[IncOf[f]] = "STACK" /\ IncKind[IncOf[f]] = "NONE"

ASSUME NoValueIsNoRows == NoValue \notin Seq(Int)

VARIABLES
  registered,  \* field keys in insertion order: the map iterates in it
  values,      \* committed rows
  field_ptr,   \* committed boundaries of the RAGGED_CAT fields
  pending      \* the open graph's rows, NoValue when not assigned

fieldVars == <<registered, values, field_ptr, pending>>

Shifted(rows, inc) == [i \in 1..Len(rows) |-> rows[i] + inc]

\* A boundary vector opens with 0 and then holds the running total.
Opened(ptr) == IF ptr = <<>> THEN <<0>> ELSE ptr
Extended(ptr, n) == Append(Opened(ptr), Last(Opened(ptr)) + n)

\* committed_field_offset: the sum of the count rows, as the number of ids
\* they hand out.
IdsDeclared(counts) == UNION {{i} \X (1..counts[i]) : i \in DOMAIN counts}
CountSum(counts) == Cardinality(IdsDeclared(counts))

NoRows == [f \in Fields |-> <<>>]
NothingPending == [f \in Fields |-> NoValue]

FieldsInit ==
  /\ registered = <<>>
  /\ values = NoRows
  /\ field_ptr = NoRows
  /\ pending = NothingPending

FreshPtr(f) == IF Mode[f] = "RAGGED_CAT" THEN <<0>> ELSE <<>>

\* Registering a key again with the same spec changes nothing.
RegisterField(f) ==
  /\ registered' = IF f \in ToSet(registered) THEN registered ELSE Append(registered, f)
  /\ field_ptr' = IF f \in ToSet(registered) THEN field_ptr
                  ELSE [field_ptr EXCEPT ![f] = FreshPtr(f)]
  /\ UNCHANGED <<values, pending>>

\* Unregistered keys, a second value for the same graph and STACK/CONST values
\* that are not one row are refused before anything changes.
SetField(f, rows) ==
  /\ f \in ToSet(registered)
  /\ pending[f] = NoValue
  /\ Mode[f] \in {"STACK", "CONST"} => Len(rows) = 1
  /\ pending' = [pending EXCEPT ![f] = rows]
  /\ UNCHANGED <<registered, values, field_ptr>>

-----------------------------------------------------------------------------
(* commit_graph_fields: the increments of all fields are computed from the *)
(* rows of earlier graphs, then the fields are committed one by one in     *)
(* insertion order.  The first field that must have a value and has none,  *)
(* or a CONST that differs, throws and leaves the earlier ones committed.  *)

OffsetFieldMissing(order) ==
  \E f \in ToSet(order) : IncKind[f] = "FIELD_OFFSET" /\ IncOf[f] \notin ToSet(order)

Refused(f, firstGraph) ==
  \/ Mode[f] \in {"STACK", "CONST"} /\ pending[f] = NoValue
  \/ Mode[f] = "CONST" /\ ~firstGraph /\ values[f] # pending[f]

CommitThrows(firstGraph) ==
  \/ OffsetFieldMissing(registered)
  \/ \E f \in ToSet(registered) : Refused(f, firstGraph)

\* The fields a throwing commit has already committed.
CommittedBefore(firstGraph) ==
  IF OffsetFieldMissing(registered) THEN {}
  ELSE {registered[i] : i \in {j \in DOMAIN registered :
          \A k \in 1..j : ~Refused(registered[k], firstGraph)}}

CommittedValues(S, inc) ==
  [f \in Fields |->
     IF f \notin S \/ pending[f] = NoValue THEN values[f]
     ELSE IF Mode[f] = "CONST" THEN pending[f]
     ELSE values[f] \o Shifted(pending[f], inc[f])]

\* Mutant: a ragged field that the graph leaves unassigned gets no boundary.
CommittedPtrIfAssigned(S) ==
  [f \in Fields |->
     IF f \in S /\ Mode[f] = "RAGGED_CAT" /\ pending[f] # NoValue
     THEN Extended(field_ptr[f], Len(pending[f]))
     ELSE field_ptr[f]]

CommittedPtr(S) ==
  [f \in Fields |->
     IF f \in S /\ Mode[f] = "RAGGED_CAT"
     THEN Extended(field_ptr[f], IF pending[f] = NoValue THEN 0 ELSE Len(pending[f]))
     ELSE field_ptr[f]]

CommittedPending(S) == [f \in Fields |-> IF f \in S THEN NoValue ELSE pending[f]]

-----------------------------------------------------------------------------
(* The fields of append_batch_encoding: the keys of the encoding e that    *)
(* are new are registered behind the known ones, then every field takes    *)
(* its rows from e, in that order.  A FIELD_OFFSET is summed while the     *)
(* loop runs: it already holds e's own counts when the count field comes   *)
(* earlier in the order.                                                   *)

\* The order after the first n keys of e.
JoinedKeys(e) ==
  LET keys[n \in 0..Len(e.registered)] ==
        IF n = 0 THEN registered
        ELSE LET known == keys[n - 1] IN
             IF e.registered[n] \in ToSet(known) THEN known ELSE Append(known, e.registered[n])
  IN keys

MergedOrder(e) == JoinedKeys(e)[Len(e.registered)]

MergeRefused(f, e) ==
  \/ f \notin ToSet(e.registered) /\ Mode[f] \in {"STACK", "CONST"}
  \/ f \in ToSet(e.registered) /\ Mode[f] = "CONST"
       /\ values[f] # <<>> /\ values[f] # e.values[f]
  \/ f \in ToSet(e.registered) /\ IncKind[f] = "FIELD_OFFSET"
       /\ IncOf[f] \notin ToSet(MergedOrder(e))

MergeThrows(e) == \E f \in ToSet(MergedOrder(e)) : MergeRefused(f, e)

MergedBefore(e) ==
  LET order == MergedOrder(e) IN
  {order[i] : i \in {j \in DOMAIN order : \A k \in 1..j : ~MergeRefused(order[k], e)}}

Precedes(f, g, order) ==
  \E i, j \in DOMAIN order : i < j /\ order[i] = f /\ order[j] = g

\* The counts of the merged graph, when its count field was merged earlier.
FieldOffsetInMerge(f, e) ==
  CountSum(IF Precedes(IncOf[f], f, MergedOrder(e)) /\ IncOf[f] \in ToSet(e.registered)
           THEN values[IncOf[f]] \o e.values[IncOf[f]]
           ELSE values[IncOf[f]])

MergedValues(S, e, inc) ==
  [f \in Fields |->
     IF f \notin S \cap ToSet(e.registered) THEN values[f]
     ELSE IF Mode[f] = "CONST" THEN e.values[f]
     ELSE values[f] \o Shifted(e.values[f], inc[f])]

MergedPtr(S, e) ==
  [f \in Fields |->
     IF f \notin ToSet(MergedOrder(e)) \/ Mode[f] # "RAGGED_CAT" THEN field_ptr[f]
     ELSE IF f \notin S THEN Opened(field_ptr[f])
     ELSE Extended(field_ptr[f], IF f \in ToSet(e.registered) THEN Last(e.field_ptr[f]) ELSE 0)]

=============================================================================
