---------------------------- MODULE RecipeStream ----------------------------
(***************************************************************************)
(* The Python streams that keep recipes (CustomStream, and the derived     *)
(* encoders' stream): items maps a stream id to the inputs of one graph,   *)
(* and flush encodes them all, in id order, into one batch.                *)
(***************************************************************************)
EXTENDS FiniteSetsExt, SequencesExt, IdOrder

CONSTANTS
  Steps,     \* (state, kwargs) recipes
  Clashes,   \* sets of recipes that cannot share a batch
  MaxIds     \* bound: stream ids

VARIABLES
  items,           \* the dict: [ids -> Steps]
  removed,         \* ids removed since the last reset
  next_id,
  reuse_removed,
  flushed

recipeVars == <<items, removed, next_id, reuse_removed, flushed>>

NoItems == [id \in {} |-> {}]

Init ==
  /\ items = NoItems /\ removed = {} /\ next_id = 0
  /\ reuse_removed = FALSE /\ flushed = <<>>

Without(id) == [other \in DOMAIN items \ {id} |-> items[other]]
With(id, step) == [other \in DOMAIN items \cup {id} |-> IF other = id THEN step ELSE items[other]]

Reusing == reuse_removed /\ removed # {}
NextId == IF Reusing THEN Min(removed) ELSE next_id

AppendStep(step) ==
  /\ NextId < MaxIds
  /\ items' = With(NextId, step)
  /\ removed' = IF Reusing THEN removed \ {NextId} ELSE removed
  /\ next_id' = IF Reusing THEN next_id ELSE next_id + 1
  /\ UNCHANGED <<reuse_removed, flushed>>

UpdateId(id, step) ==
  /\ id \in DOMAIN items
  /\ items' = With(id, step)
  /\ UNCHANGED <<removed, next_id, reuse_removed, flushed>>

RemoveId(id) ==
  /\ id \in DOMAIN items
  /\ items' = Without(id)
  /\ removed' = removed \cup {id}
  /\ UNCHANGED <<next_id, reuse_removed, flushed>>

SetReuse(value) == reuse_removed' = value /\ UNCHANGED <<items, removed, next_id, flushed>>

\* Mutant: a reset that still hands out ids removed before it.
ResetKeepingRemoved ==
  /\ items' = NoItems /\ next_id' = 0
  /\ UNCHANGED <<removed, reuse_removed, flushed>>

Reset ==
  /\ items' = NoItems /\ removed' = {} /\ next_id' = 0
  /\ UNCHANGED <<reuse_removed, flushed>>

\* Mutant: the batch is laid out from the last id to the first.
InReverseOrder == Reverse(InOrder(items))

InIdOrder == InOrder(items)

\* Mutant: the flushed items stay and are flushed again.
FlushKeepingItems ==
  /\ DOMAIN items # {}
  /\ \A clash \in Clashes : ~(clash \subseteq ToSet(InIdOrder))
  /\ flushed' = InIdOrder
  /\ UNCHANGED <<items, removed, next_id, reuse_removed>>

\* An empty stream, and a batch that cannot be merged, raise and keep the items.
Flush ==
  /\ DOMAIN items # {}
  /\ \A clash \in Clashes : ~(clash \subseteq ToSet(InIdOrder))
  /\ flushed' = InIdOrder
  /\ items' = NoItems /\ removed' = {} /\ next_id' = 0
  /\ UNCHANGED reuse_removed

Next ==
  \/ \E step \in Steps : AppendStep(step)
  \/ \E id \in 0..(MaxIds - 1), step \in Steps : UpdateId(id, step)
  \/ \E id \in 0..(MaxIds - 1) : RemoveId(id)
  \/ \E value \in BOOLEAN : SetReuse(value)
  \/ Flush
  \/ Reset

Spec == Init /\ [][Next]_recipeVars
=============================================================================
