---------------------------- MODULE StreamParity ----------------------------
(***************************************************************************)
(* One caller drives a native stream (behind its facade) and a recipe      *)
(* stream with the same calls.  The documentation promises that a custom   *)
(* encoder's stream "works like the built-in stream facades": same ids,    *)
(* same live entries, same flushed batches, through any interleaving of    *)
(* append, update, remove, set_reuse_removed, flush and reset.             *)
(***************************************************************************)
EXTENDS Integers, FiniteSets, Sequences

CONSTANTS Steps, Clashes, MaxIds, Emptied, Free

ASSUME IdBound == MaxIds \in Nat

\* What stands for a free id is no step.
ASSUME FreeIsNoStep == Free \notin Steps

VARIABLES
  entries, cachedReuse, cachedFlush,
  items, removed, next_id, recipeReuse, recipeFlush

Cached == INSTANCE CachedStream WITH reuse_removed <- cachedReuse, flushed <- cachedFlush
Recipe == INSTANCE RecipeStream WITH reuse_removed <- recipeReuse, flushed <- recipeFlush

vars == <<entries, cachedReuse, cachedFlush, items, removed, next_id, recipeReuse, recipeFlush>>

StreamIds == 0..(MaxIds - 1)

Init == Cached!Init /\ Recipe!Init

Append2(step) == Cached!AppendStep(step) /\ Recipe!AppendStep(step)
Update2(id, step) == Cached!UpdateId(id, step) /\ Recipe!UpdateId(id, step)
Remove2(id) == Cached!RemoveId(id) /\ Recipe!RemoveId(id)
SetReuse2(value) == Cached!SetReuse(value) /\ Recipe!SetReuse(value)
Flush2 == Cached!FlushAndReset /\ Recipe!Flush
Reset2 == Cached!Reset /\ Recipe!Reset

\* A second remove of the same id is accepted by one stream and a KeyError in
\* the other: neither changes a live entry.
RemoveAgain(id) ==
  /\ id \notin DOMAIN items
  /\ Cached!RemoveId(id)
  /\ UNCHANGED <<items, removed, next_id, recipeReuse, recipeFlush>>

Next ==
  \/ \E step \in Steps : Append2(step)
  \/ \E id \in StreamIds, step \in Steps : Update2(id, step)
  \/ \E id \in StreamIds : Remove2(id)
  \/ \E id \in StreamIds : RemoveAgain(id)
  \/ \E value \in BOOLEAN : SetReuse2(value)
  \/ Flush2
  \/ Reset2

\* Callers flush what holds an entry. An empty flush is refused by the recipe stream,
\* which keeps its numbering; the native one returns an empty batch and starts over.
Spec == Init /\ [][Next]_vars

-----------------------------------------------------------------------------
\* A slot of the native cache.
EntryType == [batch_encoding : Steps \cup {Emptied}, active : BOOLEAN]

\* Both streams hold the same step under the same ids, call the same ids
\* removed, and agree on where the numbering continues.
SameEntries ==
  /\ Len(entries) = next_id
  /\ cachedReuse = recipeReuse
  /\ DOMAIN items \cap removed = {}
  /\ DOMAIN items \cup removed = 0..(next_id - 1)
  /\ \A id \in 0..(next_id - 1) :
       /\ entries[id + 1].active <=> id \in DOMAIN items
       /\ id \in DOMAIN items => entries[id + 1].batch_encoding = items[id]

\* The next append returns the same id from both streams, never one that is
\* live, and without reuse one that was not handed out since the last reset.
SameFreshId ==
  /\ Cached!NextId = Recipe!NextId
  /\ Recipe!NextId \notin DOMAIN items
  /\ ~recipeReuse => Recipe!NextId \notin removed

\* Whatever the history of edits, both streams flush the same batch.
SameBatches == cachedFlush = recipeFlush

\* A batch is what is live, in id order: both streams implement EncodingStream.
CachedPromise == INSTANCE EncodingStream WITH
  live <- [id \in StreamIds |->
    IF Cached!Valid(id) /\ entries[id + 1].active THEN entries[id + 1].batch_encoding ELSE Free],
  flushed <- cachedFlush

RecipePromise == INSTANCE EncodingStream WITH
  live <- [id \in StreamIds |-> IF id \in DOMAIN items THEN items[id] ELSE Free],
  flushed <- recipeFlush

CachedKeepsPromise == CachedPromise!StreamSpec
RecipeKeepsPromise == RecipePromise!StreamSpec
=============================================================================
