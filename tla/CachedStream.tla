---------------------------- MODULE CachedStream ----------------------------
(***************************************************************************)
(* The native StreamEncoderBase (hetero, flat, horizon, transition and     *)
(* color streams): every append encodes its step at once and caches the    *)
(* single-graph encoding in a slot, whose index is the stream id; flush    *)
(* merges the active slots in slot order into a builder of its own.        *)
(*                                                                         *)
(* A step stands for its encoding.  append and update with a step that     *)
(* cannot be encoded throw before the cache is touched.                    *)
(***************************************************************************)
EXTENDS FiniteSetsExt, SequencesExt, IdOrder

CONSTANTS
  Steps,       \* encodable steps
  Clashes,     \* sets of steps whose encodings append_batch_encoding refuses to merge
  MaxIds,      \* bound: slots
  Emptied      \* the BatchEncoding{} of a removed entry

VARIABLES
  entries,         \* [batch_encoding, active] per slot
  reuse_removed,
  flushed          \* the steps of the last flushed batch

cachedVars == <<entries, reuse_removed, flushed>>

Entry(encoding) == [batch_encoding |-> encoding, active |-> TRUE]

Init == entries = <<>> /\ reuse_removed = FALSE /\ flushed = <<>>

Inactive == {i \in DOMAIN entries : ~entries[i].active}
Valid(id) == id + 1 \in DOMAIN entries

\* Mutant: the slot that was freed last in slot order is reused first.
NextIdFromEnd ==
  IF reuse_removed /\ Inactive # {} THEN Max(Inactive) - 1 ELSE Len(entries)

\* The slot insert_entry takes: the first inactive one when reuse is on,
\* otherwise a new one at the end.
NextId ==
  IF reuse_removed /\ Inactive # {} THEN Min(Inactive) - 1 ELSE Len(entries)

AppendStep(step) ==
  /\ NextId < MaxIds
  /\ entries' = IF Valid(NextId) THEN [entries EXCEPT ![NextId + 1] = Entry(step)]
                ELSE Append(entries, Entry(step))
  /\ UNCHANGED <<reuse_removed, flushed>>

\* Removing an inactive slot again is accepted.
RemoveId(id) ==
  /\ Valid(id)
  /\ entries' = [entries EXCEPT ![id + 1] = [batch_encoding |-> Emptied, active |-> FALSE]]
  /\ UNCHANGED <<reuse_removed, flushed>>

UpdateId(id, step) ==
  /\ Valid(id)
  /\ entries[id + 1].active
  /\ entries' = [entries EXCEPT ![id + 1].batch_encoding = step]
  /\ UNCHANGED <<reuse_removed, flushed>>

SetReuse(value) == reuse_removed' = value /\ UNCHANGED <<entries, flushed>>

\* Mutant: inactive slots are merged as well.
MergedAll == [i \in DOMAIN entries |-> entries[i].batch_encoding]

ActiveIds == {id \in 0..(Len(entries) - 1) : entries[id + 1].active}

\* build_merged_builder; a merge that throws leaves the cache as it was.
Merged == InOrder([id \in ActiveIds |-> entries[id + 1].batch_encoding])

Mergeable == \A clash \in Clashes : ~(clash \subseteq ToSet(Merged))

Reset == entries' = <<>> /\ UNCHANGED <<reuse_removed, flushed>>

\* Mutant: a facade that does not reset its stream.
FlushOnly ==
  /\ Mergeable
  /\ flushed' = Merged
  /\ UNCHANGED <<entries, reuse_removed>>

\* The native flush keeps the entries; the facades reset the stream behind it.
\* An empty stream flushes an empty batch.
FlushAndReset ==
  /\ Mergeable
  /\ flushed' = Merged
  /\ entries' = <<>>
  /\ UNCHANGED reuse_removed

Next ==
  \/ \E step \in Steps : AppendStep(step)
  \/ \E id \in 0..(MaxIds - 1) : RemoveId(id)
  \/ \E id \in 0..(MaxIds - 1), step \in Steps : UpdateId(id, step)
  \/ \E value \in BOOLEAN : SetReuse(value)
  \/ FlushAndReset
  \/ Reset

Spec == Init /\ [][Next]_cachedVars
=============================================================================
