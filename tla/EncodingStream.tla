--------------------------- MODULE EncodingStream ---------------------------
(***************************************************************************)
(* What a mutable encoding stream promises: append names a free id, update *)
(* and remove act on the entry of that id alone, and a flush hands out the *)
(* live entries in id order, each as last written, and starts over.        *)
(***************************************************************************)
EXTENDS IdOrder

CONSTANTS
  Steps,     \* what one append or update encodes
  MaxIds,    \* bound: stream ids are 0..(MaxIds - 1)
  Free       \* no live entry under an id

VARIABLES
  live,      \* the step under each id, or Free
  flushed    \* the steps of the last flush, in batch order

Ids == 0..(MaxIds - 1)
Nobody == [id \in Ids |-> Free]

Live == {id \in Ids : live[id] # Free}

InIdOrder == InOrder([id \in Live |-> live[id]])

StreamInit == live = Nobody /\ flushed = <<>>

Put ==
  \E id \in Ids, step \in Steps :
    /\ live[id] = Free
    /\ live' = [live EXCEPT ![id] = step]
    /\ UNCHANGED flushed

Replace ==
  \E id \in Ids, step \in Steps :
    /\ live[id] # Free
    /\ live' = [live EXCEPT ![id] = step]
    /\ UNCHANGED flushed

Drop ==
  \E id \in Ids :
    /\ live[id] # Free
    /\ live' = [live EXCEPT ![id] = Free]
    /\ UNCHANGED flushed

Flush ==
  /\ flushed' = InIdOrder
  /\ live' = Nobody

Clear == live' = Nobody /\ UNCHANGED flushed

StreamNext == Put \/ Replace \/ Drop \/ Flush \/ Clear

StreamSpec == StreamInit /\ [][StreamNext]_<<live, flushed>>
=============================================================================
