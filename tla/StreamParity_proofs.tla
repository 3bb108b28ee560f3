------------------------- MODULE StreamParity_proofs -------------------------
(***************************************************************************)
(* The two stream implementations stay in step, for every set of steps and *)
(* clashes and any number of ids.                                          *)
(***************************************************************************)
EXTENDS StreamParity, IdOrder_proofs

Least(S) == CHOOSE x \in S : \A y \in S : x =< y

\* The minimum that both streams choose a reused id with exists.
LEMMA LeastExists ==
  ASSUME NEW S, S \subseteq Nat, S # {}
  PROVE  Least(S) \in S /\ \A y \in S : Least(S) =< y
<1>1. PICK x \in S : \A y \in S : x <= y
  BY NatLeast
<1>. QED  BY <1>1 DEF Least

-----------------------------------------------------------------------------
(* Ids in order.                                                           *)

\* Every module that lists in the order of ids lists alike.
LEMMA SameOrder ==
  ASSUME NEW f
  PROVE  /\ Cached!InOrder(f) = InOrder(f)
         /\ Recipe!InOrder(f) = InOrder(f)
         /\ CachedPromise!InOrder(f) = InOrder(f)
         /\ RecipePromise!InOrder(f) = InOrder(f)
<1>1. Cached!InOrder(f) = InOrder(f)
  BY DEF Cached!InOrder, Cached!Place, Cached!Before, InOrder, Place, Before,
         Cached!Cardinality, Cardinality
<1>2. Recipe!InOrder(f) = InOrder(f)
  BY DEF Recipe!InOrder, Recipe!Place, Recipe!Before, InOrder, Place, Before,
         Recipe!Cardinality, Cardinality
<1>3. CachedPromise!InOrder(f) = InOrder(f)
  BY DEF CachedPromise!InOrder, CachedPromise!Place, CachedPromise!Before, InOrder, Place, Before,
         CachedPromise!Cardinality, Cardinality
<1>4. RecipePromise!InOrder(f) = InOrder(f)
  BY DEF RecipePromise!InOrder, RecipePromise!Place, RecipePromise!Before, InOrder, Place, Before,
         RecipePromise!Cardinality, Cardinality
<1>. QED  BY <1>1, <1>2, <1>3, <1>4

-----------------------------------------------------------------------------
\* Both streams' entries, and the equality of their live entries.
Inv ==
  /\ entries \in Seq(EntryType)
  /\ next_id \in Nat
  /\ SameEntries

\* From equal contents both streams choose the same id for the next append.
LEMMA NextIdsAgree ==
  ASSUME Inv
  PROVE  /\ Cached!NextId = Recipe!NextId
         /\ Recipe!NextId \in 0..next_id
         /\ Recipe!NextId \notin DOMAIN items
         /\ Recipe!Reusing => Recipe!NextId \in removed
         /\ ~Recipe!Reusing => Recipe!NextId = next_id
<1>1. /\ removed \subseteq 0..(next_id - 1)
      /\ DOMAIN entries = 1..next_id
      /\ Len(entries) = next_id
      /\ next_id \in Nat
      /\ DOMAIN items \cap removed = {}
      /\ next_id \notin DOMAIN items
      /\ cachedReuse = recipeReuse
  BY LenProperties DEF Inv, SameEntries
<1>2. \A i : i \in Cached!Inactive <=> i \in 1..next_id /\ i - 1 \in removed
  <2>1. \A i \in 1..next_id : entries[i].active <=> i - 1 \in DOMAIN items
    <3>1. \A id \in 0..(next_id - 1) : entries[id + 1].active <=> id \in DOMAIN items
      BY DEF Inv, SameEntries
    <3>2. TAKE i \in 1..next_id
    <3>3. i - 1 \in 0..(next_id - 1) /\ (i - 1) + 1 = i
      BY <1>1, <3>2
    <3>. QED  BY <3>1, <3>3
  <2>2. \A i \in 1..next_id : i - 1 \in DOMAIN items \/ i - 1 \in removed
    BY <1>1 DEF Inv, SameEntries
  <2>. QED  BY <1>1, <2>1, <2>2 DEF Cached!Inactive
<1>3. CASE recipeReuse /\ removed # {}
  <2>. DEFINE r == Least(removed)
              c == Least(Cached!Inactive)
  <2>1. r \in removed /\ \A y \in removed : r =< y
    <3>1. removed \subseteq Nat
      BY <1>1
    <3>. QED  BY <1>3, <3>1, LeastExists
  <2>2. r \in 0..(next_id - 1)
    BY <1>1, <2>1
  <2>3. r + 1 \in Cached!Inactive
    <3>1. r + 1 \in 1..next_id /\ (r + 1) - 1 = r
      BY <1>1, <2>2
    <3>. QED  BY <1>2, <2>1, <3>1
  <2>4. Cached!Inactive \subseteq Nat
    BY <1>1, <1>2
  <2>5. c \in Cached!Inactive /\ \A y \in Cached!Inactive : c =< y
    BY <2>3, <2>4, LeastExists
  <2>6. c \in 1..next_id /\ c - 1 \in removed
    BY <1>2, <2>5
  <2>7. Cached!NextId = c - 1
    BY <1>1, <1>3, <2>3 DEF Cached!NextId, Cached!Min, Least
  <2>8. Recipe!NextId = r /\ Recipe!Reusing
    BY <1>3 DEF Recipe!NextId, Recipe!Min, Recipe!Reusing, Least
  <2>. HIDE DEF r, c
  <2>9. c = r + 1
    <3>1. c =< r + 1
      BY <2>3, <2>5
    <3>2. r =< c - 1
      BY <2>1, <2>6
    <3>. QED  BY <1>1, <2>2, <2>6, <3>1, <3>2
  <2>10. c - 1 = r
    BY <1>1, <2>2, <2>9
  <2>. QED  BY <1>1, <2>1, <2>2, <2>7, <2>8, <2>10
<1>4. CASE ~(recipeReuse /\ removed # {})
  <2>1. ~recipeReuse \/ Cached!Inactive = {}
    BY <1>1, <1>2, <1>4
  <2>. QED  BY <1>1, <1>4, <2>1 DEF Cached!NextId, Recipe!NextId, Recipe!Reusing
<1>. QED  BY <1>3, <1>4

-----------------------------------------------------------------------------
(* Each call preserves Inv.                                                *)

\* An invariant of one state: what the step proofs below take apart.
LEMMA InvFacts ==
  ASSUME Inv
  PROVE  /\ Len(entries) = next_id /\ next_id \in Nat
         /\ DOMAIN entries = 1..next_id
         /\ \A i \in 1..next_id : entries[i] \in EntryType
         /\ DOMAIN items \subseteq 0..(next_id - 1)
         /\ removed \subseteq 0..(next_id - 1)
  BY LenProperties, ElementOfSeq DEF Inv, SameEntries

LEMMA InitInv == Init => Inv
<1>. SUFFICES ASSUME Init PROVE Inv
  OBVIOUS
<1>1. /\ entries = <<>> /\ next_id = 0 /\ removed = {} /\ DOMAIN items = {}
      /\ cachedReuse = recipeReuse
  BY DEF Init, Cached!Init, Recipe!Init, Recipe!NoItems
<1>2. entries \in Seq(EntryType) /\ Len(entries) = 0
  BY <1>1
<1>3. 0..(next_id - 1) = {}
  BY <1>1
<1>. QED  BY <1>1, <1>2, <1>3 DEF Inv, SameEntries

LEMMA AppendInv ==
  ASSUME Inv, NEW step \in Steps, Append2(step)
  PROVE  Inv'
<1>. DEFINE n == Recipe!NextId
<1>1. /\ Cached!NextId = n /\ n \in 0..next_id /\ n \notin DOMAIN items
      /\ Recipe!Reusing => n \in removed
      /\ ~Recipe!Reusing => n = next_id
  BY NextIdsAgree
<1>. HIDE DEF n
<1>2. /\ entries' = IF Cached!Valid(n) THEN [entries EXCEPT ![n + 1] = Cached!Entry(step)]
                    ELSE Append(entries, Cached!Entry(step))
      /\ items' = Recipe!With(n, step)
      /\ removed' = IF Recipe!Reusing THEN removed \ {n} ELSE removed
      /\ next_id' = IF Recipe!Reusing THEN next_id ELSE next_id + 1
      /\ cachedReuse' = cachedReuse /\ recipeReuse' = recipeReuse
  BY <1>1 DEF Append2, Cached!AppendStep, Recipe!AppendStep, n
<1>3. Cached!Entry(step) \in EntryType /\ Cached!Entry(step).active
        /\ Cached!Entry(step).batch_encoding = step
  BY DEF Cached!Entry, EntryType
<1>4. Cached!Valid(n) <=> n < next_id
  BY <1>1, InvFacts DEF Cached!Valid
<1>5. Recipe!Reusing <=> n < next_id
  BY <1>1, InvFacts
<1>6. /\ entries' \in Seq(EntryType) /\ Len(entries') = next_id'
      /\ next_id' \in Nat
      /\ n \in 0..(next_id' - 1)
      /\ entries'[n + 1] = Cached!Entry(step)
      /\ \A id \in 0..(next_id' - 1) : id # n => id < next_id /\ entries'[id + 1] = entries[id + 1]
  <2>1. CASE n < next_id
    <3>1. entries' = [entries EXCEPT ![n + 1] = Cached!Entry(step)] /\ next_id' = next_id
      BY <1>2, <1>4, <1>5, <2>1
    <3>2. entries \in Seq(EntryType) /\ Len(entries) = next_id /\ next_id \in Nat
      BY InvFacts DEF Inv
    <3>3. n + 1 \in 1..Len(entries) /\ n \in 0..(next_id - 1)
      BY <1>1, <2>1, <3>2
    <3>4. /\ entries' \in Seq(EntryType) /\ Len(entries') = Len(entries)
          /\ \A j \in 1..Len(entries) :
               entries'[j] = IF j = n + 1 THEN Cached!Entry(step) ELSE entries[j]
      BY <1>3, <3>1, <3>2, <3>3, ExceptSeq
    <3>5. ASSUME NEW id \in 0..(next_id' - 1), id # n
          PROVE  id < next_id /\ entries'[id + 1] = entries[id + 1]
      <4>1. id + 1 \in 1..Len(entries) /\ id + 1 # n + 1 /\ id < next_id
        BY <3>1, <3>2, <3>3, <3>5
      <4>. QED  BY <3>4, <4>1
    <3>. QED  BY <3>1, <3>2, <3>3, <3>4, <3>5
  <2>2. CASE ~(n < next_id)
    <3>1. entries' = Append(entries, Cached!Entry(step)) /\ next_id' = next_id + 1 /\ n = next_id
      BY <1>1, <1>2, <1>4, <1>5, <2>2
    <3>. QED  BY <1>3, <3>1, InvFacts, AppendProperties DEF Inv
  <2>. QED  BY <2>1, <2>2
<1>7. DOMAIN items' = DOMAIN items \cup {n}
        /\ items'[n] = step /\ \A id \in DOMAIN items : items'[id] = items[id]
  BY <1>1, <1>2 DEF Recipe!With
<1>8. DOMAIN items' \cap removed' = {} /\ DOMAIN items' \cup removed' = 0..(next_id' - 1)
  BY <1>1, <1>2, <1>5, <1>7, InvFacts DEF Inv, SameEntries
<1>9. \A id \in 0..(next_id' - 1) :
        /\ entries'[id + 1].active <=> id \in DOMAIN items'
        /\ id \in DOMAIN items' => entries'[id + 1].batch_encoding = items'[id]
  <2>. TAKE id \in 0..(next_id' - 1)
  <2>1. CASE id = n
    BY <1>3, <1>6, <1>7, <2>1
  <2>2. CASE id # n
    <3>1. id \in 0..(next_id - 1) /\ entries'[id + 1] = entries[id + 1]
      BY <1>6, <2>2, InvFacts
    <3>2. /\ entries[id + 1].active <=> id \in DOMAIN items
          /\ id \in DOMAIN items => entries[id + 1].batch_encoding = items[id]
      BY <3>1 DEF Inv, SameEntries
    <3>. QED  BY <1>7, <2>2, <3>1, <3>2
  <2>. QED  BY <2>1, <2>2
<1>. QED  BY <1>2, <1>6, <1>8, <1>9 DEF Inv, SameEntries

\* What update and remove share: one slot is overwritten, the numbering stays.
LEMMA SlotWritten ==
  ASSUME Inv, NEW id \in Nat, NEW entry \in EntryType,
         Cached!Valid(id),
         entries' = [entries EXCEPT ![id + 1] = entry],
         next_id' = next_id, cachedReuse' = recipeReuse',
         DOMAIN items' \cap removed' = {},
         DOMAIN items' \cup removed' = DOMAIN items \cup removed,
         \A other \in DOMAIN items : other # id =>
           other \in DOMAIN items' /\ items'[other] = items[other],
         \A other \in DOMAIN items' : other # id => other \in DOMAIN items,
         entry.active <=> id \in DOMAIN items',
         id \in DOMAIN items' => entry.batch_encoding = items'[id]
  PROVE  Inv'
<1>1. entries \in Seq(EntryType) /\ Len(entries) = next_id /\ next_id \in Nat
        /\ id + 1 \in 1..Len(entries) /\ id \in 0..(next_id - 1)
  BY InvFacts DEF Inv, Cached!Valid
<1>2. /\ entries' \in Seq(EntryType) /\ Len(entries') = Len(entries)
      /\ \A j \in 1..Len(entries) : entries'[j] = IF j = id + 1 THEN entry ELSE entries[j]
  BY <1>1, ExceptSeq
<1>3. ASSUME NEW other \in 0..(next_id' - 1)
      PROVE  /\ entries'[other + 1].active <=> other \in DOMAIN items'
             /\ other \in DOMAIN items' => entries'[other + 1].batch_encoding = items'[other]
  <2>1. other + 1 \in 1..Len(entries) /\ other \in 0..(next_id - 1)
    BY <1>1
  <2>2. CASE other = id
    BY <1>2, <2>1, <2>2
  <2>3. CASE other # id
    <3>1. entries'[other + 1] = entries[other + 1]
      BY <1>1, <1>2, <2>1, <2>3
    <3>2. /\ entries[other + 1].active <=> other \in DOMAIN items
          /\ other \in DOMAIN items => entries[other + 1].batch_encoding = items[other]
      BY <2>1 DEF Inv, SameEntries
    <3>. QED  BY <2>3, <3>1, <3>2
  <2>. QED  BY <2>2, <2>3
<1>. QED  BY <1>1, <1>2, <1>3 DEF Inv, SameEntries

LEMMA UpdateInv ==
  ASSUME Inv, NEW id \in StreamIds, NEW step \in Steps, Update2(id, step)
  PROVE  Inv'
<1>1. /\ Cached!Valid(id) /\ entries[id + 1].active
      /\ entries' = [entries EXCEPT ![id + 1].batch_encoding = step]
      /\ id \in DOMAIN items /\ items' = Recipe!With(id, step)
      /\ UNCHANGED <<removed, next_id, cachedReuse, recipeReuse>>
  BY DEF Update2, Cached!UpdateId, Recipe!UpdateId
<1>2. id \in Nat
  BY <1>1, InvFacts
<1>. DEFINE entry == [entries[id + 1] EXCEPT !.batch_encoding = step]
<1>3. entry \in EntryType /\ entry.active /\ entry.batch_encoding = step
  BY <1>1, InvFacts DEF EntryType, Cached!Valid
<1>4. entries' = [entries EXCEPT ![id + 1] = entry]
  BY <1>1
<1>. HIDE DEF entry
<1>5. DOMAIN items' = DOMAIN items /\ items'[id] = step
        /\ \A other \in DOMAIN items : other # id => items'[other] = items[other]
  BY <1>1 DEF Recipe!With
<1>. QED  BY <1>1, <1>2, <1>3, <1>4, <1>5, SlotWritten DEF Inv, SameEntries

\* Removing what is live, and removing again what is not.
LEMMA RemoveInv ==
  ASSUME Inv, NEW id \in StreamIds, Remove2(id) \/ RemoveAgain(id)
  PROVE  Inv'
<1>. DEFINE entry == [batch_encoding |-> Emptied, active |-> FALSE]
<1>1. /\ Cached!Valid(id)
      /\ entries' = [entries EXCEPT ![id + 1] = entry]
      /\ UNCHANGED <<next_id, cachedReuse, recipeReuse>>
  BY DEF Remove2, RemoveAgain, Cached!RemoveId, Recipe!RemoveId
<1>2. entry \in EntryType /\ ~entry.active
  BY DEF EntryType
<1>. HIDE DEF entry
<1>3. id \in Nat
  BY IdBound DEF StreamIds
<1>4. CASE Remove2(id)
  <2>1. id \in DOMAIN items /\ items' = Recipe!Without(id) /\ removed' = removed \cup {id}
    BY <1>4 DEF Remove2, Recipe!RemoveId
  <2>2. DOMAIN items' = DOMAIN items \ {id}
          /\ \A other \in DOMAIN items : other # id => items'[other] = items[other]
    BY <2>1 DEF Recipe!Without
  <2>3. /\ DOMAIN items' \cap removed' = {}
        /\ DOMAIN items' \cup removed' = DOMAIN items \cup removed
        /\ id \notin DOMAIN items'
    BY <2>1, <2>2 DEF Inv, SameEntries
  <2>. QED  BY <1>1, <1>2, <1>3, <2>2, <2>3, SlotWritten DEF Inv, SameEntries
<1>5. CASE RemoveAgain(id)
  <2>1. id \notin DOMAIN items /\ UNCHANGED <<items, removed>>
    BY <1>5 DEF RemoveAgain
  <2>. QED  BY <1>1, <1>2, <1>3, <2>1, SlotWritten DEF Inv, SameEntries
<1>. QED  BY <1>4, <1>5

\* flush and reset empty both streams.
LEMMA EmptyInv ==
  ASSUME entries' = <<>>, items' = Recipe!NoItems, removed' = {}, next_id' = 0,
         cachedReuse' = recipeReuse'
  PROVE  Inv'
<1>1. entries' \in Seq(EntryType) /\ Len(entries') = 0 /\ DOMAIN items' = {}
  BY DEF Recipe!NoItems
<1>. QED  BY <1>1 DEF Inv, SameEntries

LEMMA NextInv == Inv /\ [Next]_vars => Inv'
<1>. SUFFICES ASSUME Inv, [Next]_vars PROVE Inv'
  OBVIOUS
<1>1. ASSUME NEW step \in Steps, Append2(step) PROVE Inv'
  BY <1>1, AppendInv
<1>2. ASSUME NEW id \in StreamIds, NEW step \in Steps, Update2(id, step) PROVE Inv'
  BY <1>2, UpdateInv
<1>3. ASSUME NEW id \in StreamIds, Remove2(id) PROVE Inv'
  BY <1>3, RemoveInv
<1>4. ASSUME NEW id \in StreamIds, RemoveAgain(id) PROVE Inv'
  BY <1>4, RemoveInv
<1>5. ASSUME NEW value \in BOOLEAN, SetReuse2(value) PROVE Inv'
  BY <1>5 DEF SetReuse2, Cached!SetReuse, Recipe!SetReuse, Inv, SameEntries
<1>6. CASE Flush2
  BY <1>6, EmptyInv DEF Flush2, Cached!FlushAndReset, Recipe!Flush, Inv, SameEntries
<1>7. CASE Reset2
  BY <1>7, EmptyInv DEF Reset2, Cached!Reset, Recipe!Reset, Inv, SameEntries
<1>8. CASE UNCHANGED vars
  BY <1>8 DEF vars, Inv, SameEntries
<1>. QED  BY <1>1, <1>2, <1>3, <1>4, <1>5, <1>6, <1>7, <1>8 DEF Next

LEMMA InvHolds == Spec => []Inv
  BY InitInv, NextInv, PTL DEF Spec

-----------------------------------------------------------------------------
\* The native stream's slots and the recipe stream's dict always hold the same
\* steps under the same ids, call the same ids removed, and number alike.
THEOREM EntriesStaySame == Spec => []SameEntries
<1>1. Inv => SameEntries
  BY DEF Inv
<1>. QED  BY <1>1, InvHolds, PTL

\* Both streams return the same id from the next append; it is not live, and
\* without reuse it was not handed out since the last reset.
THEOREM FreshIdsStaySame == Spec => []SameFreshId
<1>1. Inv => SameFreshId
  <2>. SUFFICES ASSUME Inv PROVE SameFreshId
    OBVIOUS
  <2>1. ~recipeReuse => Recipe!NextId = next_id
    BY NextIdsAgree DEF Recipe!Reusing
  <2>. QED  BY <2>1, NextIdsAgree, InvFacts DEF SameFreshId
<1>. QED  BY <1>1, InvHolds, PTL

-----------------------------------------------------------------------------
(* What both streams hold is typed, and what they flush is the same.       *)

Typed ==
  /\ next_id =< MaxIds
  /\ items \in [DOMAIN items -> Steps]
  /\ cachedFlush = recipeFlush
  /\ cachedFlush \in Seq(Steps)

\* From equal entries both streams put together the same batch.
LEMMA BatchesAgree ==
  ASSUME Inv, Typed
  PROVE  /\ Cached!ActiveIds = DOMAIN items
         /\ Cached!Merged = InOrder(items)
         /\ Recipe!InIdOrder = InOrder(items)
         /\ InOrder(items) \in Seq(Steps)
<1>1. /\ next_id \in Nat /\ Len(entries) = next_id
      /\ DOMAIN items \subseteq 0..(next_id - 1)
  BY InvFacts
<1>2. \A id \in 0..(next_id - 1) :
        /\ entries[id + 1].active <=> id \in DOMAIN items
        /\ id \in DOMAIN items => entries[id + 1].batch_encoding = items[id]
  BY DEF Inv, SameEntries
<1>3. Cached!ActiveIds = DOMAIN items
  BY <1>1, <1>2 DEF Cached!ActiveIds
<1>4. items = [id \in DOMAIN items |-> items[id]]
  BY DEF Typed
<1>5. [id \in Cached!ActiveIds |-> entries[id + 1].batch_encoding] = items
  <2>1. \A id \in DOMAIN items : entries[id + 1].batch_encoding = items[id]
    BY <1>1, <1>2
  <2>. QED  BY <1>3, <1>4, <2>1
<1>6. IsFiniteSet(DOMAIN items) /\ DOMAIN items \in SUBSET Nat
  <2>1. 0 \in Int /\ next_id - 1 \in Int
    BY <1>1
  <2>2. IsFiniteSet(0..(next_id - 1))
    BY <2>1, FS_Interval
  <2>. QED  BY <1>1, <2>2, FS_Subset
<1>7. InOrder(items) \in Seq(Steps)
  BY <1>6, InOrderType DEF Typed
<1>. QED  BY <1>3, <1>5, <1>7, SameOrder DEF Cached!Merged, Recipe!InIdOrder

LEMMA InitTyped == Init => Typed
<1>. SUFFICES ASSUME Init PROVE Typed
  OBVIOUS
<1>1. /\ next_id = 0 /\ items = Recipe!NoItems
      /\ cachedFlush = <<>> /\ recipeFlush = <<>>
  BY DEF Init, Cached!Init, Recipe!Init
<1>2. items \in [DOMAIN items -> Steps]
  BY <1>1 DEF Recipe!NoItems
<1>3. <<>> \in Seq(Steps)
  OBVIOUS
<1>. QED  BY <1>1, <1>2, <1>3, IdBound DEF Typed

LEMMA NextTyped == Inv /\ Typed /\ [Next]_vars => Typed'
<1>. SUFFICES ASSUME Inv, Typed, [Next]_vars PROVE Typed'
  OBVIOUS
<1>1. next_id \in Nat /\ MaxIds \in Nat
  BY IdBound DEF Inv
<1>2. ASSUME NEW n, NEW step \in Steps
      PROVE  Recipe!With(n, step) \in [DOMAIN Recipe!With(n, step) -> Steps]
  BY DEF Recipe!With, Typed
<1>3. ASSUME NEW step \in Steps, Append2(step) PROVE Typed'
  <2>1. /\ Recipe!NextId < MaxIds
        /\ items' = Recipe!With(Recipe!NextId, step)
        /\ next_id' = IF Recipe!Reusing THEN next_id ELSE next_id + 1
        /\ UNCHANGED <<cachedFlush, recipeFlush>>
    BY <1>3 DEF Append2, Cached!AppendStep, Recipe!AppendStep
  <2>2. ~Recipe!Reusing => Recipe!NextId = next_id
    BY NextIdsAgree
  <2>3. next_id' =< MaxIds
    BY <1>1, <2>1, <2>2 DEF Typed
  <2>. QED  BY <1>2, <2>1, <2>3 DEF Typed
<1>4. ASSUME NEW id \in StreamIds, NEW step \in Steps, Update2(id, step) PROVE Typed'
  <2>1. items' = Recipe!With(id, step) /\ UNCHANGED <<next_id, cachedFlush, recipeFlush>>
    BY <1>4 DEF Update2, Cached!UpdateId, Recipe!UpdateId
  <2>. QED  BY <1>2, <2>1 DEF Typed
<1>5. ASSUME NEW id \in StreamIds, Remove2(id) PROVE Typed'
  <2>1. items' = Recipe!Without(id) /\ UNCHANGED <<next_id, cachedFlush, recipeFlush>>
    BY <1>5 DEF Remove2, Cached!RemoveId, Recipe!RemoveId
  <2>2. items' \in [DOMAIN items' -> Steps]
    BY <2>1 DEF Typed, Recipe!Without
  <2>. QED  BY <2>1, <2>2 DEF Typed
<1>6. ASSUME NEW id \in StreamIds, RemoveAgain(id) PROVE Typed'
  BY <1>6 DEF RemoveAgain, Cached!RemoveId, Typed
<1>7. ASSUME NEW value \in BOOLEAN, SetReuse2(value) PROVE Typed'
  BY <1>7 DEF SetReuse2, Cached!SetReuse, Recipe!SetReuse, Typed
<1>8. items' = Recipe!NoItems => items' \in [DOMAIN items' -> Steps]
  BY DEF Recipe!NoItems
<1>9. CASE Flush2
  <2>1. /\ cachedFlush' = Cached!Merged /\ recipeFlush' = Recipe!InIdOrder
        /\ items' = Recipe!NoItems /\ next_id' = 0
    BY <1>9 DEF Flush2, Cached!FlushAndReset, Recipe!Flush
  <2>. QED  BY <1>1, <1>8, <2>1, BatchesAgree DEF Typed
<1>10. CASE Reset2
  <2>1. /\ items' = Recipe!NoItems /\ next_id' = 0
        /\ UNCHANGED <<cachedFlush, recipeFlush>>
    BY <1>10 DEF Reset2, Cached!Reset, Recipe!Reset
  <2>. QED  BY <1>1, <1>8, <2>1 DEF Typed
<1>11. CASE UNCHANGED vars
  BY <1>11 DEF vars, Typed
<1>. QED  BY <1>3, <1>4, <1>5, <1>6, <1>7, <1>9, <1>10, <1>11 DEF Next

LEMMA TypedHolds == Spec => [](Inv /\ Typed)
<1>1. Init => Inv /\ Typed
  BY InitInv, InitTyped
<1>2. Inv /\ Typed /\ [Next]_vars => (Inv /\ Typed)'
  BY NextInv, NextTyped
<1>. QED  BY <1>1, <1>2, PTL DEF Spec

\* Whatever the history of appends, updates, removals and resets, both streams
\* flush the same batch.
THEOREM FlushesStaySame == Spec => []SameBatches
<1>1. Inv /\ Typed => SameBatches
  BY DEF Typed, SameBatches
<1>. QED  BY <1>1, TypedHolds, PTL

-----------------------------------------------------------------------------
(* Both streams keep the promise of EncodingStream.                        *)

\* What the native stream and the recipe stream hold under each id.
CachedLive ==
  [id \in StreamIds |->
     IF Cached!Valid(id) /\ entries[id + 1].active THEN entries[id + 1].batch_encoding ELSE Free]

RecipeLive == [id \in StreamIds |-> IF id \in DOMAIN items THEN items[id] ELSE Free]

LEMMA LiveFacts ==
  ASSUME Inv, Typed
  PROVE  /\ CachedLive = RecipeLive
         /\ DOMAIN items \subseteq StreamIds
         /\ \A id \in StreamIds : RecipeLive[id] = Free <=> id \notin DOMAIN items
         /\ items = [id \in {i \in StreamIds : RecipeLive[i] # Free} |-> RecipeLive[id]]
<1>1. /\ next_id \in Nat /\ MaxIds \in Nat /\ next_id =< MaxIds /\ Len(entries) = next_id
      /\ DOMAIN entries = 1..next_id
      /\ DOMAIN items \subseteq 0..(next_id - 1)
  BY InvFacts, IdBound DEF Typed
<1>2. \A id \in 0..(next_id - 1) :
        /\ entries[id + 1].active <=> id \in DOMAIN items
        /\ id \in DOMAIN items => entries[id + 1].batch_encoding = items[id]
  BY DEF Inv, SameEntries
<1>3. \A id \in StreamIds : Cached!Valid(id) <=> id \in 0..(next_id - 1)
  BY <1>1 DEF StreamIds, Cached!Valid
<1>4. CachedLive = RecipeLive
  <2>1. ASSUME NEW id \in StreamIds
        PROVE  (IF Cached!Valid(id) /\ entries[id + 1].active
                THEN entries[id + 1].batch_encoding ELSE Free)
                 = IF id \in DOMAIN items THEN items[id] ELSE Free
    BY <1>1, <1>2, <1>3
  <2>. QED  BY <2>1 DEF CachedLive, RecipeLive
<1>5. DOMAIN items \subseteq StreamIds
  BY <1>1 DEF StreamIds
<1>6. \A id \in DOMAIN items : items[id] # Free
  BY FreeIsNoStep DEF Typed
<1>7. \A id \in StreamIds : RecipeLive[id] = Free <=> id \notin DOMAIN items
  BY <1>6 DEF RecipeLive
<1>8. {i \in StreamIds : RecipeLive[i] # Free} = DOMAIN items
  BY <1>5, <1>7
<1>9. \A id \in DOMAIN items : RecipeLive[id] = items[id]
  BY <1>5 DEF RecipeLive
<1>10. items = [id \in DOMAIN items |-> items[id]]
  BY DEF Typed
<1>. QED  BY <1>4, <1>5, <1>7, <1>8, <1>9, <1>10

LEMMA LiveFactsNext ==
  Inv' /\ Typed' => CachedLive' = RecipeLive' /\ DOMAIN items' \subseteq StreamIds
<1>1. Inv /\ Typed => CachedLive = RecipeLive /\ DOMAIN items \subseteq StreamIds
  BY LiveFacts
<1>2. (Inv /\ Typed => CachedLive = RecipeLive /\ DOMAIN items \subseteq StreamIds)'
  BY <1>1, PTL
<1>. QED  BY <1>2

\* The effect of every step on what is live: the steps of EncodingStream.
LEMMA LiveSteps ==
  ASSUME Inv, Typed, Inv', Typed', [Next]_vars
  PROVE  \/ /\ \E id \in StreamIds, step \in Steps :
                  RecipeLive' = [RecipeLive EXCEPT ![id] = step]
            /\ UNCHANGED recipeFlush
         \/ /\ \E id \in StreamIds :
                  RecipeLive[id] # Free /\ RecipeLive' = [RecipeLive EXCEPT ![id] = Free]
            /\ UNCHANGED recipeFlush
         \/ /\ RecipeLive' = [id \in StreamIds |-> Free]
            /\ recipeFlush' \in {recipeFlush, InOrder(items)}
         \/ UNCHANGED <<RecipeLive, recipeFlush>>
<1>1. DOMAIN items \subseteq StreamIds /\ DOMAIN items' \subseteq StreamIds
  BY LiveFacts, LiveFactsNext
<1>2. ASSUME NEW id, NEW step \in Steps, items' = Recipe!With(id, step)
      PROVE  id \in StreamIds /\ RecipeLive' = [RecipeLive EXCEPT ![id] = step]
  BY <1>1, <1>2 DEF Recipe!With, RecipeLive
<1>3. ASSUME NEW step \in Steps, Append2(step)
      PROVE  /\ \E id \in StreamIds : RecipeLive' = [RecipeLive EXCEPT ![id] = step]
             /\ UNCHANGED recipeFlush
  BY <1>2, <1>3 DEF Append2, Recipe!AppendStep
<1>4. ASSUME NEW id \in StreamIds, NEW step \in Steps, Update2(id, step)
      PROVE  RecipeLive' = [RecipeLive EXCEPT ![id] = step] /\ UNCHANGED recipeFlush
  BY <1>2, <1>4 DEF Update2, Recipe!UpdateId
<1>5. ASSUME NEW id \in StreamIds, Remove2(id)
      PROVE  /\ RecipeLive[id] # Free /\ RecipeLive' = [RecipeLive EXCEPT ![id] = Free]
             /\ UNCHANGED recipeFlush
  <2>1. id \in DOMAIN items /\ items' = Recipe!Without(id) /\ UNCHANGED recipeFlush
    BY <1>5 DEF Remove2, Recipe!RemoveId
  <2>2. RecipeLive' = [RecipeLive EXCEPT ![id] = Free]
    BY <2>1 DEF RecipeLive, Recipe!Without
  <2>. QED  BY <2>1, <2>2, LiveFacts
<1>6. ASSUME items' = Recipe!NoItems
      PROVE  RecipeLive' = [id \in StreamIds |-> Free]
  BY <1>6 DEF RecipeLive, Recipe!NoItems
<1>7. CASE Flush2
  <2>1. items' = Recipe!NoItems /\ recipeFlush' = Recipe!InIdOrder
    BY <1>7 DEF Flush2, Recipe!Flush
  <2>. QED  BY <1>6, <2>1, BatchesAgree
<1>8. CASE Reset2
  BY <1>6, <1>8 DEF Reset2, Recipe!Reset
<1>9. ASSUME \/ \E id \in StreamIds : RemoveAgain(id)
             \/ \E value \in BOOLEAN : SetReuse2(value)
             \/ UNCHANGED vars
      PROVE  UNCHANGED <<RecipeLive, recipeFlush>>
  BY <1>9 DEF RemoveAgain, SetReuse2, Recipe!SetReuse, vars, RecipeLive
<1>. QED  BY <1>3, <1>4, <1>5, <1>7, <1>8, <1>9 DEF Next

\* A batch lists what is live.
LEMMA BatchIsLive ==
  ASSUME Inv, Typed
  PROVE  /\ RecipePromise!InIdOrder = InOrder(items)
         /\ CachedPromise!InIdOrder = InOrder(items)
<1>1. RecipePromise!InIdOrder = InOrder(items)
  <2>1. RecipePromise!InIdOrder
          = InOrder([id \in {i \in StreamIds : RecipeLive[i] # Free} |-> RecipeLive[id]])
    BY SameOrder DEF RecipePromise!InIdOrder, RecipePromise!Live, RecipePromise!Ids,
                     RecipeLive, StreamIds
  <2>. QED  BY <2>1, LiveFacts
<1>2. CachedPromise!InIdOrder = InOrder(items)
  <2>1. CachedPromise!InIdOrder
          = InOrder([id \in {i \in StreamIds : CachedLive[i] # Free} |-> CachedLive[id]])
    BY SameOrder DEF CachedPromise!InIdOrder, CachedPromise!Live, CachedPromise!Ids,
                     CachedLive, StreamIds
  <2>. QED  BY <2>1, LiveFacts
<1>. QED  BY <1>1, <1>2

\* The dict of the recipe stream is the live entries of EncodingStream: appends
\* put, updates replace, removals drop, and flush and reset start over.
THEOREM RecipeStreamKeepsPromise == Spec => RecipeKeepsPromise
<1>1. Init => RecipePromise!StreamInit
  <2>. SUFFICES ASSUME Init PROVE RecipePromise!StreamInit
    OBVIOUS
  <2>1. DOMAIN items = {} /\ recipeFlush = <<>>
    BY DEF Init, Recipe!Init, Recipe!NoItems
  <2>. QED  BY <2>1 DEF RecipePromise!StreamInit, RecipePromise!Nobody, RecipePromise!Ids, StreamIds
<1>2. Inv /\ Typed /\ Inv' /\ Typed' /\ [Next]_vars
        => [RecipePromise!StreamNext]_<<RecipeLive, recipeFlush>>
  <2>. SUFFICES ASSUME Inv, Typed, Inv', Typed', [Next]_vars
                PROVE  RecipePromise!StreamNext \/ UNCHANGED <<RecipeLive, recipeFlush>>
    OBVIOUS
  <2>1. ASSUME NEW id \in StreamIds, NEW step \in Steps, UNCHANGED recipeFlush,
               RecipeLive' = [RecipeLive EXCEPT ![id] = step]
        PROVE  RecipePromise!Put \/ RecipePromise!Replace
    BY <2>1 DEF RecipePromise!Put, RecipePromise!Replace, RecipePromise!Ids, RecipeLive, StreamIds
  <2>2. ASSUME NEW id \in StreamIds, UNCHANGED recipeFlush,
               RecipeLive[id] # Free, RecipeLive' = [RecipeLive EXCEPT ![id] = Free]
        PROVE  RecipePromise!Drop
    BY <2>2 DEF RecipePromise!Drop, RecipePromise!Ids, RecipeLive, StreamIds
  <2>3. ASSUME RecipeLive' = [id \in StreamIds |-> Free],
               recipeFlush' \in {recipeFlush, InOrder(items)}
        PROVE  RecipePromise!Flush \/ RecipePromise!Clear
    BY <2>3, BatchIsLive DEF RecipePromise!Flush, RecipePromise!Clear, RecipePromise!Nobody,
                             RecipePromise!Ids, RecipeLive, StreamIds
  <2>. QED  BY <2>1, <2>2, <2>3, LiveSteps DEF RecipePromise!StreamNext
<1>3. Spec => [](Inv /\ Typed)
  BY TypedHolds
<1>. QED  BY <1>1, <1>2, <1>3, PTL DEF Spec, RecipeKeepsPromise, RecipePromise!StreamSpec, RecipeLive

\* The active slots of the native stream are the live entries of EncodingStream.
THEOREM CachedStreamKeepsPromise == Spec => CachedKeepsPromise
<1>1. Init => CachedPromise!StreamInit
  <2>. SUFFICES ASSUME Init PROVE CachedPromise!StreamInit
    OBVIOUS
  <2>1. entries = <<>> /\ cachedFlush = <<>>
    BY DEF Init, Cached!Init
  <2>2. \A id \in StreamIds : ~Cached!Valid(id)
    BY <2>1 DEF Cached!Valid
  <2>. QED  BY <2>1, <2>2 DEF CachedPromise!StreamInit, CachedPromise!Nobody, CachedPromise!Ids,
                              StreamIds
<1>2. Inv /\ Typed /\ Inv' /\ Typed' /\ [Next]_vars
        => [CachedPromise!StreamNext]_<<CachedLive, cachedFlush>>
  <2>. SUFFICES ASSUME Inv, Typed, Inv', Typed', [Next]_vars
                PROVE  CachedPromise!StreamNext \/ UNCHANGED <<CachedLive, cachedFlush>>
    OBVIOUS
  <2>1. /\ CachedLive = RecipeLive /\ CachedLive' = RecipeLive'
        /\ cachedFlush = recipeFlush /\ cachedFlush' = recipeFlush'
    BY LiveFacts, LiveFactsNext DEF Typed
  <2>2. ASSUME NEW id \in StreamIds, NEW step \in Steps, UNCHANGED cachedFlush,
               CachedLive' = [CachedLive EXCEPT ![id] = step]
        PROVE  CachedPromise!Put \/ CachedPromise!Replace
    BY <2>2 DEF CachedPromise!Put, CachedPromise!Replace, CachedPromise!Ids, CachedLive, StreamIds
  <2>3. ASSUME NEW id \in StreamIds, UNCHANGED cachedFlush,
               CachedLive[id] # Free, CachedLive' = [CachedLive EXCEPT ![id] = Free]
        PROVE  CachedPromise!Drop
    BY <2>3 DEF CachedPromise!Drop, CachedPromise!Ids, CachedLive, StreamIds
  <2>4. ASSUME CachedLive' = [id \in StreamIds |-> Free],
               cachedFlush' \in {cachedFlush, InOrder(items)}
        PROVE  CachedPromise!Flush \/ CachedPromise!Clear
    BY <2>4, BatchIsLive DEF CachedPromise!Flush, CachedPromise!Clear, CachedPromise!Nobody,
                             CachedPromise!Ids, CachedLive, StreamIds
  <2>. QED  BY <2>1, <2>2, <2>3, <2>4, LiveSteps DEF CachedPromise!StreamNext
<1>3. Spec => [](Inv /\ Typed)
  BY TypedHolds
<1>. QED  BY <1>1, <1>2, <1>3, PTL DEF Spec, CachedKeepsPromise, CachedPromise!StreamSpec, CachedLive
=============================================================================
