------------------------ MODULE EncoderSessions_proofs ------------------------
(***************************************************************************)
(* Of the sessions, proved: what the append-only stream keeps, where the   *)
(* records of a composition go, that an input handed over as views is      *)
(* encoded as the owned input is (ViewsAlwaysEncodeLikeOwned), and that a  *)
(* derived graph draws its table (DerivedGraphAlwaysDrawsTheTable).        *)
(***************************************************************************)
EXTENDS EncoderSessions, GraphRows_proofs

-----------------------------------------------------------------------------
(***************************************************************************)
(* The append-only stream.  What is in the stream is a function of the log:*)
(* the same definitions over any log, to speak of a log and the next one.  *)
(***************************************************************************)
Ended == [input : Inputs, outcome : {"returned", "torn", "clash", "bad_input"}]

Ends(l, outcome) == {n \in DOMAIN l : l[n].outcome = outcome}

WritesTo(l, k) ==
  {n \in Ends(l, "returned") \cup Ends(l, "torn") :
     Cardinality(Before(Ends(l, "returned"), n)) = k - 1}

LanesAt(l, places) == [n \in places |-> OwnedLanes(l[n].input)]

WrittenIn(l, k) == InOrder(LanesAt(l, WritesTo(l, k)))

\* Nothing in order is the empty sequence.
LEMMA NothingInOrder ==
  ASSUME NEW f, DOMAIN f = {}
  PROVE  InOrder(f) = <<>>
<1>1. Cardinality(DOMAIN f) = 0
  BY FS_EmptySet
<1>. QED  BY <1>1 DEF InOrder

\* The ends of a log of one more entry.
LEMMA EndsOfLonger ==
  ASSUME NEW l \in Seq(Ended), NEW e \in Ended
  PROVE  /\ DOMAIN Append(l, e) = 1..(Len(l) + 1)
         /\ \A n \in 1..Len(l) : Append(l, e)[n] = l[n]
         /\ Append(l, e)[Len(l) + 1] = e
         /\ \A o : Ends(Append(l, e), o)
                     = Ends(l, o) \cup (IF e.outcome = o THEN {Len(l) + 1} ELSE {})
<1>1. /\ DOMAIN Append(l, e) = 1..(Len(l) + 1)
      /\ \A n \in 1..Len(l) : Append(l, e)[n] = l[n]
      /\ Append(l, e)[Len(l) + 1] = e
      /\ DOMAIN l = 1..Len(l) /\ Len(l) \in Nat
  OBVIOUS
<1>2. ASSUME NEW o
      PROVE  Ends(Append(l, e), o)
               = Ends(l, o) \cup (IF e.outcome = o THEN {Len(l) + 1} ELSE {})
  BY <1>1 DEF Ends
<1>. QED  BY <1>1, <1>2

\* The ends of a log are finitely many places of it.
LEMMA EndsFinite ==
  ASSUME NEW l \in Seq(Ended), NEW o
  PROVE  /\ Ends(l, o) \in SUBSET (1..Len(l))
         /\ IsFiniteSet(Ends(l, o)) /\ Cardinality(Ends(l, o)) \in Nat
<1>1. Ends(l, o) \in SUBSET (1..Len(l))
  BY DEF Ends
<1>2. IsFiniteSet(1..Len(l))
  BY FS_Interval
<1>. QED  BY <1>1, <1>2, FS_Subset, FS_CardinalityType

\* Before an entry of the log nothing changes, and all is before the new one.
LEMMA BeforeInLonger ==
  ASSUME NEW l \in Seq(Ended), NEW e \in Ended
  PROVE  /\ \A n \in 1..Len(l) :
              Before(Ends(Append(l, e), "returned"), n) = Before(Ends(l, "returned"), n)
         /\ Before(Ends(Append(l, e), "returned"), Len(l) + 1) = Ends(l, "returned")
<1>. DEFINE R == Ends(l, "returned")
            more == Ends(Append(l, e), "returned")
<1>1. R \in SUBSET (1..Len(l)) /\ Len(l) \in Nat
  BY EndsFinite
<1>2. more = R \cup (IF e.outcome = "returned" THEN {Len(l) + 1} ELSE {})
  BY EndsOfLonger
<1>. HIDE DEF R, more
<1>3. ASSUME NEW n \in 1..Len(l)
      PROVE  Before(more, n) = Before(R, n)
  <2>1. ~(Len(l) + 1 < n)
    BY <1>1
  <2>. QED  BY <1>2, <2>1 DEF Before
<1>4. Before(more, Len(l) + 1) = R
  <2>1. ~(Len(l) + 1 < Len(l) + 1) /\ \A n \in R : n < Len(l) + 1
    BY <1>1
  <2>. QED  BY <1>2, <2>1 DEF Before
<1>. QED  BY <1>3, <1>4 DEF R, more

\* At most as many as returned have returned before a place.
LEMMA AtMostReturned ==
  ASSUME NEW l \in Seq(Ended), NEW n
  PROVE  /\ Cardinality(Before(Ends(l, "returned"), n)) \in Nat
         /\ Cardinality(Before(Ends(l, "returned"), n)) <= Cardinality(Ends(l, "returned"))
<1>1. IsFiniteSet(Ends(l, "returned"))
  BY EndsFinite
<1>2. Before(Ends(l, "returned"), n) \in SUBSET Ends(l, "returned")
  BY DEF Before
<1>. QED  BY <1>1, <1>2, FS_Subset, FS_CardinalityType

\* What a new entry writes goes to the graph without an id.
LEMMA WritesOfLonger ==
  ASSUME NEW l \in Seq(Ended), NEW e \in Ended, NEW k \in Nat
  PROVE  WritesTo(Append(l, e), k)
           = WritesTo(l, k) \cup
               (IF k = Cardinality(Ends(l, "returned")) + 1 /\ e.outcome \in {"returned", "torn"}
                THEN {Len(l) + 1} ELSE {})
<1>. DEFINE m == Append(l, e)
            x == Len(l) + 1
            R == Ends(l, "returned")
            T == Ends(l, "torn")
            Count(n) == Cardinality(Before(Ends(m, "returned"), n))
<1>1. R \in SUBSET (1..Len(l)) /\ T \in SUBSET (1..Len(l)) /\ Cardinality(R) \in Nat
  BY EndsFinite
<1>2. \A n \in 1..Len(l) : Count(n) = Cardinality(Before(R, n))
  BY BeforeInLonger
<1>3. Count(x) = Cardinality(R)
  BY BeforeInLonger
<1>4. Ends(m, "returned") \cup Ends(m, "torn")
        = (R \cup T) \cup (IF e.outcome \in {"returned", "torn"} THEN {x} ELSE {})
  <2>1. /\ Ends(m, "returned") = R \cup (IF e.outcome = "returned" THEN {x} ELSE {})
        /\ Ends(m, "torn") = T \cup (IF e.outcome = "torn" THEN {x} ELSE {})
    BY EndsOfLonger
  <2>. HIDE DEF m, x, R, T
  <2>. QED  BY <2>1
<1>5. WritesTo(m, k) = {n \in Ends(m, "returned") \cup Ends(m, "torn") : Count(n) = k - 1}
  BY DEF WritesTo
<1>6. WritesTo(l, k) = {n \in R \cup T : Cardinality(Before(R, n)) = k - 1}
  BY DEF WritesTo
<1>7. \A n \in R \cup T : Count(n) = Cardinality(Before(R, n))
  BY <1>1, <1>2
<1>8. Cardinality(R) = k - 1 <=> k = Cardinality(R) + 1
  BY <1>1
<1>. HIDE DEF m, x, R, T, Count
<1>9. WritesTo(m, k)
        = WritesTo(l, k) \cup
            (IF k = Cardinality(R) + 1 /\ e.outcome \in {"returned", "torn"} THEN {x} ELSE {})
  BY <1>3, <1>4, <1>5, <1>6, <1>7, <1>8
<1>. QED  BY <1>9 DEF m, x, R

\* A graph that a new entry does not write to stays; what it writes comes last.
LEMMA WrittenInLonger ==
  ASSUME NEW l \in Seq(Ended), NEW e \in Ended, NEW k \in Nat
  PROVE  WrittenIn(Append(l, e), k)
           = IF k = Cardinality(Ends(l, "returned")) + 1 /\ e.outcome \in {"returned", "torn"}
             THEN Append(WrittenIn(l, k), OwnedLanes(e.input)) ELSE WrittenIn(l, k)
<1>. DEFINE m == Append(l, e)
            x == Len(l) + 1
            ids == WritesTo(l, k)
            more == WritesTo(m, k)
            f == LanesAt(l, ids)
            g == LanesAt(m, more)
            S == {OwnedLanes(l[n].input) : n \in ids}
            grows == k = Cardinality(Ends(l, "returned")) + 1 /\ e.outcome \in {"returned", "torn"}
<1>1. more = ids \cup (IF grows THEN {x} ELSE {})
  BY WritesOfLonger
<1>2. /\ \A n \in 1..Len(l) : m[n] = l[n]
      /\ m[x] = e /\ Len(l) \in Nat
  BY EndsOfLonger
<1>3. ids \in SUBSET (1..Len(l)) /\ IsFiniteSet(ids)
  <2>1. ids \in SUBSET (1..Len(l))
    BY EndsFinite DEF WritesTo
  <2>2. IsFiniteSet(1..Len(l))
    BY FS_Interval
  <2>. QED  BY <2>1, <2>2, FS_Subset
<1>4. DOMAIN f = ids /\ f \in [ids -> S] /\ DOMAIN g = more
  BY DEF LanesAt
<1>5. /\ \A n \in ids : f[n] = OwnedLanes(l[n].input)
      /\ \A n \in more : g[n] = OwnedLanes(m[n].input)
  BY DEF LanesAt
<1>6. \A n \in ids : n \in more /\ g[n] = f[n]
  BY <1>1, <1>2, <1>3, <1>5
<1>7. CASE grows
  <2>1. more = ids \cup {x} /\ g[x] = OwnedLanes(e.input)
    BY <1>1, <1>2, <1>5, <1>7
  <2>2. x \in Nat /\ (\A n \in ids : n < x) /\ ids \in SUBSET Nat
    BY <1>2, <1>3
  <2>3. InOrder(g) = Append(InOrder(f), g[x])
    <3>1. /\ IsFiniteSet(DOMAIN f) /\ DOMAIN f \in SUBSET Nat /\ f \in [DOMAIN f -> S]
          /\ \A n \in DOMAIN f : n < x
          /\ DOMAIN g = DOMAIN f \cup {x} /\ \A n \in DOMAIN f : g[n] = f[n]
      BY <1>3, <1>4, <1>6, <2>1, <2>2
    <3>. HIDE DEF m, x, ids, more, f, g, S
    <3>. QED  BY <2>2, <3>1, InOrderAppend, ZenonT(30)
  <2>. QED  BY <1>7, <2>1, <2>3 DEF WrittenIn
<1>8. CASE ~grows
  <2>1. more = ids
    BY <1>1, <1>8
  <2>2. g = f
    <3>. HIDE DEF m, x, ids, more, S, grows
    <3>. QED  BY <1>6, <2>1 DEF LanesAt
  <2>. QED  BY <1>8, <2>2 DEF WrittenIn
<1>. QED  BY <1>7, <1>8

\* The sequence that one more element makes.
LEMMA AppendIs ==
  ASSUME NEW S, NEW s \in Seq(S), NEW last
  PROVE  Append(s, last) = [k \in 1..(Len(s) + 1) |-> IF k <= Len(s) THEN s[k] ELSE last]
<1>. DEFINE longer == Append(s, last)
<1>1. /\ Len(s) \in Nat /\ longer \in Seq(S \cup {last}) /\ Len(longer) = Len(s) + 1
      /\ \A k \in 1..Len(s) : longer[k] = s[k]
      /\ longer[Len(s) + 1] = last
  <2>1. s \in Seq(S \cup {last}) /\ last \in S \cup {last}
    OBVIOUS
  <2>. QED  BY <2>1, AppendProperties
<1>2. longer = [k \in 1..Len(longer) |-> longer[k]]
  <2>. HIDE DEF longer
  <2>. QED  BY <1>1
<1>3. ASSUME NEW k \in 1..(Len(s) + 1)
      PROVE  longer[k] = IF k <= Len(s) THEN s[k] ELSE last
  <2>1. CASE k <= Len(s)
    <3>1. k \in 1..Len(s)
      BY <1>1, <2>1
    <3>. QED  BY <1>1, <2>1, <3>1
  <2>2. CASE ~(k <= Len(s))
    <3>1. k = Len(s) + 1
      BY <1>1, <2>2
    <3>. QED  BY <1>1, <2>2, <3>1
  <2>. QED  BY <2>1, <2>2
<1>. HIDE DEF longer
<1>4. [k \in 1..Len(longer) |-> longer[k]]
        = [k \in 1..(Len(s) + 1) |-> IF k <= Len(s) THEN s[k] ELSE last]
  BY <1>1, <1>3
<1>. QED  BY <1>2, <1>4 DEF longer

\* Declaring types leaves one arity to each.
LEMMA DeclaredOnce ==
  ASSUME NEW dims, OneArity(dims), NEW table
  PROVE  OneArity(DeclaredDims(dims, table))
<1>. DEFINE types == Ordered(table)
            known(k) == dims \cup {types[j] : j \in 1..(k - 1)}
            declared == {k \in 1..Len(types) : \A j \in 1..k : DimAccepted(known(j), types[j])}
<1>1. ASSUME NEW k \in declared, NEW dim \in known(k), dim[1] = types[k][1]
      PROVE  dim = types[k]
  <2>1. k \in 1..k
    OBVIOUS
  <2>2. DimAccepted(known(k), types[k])
    BY <2>1
  <2>. QED  BY <1>1, <2>2 DEF DimAccepted
<1>2. ASSUME NEW k \in declared, NEW dim \in dims, dim[1] = types[k][1]
      PROVE  dim = types[k]
  BY <1>1, <1>2
<1>3. ASSUME NEW j \in declared, NEW k \in declared, types[j][1] = types[k][1]
      PROVE  types[j] = types[k]
  <2>1. CASE j < k
    <3>1. j \in 1..(k - 1)
      BY <2>1
    <3>. QED  BY <1>1, <1>3, <3>1
  <2>2. CASE k < j
    <3>1. k \in 1..(j - 1)
      BY <2>2
    <3>. QED  BY <1>1, <1>3, <3>1
  <2>3. CASE j = k
    BY <2>3
  <2>4. j \in Int /\ k \in Int
    OBVIOUS
  <2>. QED  BY <2>1, <2>2, <2>3, <2>4
<1>4. DeclaredDims(dims, table) = dims \cup {types[k] : k \in declared}
  BY DEF DeclaredDims
<1>. HIDE DEF types, declared
<1>. QED  BY <1>2, <1>3, <1>4 DEF OneArity

\* What the stream is at every step: its graphs are those that the log says were
\* written, one for each id, and the open one what has been written since.
Returned == Cardinality(Ends(log, "returned"))

StreamAsLogged ==
  /\ log \in Seq(Ended)
  /\ stream = [graphs  |-> [k \in 1..Returned |-> WrittenIn(log, k)],
               open    |-> WrittenIn(log, Returned + 1),
               dims    |-> stream.dims,
               next_id |-> Returned]
  /\ OneArity(stream.dims)

StreamInv == caller = "appending" => StreamAsLogged

\* An empty log and an empty stream.
LEMMA EmptyKept ==
  ASSUME log = <<>>, stream = EmptyStream
  PROVE  StreamAsLogged
<1>1. log \in Seq(Ended) /\ Ends(log, "returned") = {} /\ Ends(log, "torn") = {}
  BY DEF Ends
<1>2. Returned = 0
  BY <1>1, FS_EmptySet DEF Returned
<1>3. WrittenIn(log, 1) = <<>>
  <2>1. DOMAIN LanesAt(log, WritesTo(log, 1)) = {}
    BY <1>1 DEF LanesAt, WritesTo
  <2>. QED  BY <2>1, NothingInOrder DEF WrittenIn
<1>4. [k \in 1..0 |-> WrittenIn(log, k)] = <<>>
  OBVIOUS
<1>5. /\ stream = [graphs |-> <<>>, open |-> <<>>, dims |-> {}, next_id |-> 0]
      /\ stream.dims = {}
  BY DEF EmptyStream
<1>6. stream = [graphs  |-> [k \in 1..Returned |-> WrittenIn(log, k)],
                open    |-> WrittenIn(log, Returned + 1),
                dims    |-> stream.dims,
                next_id |-> Returned]
  <2>1. Returned + 1 = 1 /\ [k \in 1..Returned |-> WrittenIn(log, k)] = <<>>
    BY <1>2, <1>4
  <2>. QED  BY <1>2, <1>3, <1>5, <2>1
<1>. QED  BY <1>1, <1>5, <1>6 DEF StreamAsLogged, OneArity

\* The number of ids after one more entry.
LEMMA ReturnedOfLonger ==
  ASSUME NEW l \in Seq(Ended), NEW e \in Ended
  PROVE  /\ Cardinality(Ends(l, "returned")) \in Nat
         /\ Cardinality(Ends(Append(l, e), "returned"))
              = Cardinality(Ends(l, "returned")) + (IF e.outcome = "returned" THEN 1 ELSE 0)
<1>. DEFINE R == Ends(l, "returned")
            x == Len(l) + 1
<1>1. R \in SUBSET (1..Len(l)) /\ IsFiniteSet(R) /\ Cardinality(R) \in Nat /\ Len(l) \in Nat
  BY EndsFinite
<1>2. Ends(Append(l, e), "returned") = R \cup (IF e.outcome = "returned" THEN {x} ELSE {})
  BY EndsOfLonger
<1>3. x \notin R
  BY <1>1
<1>. HIDE DEF R, x
<1>4. Cardinality(R \cup {x}) = Cardinality(R) + 1
  BY <1>1, <1>3, FS_AddElement
<1>5. R \cup {} = R
  OBVIOUS
<1>6. Cardinality(Ends(Append(l, e), "returned"))
        = Cardinality(R) + (IF e.outcome = "returned" THEN 1 ELSE 0)
  <2>1. CASE e.outcome = "returned"
    BY <1>1, <1>2, <1>4, <2>1
  <2>2. CASE e.outcome # "returned"
    <3>1. Ends(Append(l, e), "returned") = R
      BY <1>2, <1>5, <2>2
    <3>. QED  BY <1>1, <2>2, <3>1
  <2>. QED  BY <2>1, <2>2
<1>. QED  BY <1>1, <1>6 DEF R

\* No entry has written to a graph after the open one.
LEMMA NothingAhead ==
  ASSUME NEW l \in Seq(Ended), NEW k \in Nat, k > Cardinality(Ends(l, "returned")) + 1
  PROVE  WrittenIn(l, k) = <<>>
<1>1. Cardinality(Ends(l, "returned")) \in Nat
  BY EndsFinite
<1>2. ASSUME NEW n \in WritesTo(l, k)
      PROVE  FALSE
  <2>1. Cardinality(Before(Ends(l, "returned"), n)) = k - 1
    BY DEF WritesTo
  <2>2. /\ Cardinality(Before(Ends(l, "returned"), n)) \in Nat
        /\ Cardinality(Before(Ends(l, "returned"), n)) <= Cardinality(Ends(l, "returned"))
    BY AtMostReturned
  <2>. QED  BY <1>1, <2>1, <2>2
<1>3. DOMAIN LanesAt(l, WritesTo(l, k)) = {}
  BY <1>2 DEF LanesAt
<1>. QED  BY <1>3, NothingInOrder DEF WrittenIn

-----------------------------------------------------------------------------
LEMMA InitKept == Init => StreamInv
<1>. SUFFICES ASSUME Init
             PROVE  StreamAsLogged
  BY DEF StreamInv
<1>1. log = <<>> /\ stream = EmptyStream
  BY DEF Init
<1>. QED  BY <1>1, EmptyKept

\* An append that returns commits the open graph under the next id.
LEMMA AppendReturnsKept ==
  ASSUME StreamAsLogged, NEW in \in Inputs, AppendReturns(in)
  PROVE  StreamAsLogged'
<1>. DEFINE e == [input |-> in, outcome |-> "returned"]
            R == Cardinality(Ends(log, "returned"))
            lanes == OwnedLanes(in)
            past == [k \in 1..R |-> WrittenIn(log, k)]
            open == WrittenIn(log, R + 1)
            graph == Append(open, lanes)
            known == stream.dims
            S == {WrittenIn(log, k) : k \in 1..R}
<1>1. /\ log \in Seq(Ended) /\ OneArity(stream.dims) /\ e \in Ended
      /\ stream = [graphs |-> past, open |-> open, dims |-> known, next_id |-> R]
  BY DEF StreamAsLogged, Returned, Ended
<1>2. log' = Append(log, e) /\ stream' = AfterAppend(c, arities, stream, lanes)
  BY DEF AppendReturns, Logged
<1>3. log' \in Seq(Ended)
  BY <1>1, <1>2
<1>4. R \in Nat /\ Cardinality(Ends(log', "returned")) = R + 1
  BY <1>1, <1>2, ReturnedOfLonger
<1>5. \A k \in Nat : WrittenIn(log', k) = IF k = R + 1 THEN Append(WrittenIn(log, k), lanes)
                                          ELSE WrittenIn(log, k)
  BY <1>1, <1>2, WrittenInLonger
<1>6. WrittenIn(log', R + 2) = <<>>
  <2>. HIDE DEF R
  <2>1. R + 2 \in Nat /\ R + 2 > R + 1 /\ R + 2 # R + 1
    BY <1>4
  <2>2. WrittenIn(log, R + 2) = <<>>
    BY <1>1, <2>1, NothingAhead DEF R
  <2>. QED  BY <1>5, <2>1, <2>2
<1>7. stream' = [graphs  |-> Append(past, graph),
                 open    |-> <<>>,
                 dims    |-> DeclaredDims(known, arities),
                 next_id |-> R + 1]
  <2>. HIDE DEF past, open, R, lanes, known
  <2>. QED  BY <1>1, <1>2 DEF AfterAppend
<1>8. Append(past, graph) = [k \in 1..(R + 1) |-> WrittenIn(log', k)]
  <2>1. past \in Seq(S) /\ Len(past) = R /\ \A k \in 1..R : past[k] = WrittenIn(log, k)
    <3>. HIDE DEF open, R, lanes, known
    <3>. QED  BY <1>4
  <2>2. graph = WrittenIn(log', R + 1)
    BY <1>4, <1>5
  <2>3. \A k \in 1..R : past[k] = WrittenIn(log', k)
    BY <1>4, <1>5, <2>1
  <2>4. Append(past, graph)
          = [k \in 1..(R + 1) |-> IF k <= R THEN past[k] ELSE graph]
    <3>. HIDE DEF past, graph, open, R, lanes, S
    <3>. QED  BY <2>1, AppendIs
  <2>. HIDE DEF past, graph, open, R, lanes, S
  <2>5. ASSUME NEW k \in 1..(R + 1)
        PROVE  (IF k <= R THEN past[k] ELSE graph) = WrittenIn(log', k)
    <3>1. CASE k <= R
      <4>1. k \in 1..R
        BY <1>4, <3>1
      <4>. QED  BY <2>3, <3>1, <4>1
    <3>2. CASE ~(k <= R)
      <4>1. k = R + 1
        BY <1>4, <3>2
      <4>. QED  BY <2>2, <3>2, <4>1
    <3>. QED  BY <3>1, <3>2
  <2>. QED  BY <2>4, <2>5
<1>9. OneArity(stream'.dims)
  <2>1. OneArity(DeclaredDims(known, arities))
    BY <1>1, DeclaredOnce
  <2>2. stream'.dims = DeclaredDims(known, arities)
    <3>. HIDE DEF past, graph, open, R, lanes, known
    <3>. QED  BY <1>7
  <2>. QED  BY <2>1, <2>2
<1>10. stream' = [graphs  |-> [k \in 1..(R + 1) |-> WrittenIn(log', k)],
                  open    |-> WrittenIn(log', (R + 1) + 1),
                  dims    |-> stream'.dims,
                  next_id |-> R + 1]
  <2>1. (R + 1) + 1 = R + 2
    BY <1>4
  <2>2. stream'.dims = DeclaredDims(known, arities)
    <3>. HIDE DEF past, graph, open, R, lanes, known
    <3>. QED  BY <1>7
  <2>. HIDE DEF past, graph, open, R, lanes, known
  <2>. QED  BY <1>6, <1>7, <1>8, <2>1, <2>2
<1>. QED  BY <1>3, <1>4, <1>9, <1>10 DEF StreamAsLogged, Returned

\* An append that raises leaves what it wrote in the open graph, and no id.
LEMMA AppendRaisesKept ==
  ASSUME StreamAsLogged, NEW in \in Inputs, AppendRaises(in)
  PROVE  StreamAsLogged'
<1>. DEFINE outcome == IF InputRefused(c, OwnedLanes(in)) THEN "bad_input"
                       ELSE IF ArityClash(stream, arities) THEN "clash" ELSE "torn"
            e == [input |-> in, outcome |-> outcome]
            R == Cardinality(Ends(log, "returned"))
            lanes == OwnedLanes(in)
            past == [k \in 1..R |-> WrittenIn(log, k)]
            open == WrittenIn(log, R + 1)
            writes == ~RefusedUnwritten(c, arities, stream, lanes)
            known == stream.dims
            dims == IF InputRefused(c, lanes) THEN known ELSE DeclaredDims(known, arities)
<1>1. /\ log \in Seq(Ended) /\ OneArity(stream.dims) /\ e \in Ended
      /\ stream = [graphs |-> past, open |-> open, dims |-> known, next_id |-> R]
  BY DEF StreamAsLogged, Returned, Ended
<1>2. log' = Append(log, e) /\ stream' = AfterRefusal(c, arities, stream, lanes)
  BY DEF AppendRaises, Logged
<1>3. log' \in Seq(Ended)
  BY <1>1, <1>2
<1>4. R \in Nat /\ Cardinality(Ends(log', "returned")) = R
  <2>1. e.outcome # "returned"
    OBVIOUS
  <2>. HIDE DEF e, outcome
  <2>2. /\ Cardinality(Ends(log, "returned")) \in Nat
        /\ Cardinality(Ends(Append(log, e), "returned"))
             = Cardinality(Ends(log, "returned")) + (IF e.outcome = "returned" THEN 1 ELSE 0)
    BY <1>1, ReturnedOfLonger
  <2>. QED  BY <1>2, <2>1, <2>2
<1>5. writes <=> e.outcome \in {"returned", "torn"}
  BY DEF RefusedUnwritten
<1>6. \A k \in Nat : WrittenIn(log', k) = IF k = R + 1 /\ writes
                                          THEN Append(WrittenIn(log, k), lanes)
                                          ELSE WrittenIn(log, k)
  <2>1. e.input = in
    OBVIOUS
  <2>. HIDE DEF e, outcome, writes
  <2>. QED  BY <1>1, <1>2, <1>5, <2>1, WrittenInLonger
<1>7. stream' = [graphs  |-> past,
                 open    |-> IF writes THEN Append(open, lanes) ELSE open,
                 dims    |-> dims,
                 next_id |-> R]
  <2>. HIDE DEF past, open, R, lanes, known
  <2>. QED  BY <1>1, <1>2 DEF AfterRefusal
<1>8. past = [k \in 1..R |-> WrittenIn(log', k)]
  <2>1. \A k \in 1..R : WrittenIn(log', k) = WrittenIn(log, k)
    BY <1>4, <1>6
  <2>. QED  BY <2>1
<1>9. (IF writes THEN Append(open, lanes) ELSE open) = WrittenIn(log', R + 1)
  <2>1. R + 1 \in Nat
    BY <1>4
  <2>. HIDE DEF R, writes, lanes
  <2>. QED  BY <1>6, <2>1
<1>10. OneArity(dims)
  BY <1>1, DeclaredOnce
<1>. HIDE DEF past, open, R, lanes, dims, writes
<1>11. stream'.dims = dims
  BY <1>7
<1>12. stream' = [graphs  |-> [k \in 1..R |-> WrittenIn(log', k)],
                  open    |-> WrittenIn(log', R + 1),
                  dims    |-> stream'.dims,
                  next_id |-> R]
  BY <1>7, <1>8, <1>9, <1>11
<1>. QED  BY <1>3, <1>4, <1>10, <1>11, <1>12 DEF StreamAsLogged, Returned, R

LEMMA FlushKept == log' = <<>> /\ stream' = EmptyStream => StreamAsLogged'
<1>1. log = <<>> /\ stream = EmptyStream => StreamAsLogged
  BY EmptyKept
<1>2. (log = <<>> /\ stream = EmptyStream)' => StreamAsLogged'
  BY <1>1, PTL
<1>3. EmptyStream' = EmptyStream
  BY DEF EmptyStream
<1>. QED  BY <1>2, <1>3

\* All other steps leave log and stream alone.
LEMMA StreamInvNext ==
  ASSUME StreamInv, [Next]_vars
  PROVE  StreamInv'
<1>1. ASSUME UNCHANGED <<caller, log, stream>>
      PROVE  StreamInv'
  BY <1>1, SMTT(30) DEF StreamInv, StreamAsLogged, Returned, Ends, WrittenIn, LanesAt, WritesTo
<1>2. ASSUME NEW action \in Moves, Act(action)
      PROVE  StreamInv'
  BY <1>1, <1>2 DEF Act
<1>3. ASSUME NEW layers \in Subgoals, SetSubgoals(layers)
      PROVE  StreamInv'
  BY <1>1, <1>3 DEF SetSubgoals
<1>4. ASSUME NEW actions \in Offers, OfferActions(actions)
      PROVE  StreamInv'
  BY <1>1, <1>4 DEF OfferActions
<1>5. ASSUME NEW i \in DOMAIN dag.nodes, NEW action \in Moves, NEW note \in Notes,
             Expand(i, action, note)
      PROVE  StreamInv'
  BY <1>1, <1>5 DEF Expand
<1>6. ASSUME NEW in \in Inputs, AppendReturns(in)
      PROVE  StreamInv'
  <2>1. StreamAsLogged
    BY <1>6 DEF AppendReturns, StreamInv
  <2>. QED  BY <1>6, <2>1, AppendReturnsKept DEF StreamInv
<1>7. ASSUME NEW in \in Inputs, AppendRaises(in)
      PROVE  StreamInv'
  <2>1. StreamAsLogged
    BY <1>7 DEF AppendRaises, StreamInv
  <2>. QED  BY <1>7, <2>1, AppendRaisesKept DEF StreamInv
<1>8. ASSUME NEW table, UpdateRelations(table)
      PROVE  StreamInv'
  BY <1>1, <1>8 DEF UpdateRelations
<1>9. CASE Flush
  <2>1. log' = <<>> /\ stream' = EmptyStream
    BY <1>9 DEF Flush
  <2>. QED  BY <2>1, FlushKept DEF StreamInv
<1>10. ASSUME NEW component \in Components, AddComponent(component)
       PROVE  StreamInv'
  BY <1>1, <1>10 DEF AddComponent
<1>11. CASE Compile
  BY <1>1, <1>11 DEF Compile
<1>12. ASSUME NEW record \in RelationRecords, AddRecord(record)
       PROVE  StreamInv'
  BY <1>1, <1>12 DEF AddRecord
<1>13. ASSUME NEW field \in OpenFields, Give(field)
       PROVE  StreamInv'
  BY <1>1, <1>13 DEF Give
<1>14. ASSUME NEW i, NEW key \in AttributeKeys, NEW value \in AttributeValues(key),
              SetAttribute(i, key, value)
       PROVE  StreamInv'
  BY <1>1, <1>14 DEF SetAttribute
<1>15. ASSUME NEW i, ReadTargetNames(i)
       PROVE  StreamInv'
  BY <1>1, <1>15 DEF ReadTargetNames
<1>16. CASE UNCHANGED vars
  BY <1>1, <1>16 DEF vars
<1>. QED  BY <1>2, <1>3, <1>4, <1>5, <1>6, <1>7, <1>8, <1>9, <1>10, <1>11, <1>12, <1>13,
              <1>14, <1>15, <1>16 DEF Next

\* The invariant says what the stream keeps.
LEMMA KeptTells == StreamInv => StreamKeepsAppends
<1>. SUFFICES ASSUME StreamAsLogged, caller = "appending"
             PROVE  StreamKeepsAppends
  BY DEF StreamInv, StreamKeepsAppends
<1>. DEFINE R == Cardinality(Indices("returned"))
            graphs == [k \in 1..R |-> WrittenIn(log, k)]
            open == WrittenIn(log, R + 1)
            known == stream.dims
            S == {WrittenIn(log, k) : k \in 1..(R + 1)}
            rest == IF open = <<>> THEN <<>> ELSE <<open>>
<1>1. \A o : Indices(o) = Ends(log, o)
  BY DEF Indices, Ends
<1>2. \A k : WrittenTo(k) = WritesTo(log, k) /\ GraphWritten(k) = WrittenIn(log, k)
  BY <1>1 DEF WrittenTo, WritesTo, GraphWritten, WrittenIn, LanesAt
<1>3. /\ log \in Seq(Ended) /\ OneArity(known) /\ R = Returned
      /\ stream = [graphs |-> graphs, open |-> open, dims |-> known, next_id |-> R]
  BY <1>1 DEF StreamAsLogged, Returned
<1>4. R \in Nat
  BY <1>1, <1>3, EndsFinite
<1>5. open = <<>> <=> WrittenTo(R + 1) = {}
  <2>. DEFINE ids == WritesTo(log, R + 1)
              f == LanesAt(log, ids)
              X == {OwnedLanes(log[n].input) : n \in ids}
  <2>1. ids \in SUBSET (1..Len(log)) /\ IsFiniteSet(ids)
    <3>1. ids \in SUBSET (1..Len(log))
      BY <1>3, EndsFinite DEF WritesTo
    <3>2. Len(log) \in Nat
      BY <1>3
    <3>3. IsFiniteSet(1..Len(log))
      BY <3>2, FS_Interval
    <3>. QED  BY <3>1, <3>3, FS_Subset
  <2>2. IsFiniteSet(DOMAIN f) /\ DOMAIN f \in SUBSET Nat /\ f \in [DOMAIN f -> X] /\ DOMAIN f = ids
    BY <1>3, <2>1 DEF LanesAt
  <2>3. open = InOrder(f)
    BY DEF WrittenIn
  <2>4. InOrder(f) \in Seq(X) /\ Len(InOrder(f)) = Cardinality(DOMAIN f)
    <3>. HIDE DEF f, X, ids
    <3>. QED  BY <2>2, InOrderType
  <2>5. Cardinality(ids) = 0 <=> ids = {}
    BY <2>1, FS_EmptySet
  <2>. HIDE DEF f, X, ids, open
  <2>6. open = <<>> <=> Len(open) = 0
    BY <2>3, <2>4
  <2>7. ids = WrittenTo(R + 1)
    BY <1>2 DEF ids
  <2>. QED  BY <2>2, <2>3, <2>4, <2>5, <2>6, <2>7
<1>6. Flushed(stream) = graphs \o rest /\ stream.next_id = R /\ stream.dims = known
  <2>. HIDE DEF graphs, open, known, R
  <2>. QED  BY <1>3 DEF Flushed
<1>7. /\ graphs \in Seq(S) /\ Len(graphs) = R /\ \A k \in 1..R : graphs[k] = WrittenIn(log, k)
      /\ open \in S
  BY <1>4
<1>. HIDE DEF graphs, open, known, R, S
<1>8. /\ rest \in Seq(S) /\ Len(rest) = IF open = <<>> THEN 0 ELSE 1
      /\ open # <<>> => rest[1] = open
  BY <1>7
<1>9. Len(graphs \o rest) = R + Len(rest)
  BY <1>7, <1>8
<1>10. ASSUME NEW k \in 1..Len(graphs \o rest)
       PROVE  (graphs \o rest)[k] = WrittenIn(log, k)
  <2>1. CASE k <= R
    <3>1. k \in 1..R
      BY <1>4, <2>1
    <3>2. (graphs \o rest)[k] = graphs[k]
      BY <1>7, <1>8, <3>1
    <3>. QED  BY <1>7, <3>1, <3>2
  <2>2. CASE ~(k <= R)
    <3>1. k = R + 1 /\ open # <<>>
      BY <1>4, <1>8, <1>9, <2>2
    <3>2. (graphs \o rest)[k] = rest[1]
      BY <1>4, <1>7, <1>8, <3>1
    <3>. QED  BY <1>8, <3>1, <3>2 DEF open
  <2>. QED  BY <2>1, <2>2
<1>11. Len(graphs \o rest) = R + IF WrittenTo(R + 1) = {} THEN 0 ELSE 1
  BY <1>5, <1>8, <1>9
<1>. HIDE DEF rest
<1>. QED  BY <1>2, <1>3, <1>6, <1>10, <1>11 DEF StreamKeepsAppends, R

\* The append-only stream keeps what was appended, whatever the inputs and tables
\* are: the graph of an id has what its append wrote, behind what appends that
\* raised midway left (HGraphStreamEncoder::append and flush).
THEOREM StreamAlwaysKeepsAppends == Spec => []StreamKeepsAppends
<1>1. Init => StreamInv
  BY InitKept
<1>2. StreamInv /\ [Next]_vars => StreamInv'
  BY StreamInvNext
<1>3. StreamInv => StreamKeepsAppends
  BY KeptTells
<1>. QED  BY <1>1, <1>2, <1>3, PTL DEF Spec

-----------------------------------------------------------------------------
(***************************************************************************)
(* The flat rows of what is appended.  Every entry of the log is an input, *)
(* and the encoder is one that its constructor accepts.                    *)
(***************************************************************************)
AppendingConfig == caller = "appending" => c \in Drawable(AppendConfigs)

LEMMA ConfigInit == Init => AppendingConfig
<1>1. ASSUME Init, caller = "appending"
      PROVE  c \in Drawable(AppendConfigs)
  <2>1. PICK session \in Sessions : caller = session[1] /\ c = session[2]
    BY <1>1 DEF Init
  <2>2. session[1] = "appending"
    BY <1>1, <2>1
  <2>3. PICK config \in Drawable(AppendConfigs) : session = <<"appending", config>>
    BY <2>2 DEF Sessions
  <2>. QED  BY <2>1, <2>3
<1>. QED  BY <1>1 DEF AppendingConfig

LEMMA SameEncoder ==
  ASSUME [Next]_vars
  PROVE  caller' = caller /\ c' = c
BY DEF Next, vars, Act, SetSubgoals, OfferActions, Expand, AppendReturns, AppendRaises,
       UpdateRelations, Flush, AddComponent, Compile, AddRecord, Give, SetAttribute,
       ReadTargetNames

LEMMA ConfigsReady ==
  ASSUME NEW config \in EncodingConfigs \cup AppendConfigs
  PROVE  DomainReady /\ ConfigReady(config)
BY DomainGiven, EncodersMade DEF DomainReady, ConfigReady

LEMMA RowsTell ==
  ASSUME StreamInv, AppendingConfig, caller = "appending"
  PROVE  PackedRowsUnpack
<1>. DEFINE schema == FlatSchema(c)
            ids == RelationIds(schema)
            widths == WidthsOf(schema, ids)
            places == {n \in DOMAIN log : ~FlatRefused(c, OwnedLanes(log[n].input))}
            entries == Encodable
            graphs == EncodedInputs(entries)
<1>1. DomainReady /\ ConfigReady(c)
  BY ConfigsReady DEF AppendingConfig, Drawable
<1>2. log \in Seq(Ended)
  BY DEF StreamInv, StreamAsLogged
<1>3. widths = RelationWidths(schema, ids)
  BY DEF WidthsOf, RelationWidths
<1>4. IdsFit(ids, widths)
  BY <1>1, <1>3, RelationsFit
<1>5. IsVector(log) /\ DOMAIN log = 1..Len(log) /\ \A n \in DOMAIN log : log[n] \in Ended
  BY <1>2, OwnEntries DEF IsVector
<1>6. IsVector(entries) /\ ToSet(entries) = {log[n] : n \in places}
  <2>1. places \in SUBSET DOMAIN log /\ entries = Chosen(log, places)
    BY DEF Encodable
  <2>. HIDE DEF entries, places
  <2>. QED  BY <1>5, <2>1, ChosenVector
<1>7. ASSUME NEW e \in ToSet(entries)
      PROVE  GraphFits(ids, widths, FlatEncode(c, OwnedLanes(e.input)))
  <2>1. e \in Ended /\ ~FlatRefused(c, OwnedLanes(e.input))
    BY <1>5, <1>6, <1>7
  <2>2. IsOwnedInput(e.input)
    BY <2>1, InputsOwned DEF Ended
  <2>3. AreLanes(OwnedLanes(e.input))
    BY <2>2, OwnedLanesFit
  <2>4. GraphFits(ids, RelationWidths(schema, ids), FlatEncode(c, OwnedLanes(e.input)))
    BY <1>1, <2>1, <2>3, FlatEncodingFits
  <2>. QED  BY <1>3, <2>4
<1>. DEFINE n == Len(entries)
<1>8. n \in Nat /\ DOMAIN entries = 1..n /\ \A k \in 1..n : entries[k] \in ToSet(entries)
  BY <1>6, VectorFacts
<1>9. graphs = [k \in 1..n |-> FlatEncode(c, OwnedLanes(entries[k].input))]
  BY <1>8 DEF EncodedInputs
<1>10. PackedRowsUnpack <=> GraphsUnpack(ids, widths, graphs)
  BY DEF PackedRowsUnpack, IdsUnpack
<1>. HIDE DEF schema, ids, widths, entries, n, graphs
<1>11. DOMAIN graphs = 1..n /\ graphs = [k \in 1..n |-> graphs[k]]
  BY <1>9
<1>12. IsVector(graphs)
  BY <1>8, <1>11, VectorOf
<1>13. \A k \in 1..n : GraphFits(ids, widths, graphs[k])
  BY <1>7, <1>8, <1>9
<1>14. GraphsFit(ids, widths, graphs)
  BY <1>11, <1>12, <1>13 DEF GraphsFit, IsVector
<1>. QED  BY <1>4, <1>10, <1>14, TuplesUnpack

\* What is drawn survives as well.
LEMMA DrawingsTell ==
  ASSUME StreamInv, AppendingConfig, caller = "appending"
  PROVE  DerivedRowsSurviveBatching
<1>. DEFINE places == {n \in DOMAIN log : Draws(OwnedOccurrences(log[n].input))}
            entries == DrawableEntries
            graphs == DrawnInputs(entries)
            n == Len(entries)
<1>1. c.include_line_graph => Reified(c)
  BY DEF AppendingConfig, Drawable, DerivedConfigAccepted
<1>2. log \in Seq(Ended)
  BY DEF StreamInv, StreamAsLogged
<1>3. IsVector(log) /\ \A k \in DOMAIN log : log[k] \in Ended
  BY <1>2, OwnEntries DEF IsVector
<1>4. IsVector(entries) /\ ToSet(entries) = {log[k] : k \in places}
  <2>1. places \in SUBSET DOMAIN log /\ entries = Chosen(log, places)
    BY DEF DrawableEntries
  <2>. HIDE DEF entries, places
  <2>. QED  BY <1>3, <2>1, ChosenVector
<1>5. ASSUME NEW e \in ToSet(entries)
      PROVE  DrawingFits(c, DerivedEncode(c, OwnedOccurrences(e.input)))
  <2>1. e \in Ended /\ Draws(OwnedOccurrences(e.input))
    BY <1>3, <1>4, <1>5
  <2>2. IsOwnedInput(e.input)
    BY <2>1, InputsOwned DEF Ended
  <2>3. LanesDrawable(OwnedOccurrences(e.input))
    BY <2>1, <2>2, OccurrencesDrawable
  <2>. QED  BY <1>1, <2>3, EncodedDrawing
<1>6. n \in Nat /\ DOMAIN entries = 1..n /\ \A k \in 1..n : entries[k] \in ToSet(entries)
  BY <1>4, VectorFacts
<1>7. /\ DOMAIN graphs = 1..n /\ graphs = [k \in 1..n |-> graphs[k]]
      /\ \A k \in 1..n : graphs[k] = DerivedEncode(c, OwnedOccurrences(entries[k].input))
  BY <1>6 DEF DrawnInputs
<1>8. DerivedRowsSurviveBatching <=> DrawingsSurvive(c, graphs)
  BY DEF DerivedRowsSurviveBatching
<1>. HIDE DEF entries, n, graphs
<1>9. IsVector(graphs)
  BY <1>6, <1>7, VectorOf
<1>10. \A k \in DOMAIN graphs : DrawingFits(c, graphs[k])
  BY <1>5, <1>6, <1>7
<1>. QED  BY <1>8, <1>9, <1>10, DrawingsAlwaysSurvive

LEMMA AppendingConfigNext ==
  ASSUME AppendingConfig, [Next]_vars
  PROVE  AppendingConfig'
<1>1. caller' = caller /\ c' = c
  BY SameEncoder
<1>. QED  BY <1>1 DEF AppendingConfig

\* A state that can be encoded has rows that every reader finds again, whatever the
\* states are that it is batched with. Flat: preparation plans each entity and each
\* relation that emission uses, and the offsets of packing and collation are those
\* that FlatRelationData counts with. Derived: PyG's batch of single graphs is the
\* builder's, and a row of the table has its nodes, its channels and its members there.
THEOREM BatchedRowsAlwaysUnpack == Spec => []BatchedRowsUnpack
<1>1. Init => StreamInv /\ AppendingConfig
  BY InitKept, ConfigInit
<1>2. StreamInv /\ AppendingConfig /\ [Next]_vars => StreamInv' /\ AppendingConfig'
  BY StreamInvNext, AppendingConfigNext
<1>3. StreamInv /\ AppendingConfig => BatchedRowsUnpack
  BY RowsTell, DrawingsTell DEF BatchedRowsUnpack
<1>. QED  BY <1>1, <1>2, <1>3, PTL DEF Spec

-----------------------------------------------------------------------------
(***************************************************************************)
(* The records of a composition.                                           *)
(***************************************************************************)
\* What is selected comes out as often as it was selected.
LEMMA CopiesSelected ==
  ASSUME NEW S, NEW records \in Seq(S), NEW places \in SUBSET DOMAIN records, NEW record
  PROVE  /\ Copies(Selected(records, places), record)
              = Cardinality({n \in places : records[n] = record})
         /\ ToSet(Selected(records, places)) \in SUBSET {records[n] : n \in places}
<1>. DEFINE N == Cardinality(places)
            f == [n \in places |-> records[n]]
            chosen == {n \in places : records[n] = record}
            from == {m \in 1..N : records[Place(places, m)] = record}
            move == [m \in from |-> Place(places, m)]
<1>1. places \in SUBSET Nat /\ IsFiniteSet(places)
  <2>1. Len(records) \in Nat /\ DOMAIN records = 1..Len(records)
    OBVIOUS
  <2>2. IsFiniteSet(1..Len(records))
    BY <2>1, FS_Interval
  <2>3. places \in SUBSET (1..Len(records))
    BY <2>1
  <2>. QED  BY <2>1, <2>2, <2>3, FS_Subset
<1>2. /\ N \in Nat
      /\ \A m \in 1..N : Place(places, m) \in places
      /\ \A j, m \in 1..N : j < m => Place(places, j) < Place(places, m)
  BY <1>1, PlacesInOrder
<1>3. \A n \in places : \E m \in 1..N : Place(places, m) = n
  BY <1>1, EachHasPlace
<1>4. DOMAIN f = places
  OBVIOUS
<1>5. Selected(records, places) = [m \in 1..N |-> records[Place(places, m)]]
  <2>1. InOrder(f) = [m \in 1..N |-> f[Place(places, m)]]
    BY <1>4 DEF InOrder
  <2>2. \A m \in 1..N : f[Place(places, m)] = records[Place(places, m)]
    BY <1>2
  <2>3. Selected(records, places) = InOrder(f)
    BY DEF Selected
  <2>. HIDE DEF f, N
  <2>. QED  BY <2>1, <2>2, <2>3
<1>6. \A j, m \in 1..N : Place(places, j) = Place(places, m) => j = m
  <2>. SUFFICES ASSUME NEW j \in 1..N, NEW m \in 1..N, Place(places, j) = Place(places, m), j # m
               PROVE  FALSE
    OBVIOUS
  <2>1. Place(places, j) \in Nat
    BY <1>1, <1>2
  <2>2. j < m \/ m < j
    BY <1>2
  <2>3. Place(places, j) < Place(places, m) \/ Place(places, m) < Place(places, j)
    BY <1>2, <2>2
  <2>. QED  BY <2>1, <2>3
<1>7. IsFiniteSet(from)
  <2>1. IsFiniteSet(1..N)
    BY <1>2, FS_Interval
  <2>2. from \in SUBSET (1..N)
    OBVIOUS
  <2>. QED  BY <2>1, <2>2, FS_Subset
<1>8. move \in Bijection(from, chosen)
  <2>1. move \in [from -> chosen]
    BY <1>2
  <2>2. \A a, b \in from : move[a] = move[b] => a = b
    BY <1>6
  <2>3. \A n \in chosen : \E m \in from : move[m] = n
    BY <1>3
  <2>. HIDE DEF move, from, chosen
  <2>. QED  BY <2>1, <2>2, <2>3 DEF Bijection, Injection, Surjection, IsInjective
<1>9. Cardinality(chosen) = Cardinality(from)
  <2>1. ExistsBijection(from, chosen)
    BY <1>8 DEF ExistsBijection
  <2>. HIDE DEF move, from, chosen
  <2>. QED  BY <1>7, <2>1, FS_Bijection
<1>10. Copies(Selected(records, places), record) = Cardinality(from)
  <2>. HIDE DEF N
  <2>. QED  BY <1>5 DEF Copies
<1>11. ToSet(Selected(records, places)) \in SUBSET {records[n] : n \in places}
  <2>. HIDE DEF N
  <2>. QED  BY <1>2, <1>5 DEF ToSet
<1>. QED  BY <1>9, <1>10, <1>11

\* While a composition is put together: what has been added are components and
\* records, and after compile it is the plan that compile accepted.
CompositionInv ==
  caller = "composing" =>
    /\ plan \in Seq(Components)
    /\ "relations" \in DOMAIN input /\ input.relations \in Seq(RelationRecords)
    /\ compiled => CompileAccepts(plan, c)

LEMMA InitComposed == Init => CompositionInv
<1>. SUFFICES ASSUME Init, caller = "composing"
             PROVE  CompositionInv
  BY DEF CompositionInv
<1>1. plan = <<>> /\ ~compiled /\ input \in Given
  BY DEF Init
<1>2. plan \in Seq(Components)
  BY <1>1
<1>. QED  BY <1>1, <1>2, RecordsGiven DEF CompositionInv

LEMMA CompositionInvNext ==
  ASSUME CompositionInv, [Next]_vars
  PROVE  CompositionInv'
<1>1. ASSUME UNCHANGED <<caller, c, plan, compiled, input>>
      PROVE  CompositionInv'
  BY <1>1 DEF CompositionInv
<1>2. ASSUME caller # "composing", caller' = caller
      PROVE  CompositionInv'
  BY <1>2 DEF CompositionInv
<1>3. ASSUME NEW action \in Moves, Act(action)
      PROVE  CompositionInv'
  BY <1>1, <1>3 DEF Act
<1>4. ASSUME NEW layers \in Subgoals, SetSubgoals(layers)
      PROVE  CompositionInv'
  BY <1>1, <1>4 DEF SetSubgoals
<1>5. ASSUME NEW actions \in Offers, OfferActions(actions)
      PROVE  CompositionInv'
  BY <1>1, <1>5 DEF OfferActions
<1>6. ASSUME NEW i \in DOMAIN dag.nodes, NEW action \in Moves, NEW note \in Notes,
             Expand(i, action, note)
      PROVE  CompositionInv'
  BY <1>1, <1>6 DEF Expand
<1>7. ASSUME NEW in \in Inputs, AppendReturns(in) \/ AppendRaises(in)
      PROVE  CompositionInv'
  BY <1>1, <1>7 DEF AppendReturns, AppendRaises
<1>8. ASSUME NEW table, UpdateRelations(table)
      PROVE  CompositionInv'
  BY <1>1, <1>8 DEF UpdateRelations
<1>9. CASE Flush
  BY <1>1, <1>9 DEF Flush
<1>10. ASSUME NEW component \in Components, AddComponent(component)
       PROVE  CompositionInv'
  <2>1. plan \in Seq(Components) /\ plan' = Append(plan, component) /\ ~compiled
    BY <1>10 DEF AddComponent, CompositionInv
  <2>2. plan' \in Seq(Components)
    BY <2>1
  <2>. QED  BY <1>10, <2>1, <2>2 DEF AddComponent, CompositionInv
<1>11. CASE Compile
  BY <1>11 DEF Compile, CompositionInv
<1>12. ASSUME NEW record \in RelationRecords, AddRecord(record)
       PROVE  CompositionInv'
  <2>1. /\ "relations" \in DOMAIN input /\ input.relations \in Seq(RelationRecords)
        /\ input' = [input EXCEPT !.relations = Append(@, record)]
    BY <1>12 DEF AddRecord, CompositionInv
  <2>2. "relations" \in DOMAIN input' /\ input'.relations = Append(input.relations, record)
    BY <2>1
  <2>3. input'.relations \in Seq(RelationRecords)
    BY <2>1, <2>2
  <2>. QED  BY <1>12, <2>2, <2>3 DEF AddRecord, CompositionInv
<1>13. ASSUME NEW field \in OpenFields, Give(field)
       PROVE  CompositionInv'
  <2>1. caller = "batching"
    BY DEF OpenFields
  <2>. QED  BY <1>2, <1>13, <2>1 DEF Give
<1>14. ASSUME NEW i, NEW key \in AttributeKeys, NEW value \in AttributeValues(key),
              SetAttribute(i, key, value)
       PROVE  CompositionInv'
  BY <1>2, <1>14 DEF SetAttribute
<1>15. ASSUME NEW i, ReadTargetNames(i)
       PROVE  CompositionInv'
  BY <1>2, <1>15 DEF ReadTargetNames
<1>16. CASE UNCHANGED vars
  BY <1>1, <1>16 DEF vars
<1>. QED  BY <1>3, <1>4, <1>5, <1>6, <1>7, <1>8, <1>9, <1>10, <1>11, <1>12, <1>13, <1>14,
              <1>15, <1>16 DEF Next

\* A record that is emitted is meant for who emits it, one that is accepted and names
\* nobody is emitted by all that it is meant for, and under unique owners nobody else
\* declares what is emitted.
LEMMA EmitsWhatIsMeant ==
  ASSUME plan \in Seq(Components), NEW k \in DOMAIN plan, NEW record,
         RecordAccepted(plan, c, record)
  PROVE  /\ plan[k].records /\ EmitsRecord(plan, c, k, record) => MeantFor(k, record)
         /\ record.component = "" /\ MeantFor(k, record) => EmitsRecord(plan, c, k, record)
         /\ EmitsRecord(plan, c, k, record) /\ ~Broadcasts(c)
              => Declarers(plan, Canonical(plan, record.key)) = {k}
<1>. DEFINE key == Canonical(plan, record.key)
            owners == Declarers(plan, key)
<1>1. IsFiniteSet(owners) /\ Cardinality(owners) \in Nat
  <2>1. DOMAIN plan = 1..Len(plan) /\ Len(plan) \in Nat
    OBVIOUS
  <2>2. IsFiniteSet(1..Len(plan))
    BY <2>1, FS_Interval
  <2>3. owners \in SUBSET (1..Len(plan))
    BY <2>1 DEF Declarers
  <2>. QED  BY <2>2, <2>3, FS_Subset, FS_CardinalityType
<1>2. k \in owners <=> Declares(plan[k], key)
  BY DEF Declarers
<1>3. record.component = "" /\ Cardinality(owners) > 1 => Broadcasts(c)
  BY DEF RecordAccepted
<1>. HIDE DEF key, owners
<1>4. ASSUME k \in owners, ~(Cardinality(owners) > 1)
      PROVE  owners = {k}
  <2>1. Cardinality({k}) = 1 /\ IsFiniteSet({k})
    BY FS_Singleton
  <2>2. {k} \in SUBSET owners
    BY <1>4
  <2>3. Cardinality(owners) <= Cardinality({k})
    BY <1>1, <1>4, <2>1
  <2>. QED  BY <1>1, <2>1, <2>2, <2>3, FS_Subset
<1>5. EmitsRecord(plan, c, k, record)
        <=> /\ k \in owners
            /\ owners = {k} \/ Broadcasts(c)
            /\ record.component \in {"", plan[k].name}
  BY <1>2 DEF EmitsRecord, ShouldEmit, key, owners
<1>6. MeantFor(k, record)
        <=> plan[k].records /\ k \in owners /\ record.component \in {"", plan[k].name}
  BY DEF MeantFor, key, owners
<1>. QED  BY <1>3, <1>4, <1>5, <1>6 DEF key, owners

\* What a projection of an accepted plan makes is whole.
LEMMA ProjectionsWhole ==
  ASSUME plan \in Seq(Components), CompileAccepts(plan, c), NEW k \in DOMAIN plan,
         NEW projection \in ToSet(plan[k].projections), NEW record,
         Resolves(plan, input, projection, record.args)
  PROVE  ProjectedWhole(projection, record)
<1>. DEFINE slots == projection.slots
            args == record.args
            nodes == PlannedNodes(plan, input)
            made == Projected(plan, input, projection, args)
<1>1. slots \in Seq(ToSet(slots))
  <2>1. plan[k] \in Components
    OBVIOUS
  <2>. QED  BY <2>1, SlotsInSequence
<1>2. Len(slots) = ArityIn(plan, Canonical(plan, projection.output))
  BY DEF CompileAccepts, ProjectionsAccepted
<1>3. /\ made.key = Canonical(plan, projection.output)
      /\ made.args = [i \in DOMAIN slots |-> SlotValue(plan, input, slots[i], args)]
  BY DEF Projected
<1>4. Len(made.args) = ArityIn(plan, made.key) /\ DOMAIN made.args = DOMAIN slots
  <2>1. DOMAIN slots = 1..Len(slots) /\ Len(slots) \in Nat
    <3>. HIDE DEF slots
    <3>. QED  BY <1>1
  <2>. HIDE DEF slots, made
  <2>. QED  BY <1>2, <1>3, <2>1
<1>5. ASSUME NEW i \in DOMAIN slots, slots[i][1] = "node"
      PROVE  \E node \in nodes : made.args[i] = <<node.type, node.key>>
  <2>1. \E node \in nodes : node.type = slots[i][2] /\ node.key = slots[i][3]
    BY <1>5 DEF Resolves
  <2>2. made.args[i] = <<slots[i][2], slots[i][3]>>
    <3>1. made.args[i] = SlotValue(plan, input, slots[i], args)
      <4>. HIDE DEF slots, made, args
      <4>. QED  BY <1>3
    <3>2. SlotValue(plan, input, slots[i], args) = <<slots[i][2], slots[i][3]>>
      <4>. HIDE DEF slots, args
      <4>. QED  BY <1>5, ZenonT(30) DEF SlotValue
    <3>. QED  BY <3>1, <3>2
  <2>. QED  BY <2>1, <2>2
<1>6. ASSUME NEW i \in DOMAIN slots, slots[i][1] = "source_node"
      PROVE  \E node \in nodes : made.args[i] = <<node.type, node.key>>
  <2>. DEFINE fits(n) == n.type = slots[i][3] /\ n.source = args[slots[i][2]]
              found == CHOOSE n \in nodes : fits(n)
  <2>1. found \in nodes
    <3>1. \E n \in nodes : fits(n)
      BY <1>6, ZenonT(30) DEF Resolves
    <3>. HIDE DEF fits, nodes
    <3>. QED  BY <3>1
  <2>2. made.args[i] = <<found.type, found.key>>
    <3>1. made.args[i] = SlotValue(plan, input, slots[i], args)
      <4>. HIDE DEF slots, made, args
      <4>. QED  BY <1>3
    <3>2. SlotValue(plan, input, slots[i], args) = <<found.type, found.key>>
      <4>. HIDE DEF slots, args
      <4>. QED  BY <1>6 DEF SlotValue
    <3>. QED  BY <3>1, <3>2
  <2>. QED  BY <2>1, <2>2
<1>. QED  BY <1>4, <1>5, <1>6 DEF ProjectedWhole

\* What a component emits.
LEMMA EmitsOnlyItsOwn ==
  ASSUME CompositionInv, caller = "composing", compiled, GraphAccepted(plan, c, input),
         NEW k \in DOMAIN plan
  PROVE  /\ \A record : EmittedOnce(k, record)
         /\ \A record \in RecordsOf(k) : /\ RecordAccepted(plan, c, record)
                                         /\ EmitsRecord(plan, c, k, record)
<1>. DEFINE records == input.relations
            places == {n \in DOMAIN records :
                         plan[k].records /\ EmitsRecord(plan, c, k, records[n])}
            meant == {n \in DOMAIN records : MeantFor(k, records[n])}
<1>1. plan \in Seq(Components) /\ records \in Seq(RelationRecords)
  BY DEF CompositionInv
<1>2. \A n \in DOMAIN records : RecordAccepted(plan, c, records[n])
  BY DEF GraphAccepted
<1>3. EmittedBy(plan, c, input, k) = Selected(records, places)
  BY DEF EmittedBy
<1>4. \A n \in DOMAIN records : /\ n \in places => n \in meant
                                /\ records[n].component = "" /\ n \in meant => n \in places
  <2>1. ASSUME NEW n \in DOMAIN records
        PROVE  /\ plan[k].records /\ EmitsRecord(plan, c, k, records[n]) => MeantFor(k, records[n])
               /\ records[n].component = "" /\ MeantFor(k, records[n])
                    => plan[k].records /\ EmitsRecord(plan, c, k, records[n])
    <3>1. RecordAccepted(plan, c, records[n])
      BY <1>2
    <3>. QED  BY <1>1, <3>1, EmitsWhatIsMeant DEF MeantFor
  <2>. QED  BY <2>1
<1>5. places \in SUBSET DOMAIN records
  OBVIOUS
<1>6. \A record : Copies(EmittedBy(plan, c, input, k), record)
                    = Cardinality({n \in places : records[n] = record})
  BY <1>1, <1>3, <1>5, CopiesSelected
<1>7. RecordsOf(k) \in SUBSET {records[n] : n \in places}
  BY <1>1, <1>3, <1>5, CopiesSelected DEF RecordsOf
<1>8. \A n \in DOMAIN records : n \in meant <=> MeantFor(k, records[n])
  OBVIOUS
<1>9. \A n \in places : EmitsRecord(plan, c, k, records[n])
  OBVIOUS
<1>10. IsFiniteSet(DOMAIN records)
  <2>. HIDE DEF records
  <2>1. DOMAIN records = 1..Len(records) /\ Len(records) \in Nat
    BY <1>1
  <2>. QED  BY <2>1, FS_Interval
<1>. HIDE DEF places, meant
<1>11. ASSUME NEW record
       PROVE  EmittedOnce(k, record)
  <2>. DEFINE given == {n \in DOMAIN records : records[n] = record}
              sent == {n \in places : records[n] = record}
  <2>1. Copies(EmittedBy(plan, c, input, k), record) = Cardinality(sent)
    BY <1>6
  <2>2. Copies(input.relations, record) = Cardinality(given)
    BY DEF Copies
  <2>3. IsFiniteSet(given) /\ sent \in SUBSET given
    <3>1. given \in SUBSET DOMAIN records /\ sent \in SUBSET given
      BY <1>5
    <3>. QED  BY <1>10, <3>1, FS_Subset
  <2>4. Cardinality(sent) <= Cardinality(given) /\ Cardinality(given) \in Nat
    BY <2>3, FS_Subset, FS_CardinalityType
  <2>5. ~MeantFor(k, record) => sent = {}
    BY <1>4, <1>5, <1>8
  <2>6. MeantFor(k, record) /\ record.component = "" => sent = given
    BY <1>4, <1>5, <1>8
  <2>7. Cardinality({}) = 0
    BY FS_EmptySet
  <2>. HIDE DEF given, sent, records
  <2>8. CASE MeantFor(k, record)
    BY <2>1, <2>2, <2>4, <2>6, <2>8 DEF EmittedOnce
  <2>9. CASE ~MeantFor(k, record)
    <3>1. Copies(EmittedBy(plan, c, input, k), record) = 0
      BY <2>1, <2>5, <2>7, <2>9
    <3>. QED  BY <2>9, <3>1 DEF EmittedOnce
  <2>. QED  BY <2>8, <2>9
<1>. HIDE DEF records
<1>12. ASSUME NEW record \in RecordsOf(k)
       PROVE  RecordAccepted(plan, c, record) /\ EmitsRecord(plan, c, k, record)
  <2>1. PICK n \in places : record = records[n]
    BY <1>7
  <2>2. n \in DOMAIN records
    BY <1>5
  <2>. QED  BY <1>2, <1>9, <2>1, <2>2
<1>. QED  BY <1>11, <1>12

\* The invariant says where the records go.
LEMMA ComposedTells == CompositionInv => OnlyOwnersEmit
<1>. SUFFICES ASSUME CompositionInv, caller = "composing", compiled,
                     GraphAccepted(plan, c, input), NEW k \in DOMAIN plan
             PROVE  /\ \A record \in ToSet(input.relations) : EmittedOnce(k, record)
                    /\ \A record \in RecordsOf(k) : EmittedWhole(k, record)
                    /\ Broadcasts(c)
                         \/ \A m \in DOMAIN plan \ {k} : RecordsOf(k) \cap RecordsOf(m) = {}
  BY DEF OnlyOwnersEmit
<1>1. plan \in Seq(Components) /\ CompileAccepts(plan, c)
  BY DEF CompositionInv
<1>2. \A m \in DOMAIN plan : \A record \in RecordsOf(m) :
        RecordAccepted(plan, c, record) /\ EmitsRecord(plan, c, m, record)
  BY EmitsOnlyItsOwn
<1>3. ASSUME NEW record \in RecordsOf(k)
      PROVE  EmittedWhole(k, record)
  <2>1. Len(record.args) = ArityIn(plan, Canonical(plan, record.key))
    BY <1>2, <1>3 DEF RecordAccepted
  <2>2. ASSUME NEW projection \in ToSet(plan[k].projections),
               Resolves(plan, input, projection, record.args)
        PROVE  ProjectedWhole(projection, record)
    BY <1>1, <2>2, ProjectionsWhole
  <2>. QED  BY <2>1, <2>2 DEF EmittedWhole
<1>4. ASSUME ~Broadcasts(c), NEW m \in DOMAIN plan, NEW record \in RecordsOf(k),
             record \in RecordsOf(m)
      PROVE  m = k
  <2>. DEFINE owners == Declarers(plan, Canonical(plan, record.key))
  <2>1. owners = {k}
    BY <1>1, <1>2, <1>4, EmitsWhatIsMeant
  <2>2. owners = {m}
    BY <1>1, <1>2, <1>4, EmitsWhatIsMeant
  <2>. HIDE DEF owners
  <2>. QED  BY <2>1, <2>2
<1>5. \A record : EmittedOnce(k, record)
  BY EmitsOnlyItsOwn
<1>. QED  BY <1>3, <1>4, <1>5

\* Of every composition that compile accepts, a component emits only records of its
\* own, none twice, whole, and under unique owners none that another one emits; a
\* record that names nobody is emitted by all who declare it, and one that names its
\* component by nobody else (validate_composition_relations,
\* FlatRelationEmitterComponent::emit and project_into).
THEOREM OnlyOwnersAlwaysEmit == Spec => []OnlyOwnersEmit
<1>1. Init => CompositionInv
  BY InitComposed
<1>2. CompositionInv /\ [Next]_vars => CompositionInv'
  BY CompositionInvNext
<1>3. CompositionInv => OnlyOwnersEmit
  BY ComposedTells
<1>. QED  BY <1>1, <1>2, <1>3, PTL DEF Spec
-----------------------------------------------------------------------------
(***************************************************************************)
(* What a view lends is what an owned input holds.                         *)
(***************************************************************************)
\* What a pool is asked for is found there.
LEMMA FoundInPool ==
  ASSUME NEW uses, IsVector(uses), NEW x \in ToSet(uses)
  PROVE  At(PoolOf(uses), x) \in DOMAIN PoolOf(uses) /\ PoolOf(uses)[At(PoolOf(uses), x)] = x
<1>1. x \in ToSet(PoolOf(uses))
  BY PoolVector
<1>2. \E i \in DOMAIN PoolOf(uses) : PoolOf(uses)[i] = x
  BY <1>1 DEF ToSet
<1>. QED  BY <1>2 DEF At

LitsIn(literals, uses) == \A literal \in ToSet(literals) : literal.atom \in ToSet(uses)

LEMMA ReadBack ==
  ASSUME NEW uses, IsVector(uses), NEW prep, prep.atom_pool = PoolOf(uses),
         NEW literals, AreLiterals(literals), LitsIn(literals, uses)
  PROVE  Materialized(prep, References(PoolOf(uses), literals)) = literals
<1>. DEFINE refs == References(PoolOf(uses), literals)
<1>1. literals = [i \in DOMAIN literals |-> literals[i]] /\ \A i \in DOMAIN literals : literals[i] \in ToSet(literals)
  BY VectorFacts DEF AreLiterals
<1>2. DOMAIN refs = DOMAIN literals
  BY DEF References
<1>3. ASSUME NEW i \in DOMAIN literals
      PROVE  Literal(PoolOf(uses)[refs[i].atom], refs[i].positive) = literals[i]
  <2>1. IsLiteral(literals[i]) /\ literals[i].atom \in ToSet(uses)
    BY <1>1 DEF AreLiterals, LitsIn
  <2>2. refs[i].atom = At(PoolOf(uses), literals[i].atom) /\ refs[i].positive = literals[i].positive
    BY DEF References
  <2>3. PoolOf(uses)[refs[i].atom] = literals[i].atom
    BY <2>1, <2>2, FoundInPool
  <2>. QED  BY <2>1, <2>2, <2>3 DEF IsLiteral
<1>. HIDE DEF refs
<1>4. Materialized(prep, refs) = [i \in DOMAIN literals |-> literals[i]]
  BY <1>2, <1>3 DEF Materialized
<1>. QED  BY <1>1, <1>4 DEF refs

ReferenceLayers(pool, layers) ==
  [l \in DOMAIN layers |->
     [i \in DOMAIN layers[l] |->
        [literal |-> References(pool, layers[l])[i], level |-> l - 1]]]

LEMMA ReferenceRows ==
  ASSUME NEW pool, NEW layers, AreLayers(layers), NEW l \in 1..Len(layers)
  PROVE  /\ IsVector(ReferenceLayers(pool, layers)[l])
         /\ Len(ReferenceLayers(pool, layers)[l]) = Len(layers[l])
         /\ \A i \in 1..Len(layers[l]) :
              ReferenceLayers(pool, layers)[l][i] =
                [literal |-> [atom |-> At(pool, layers[l][i].atom), positive |-> layers[l][i].positive],
                 level |-> l - 1]
<1>. DEFINE row == [i \in DOMAIN layers[l] |->
                      [literal |-> References(pool, layers[l])[i], level |-> l - 1]]
<1>1. DOMAIN layers[l] = 1..Len(layers[l]) /\ Len(layers[l]) \in Nat /\ l \in DOMAIN layers
  BY LayersFacts
<1>2. ReferenceLayers(pool, layers)[l] = row
  BY <1>1 DEF ReferenceLayers
<1>3. DOMAIN row = 1..Len(layers[l]) /\ row = [i \in 1..Len(layers[l]) |-> row[i]]
  BY <1>1
<1>4. \A i \in 1..Len(layers[l]) :
        row[i] = [literal |-> [atom |-> At(pool, layers[l][i].atom), positive |-> layers[l][i].positive],
                  level |-> l - 1]
  BY <1>1 DEF References
<1>. HIDE DEF row
<1>5. IsVector(row) /\ Len(row) = Len(layers[l])
  BY <1>1, <1>3, VectorOf
<1>. QED  BY <1>2, <1>4, <1>5

ReferredAt(pool, layers, p) ==
  \E l \in 1..Len(layers) : \E i \in 1..Len(layers[l]) :
    /\ GoalReferences(pool, layers)[p] =
         [literal |-> [atom |-> At(pool, layers[l][i].atom), positive |-> layers[l][i].positive],
          level |-> l - 1]
    /\ WrittenGoals(layers)[p] = [literal |-> layers[l][i], level |-> l - 1]

LEMMA ReferredPlaces ==
  ASSUME NEW pool, NEW layers, AreLayers(layers)
  PROVE  /\ IsVector(GoalReferences(pool, layers))
         /\ Len(GoalReferences(pool, layers)) = Len(WrittenGoals(layers))
         /\ \A p \in 1..Len(GoalReferences(pool, layers)) : ReferredAt(pool, layers, p)
<1>. DEFINE n == Len(layers)
            r == ReferenceLayers(pool, layers)
            t == WrittenLayers(layers)
            T == UNION {ToSet(r[l]) : l \in 1..n}
            U == UNION {ToSet(t[l]) : l \in 1..n}
<1>1. n \in Nat /\ DOMAIN layers = 1..n
  BY LayersFacts
<1>2. /\ DOMAIN t = 1..n /\ t = [l \in 1..n |-> t[l]]
      /\ DOMAIN r = 1..n /\ r = [l \in 1..n |-> r[l]]
  BY <1>1 DEF WrittenLayers, ReferenceLayers
<1>3. \A l \in 1..n : IsVector(t[l]) /\ Len(t[l]) = Len(layers[l])
  BY WrittenRows
<1>4. ASSUME NEW l \in 1..n
      PROVE  IsVector(r[l]) /\ Len(r[l]) = Len(layers[l])
  BY ReferenceRows
<1>5. FlattenSeq(t) = WrittenGoals(layers) /\ FlattenSeq(r) = GoalReferences(pool, layers)
  BY DEF WrittenGoals, WrittenLayers, GoalReferences, ReferenceLayers
<1>. HIDE DEF n, t, r
<1>6. r \in Seq(Seq(T)) /\ Len(r) = n
  BY <1>1, <1>2, <1>4, VectorsNested
<1>7. t \in Seq(Seq(U)) /\ Len(t) = n
  BY <1>1, <1>2, <1>3, VectorsNested
<1>. HIDE DEF T, U
<1>8. Len(r) = Len(t) /\ \A l \in 1..Len(r) : Len(r[l]) = Len(t[l])
  BY <1>3, <1>4, <1>6, <1>7
<1>9. /\ Len(FlattenSeq(r)) = Len(FlattenSeq(t))
      /\ \A p \in 1..Len(FlattenSeq(r)) : AlignedAt(r, t, p)
  BY <1>6, <1>7, <1>8, AlignedFlat
<1>10. IsVector(FlattenSeq(r))
  BY <1>1, <1>2, <1>4, FlattenedVectors
<1>11. ASSUME NEW p \in 1..Len(FlattenSeq(r))
       PROVE  ReferredAt(pool, layers, p)
  <2>1. PICK l \in 1..Len(r) : \E i \in 1..Len(r[l]) :
               FlattenSeq(r)[p] = r[l][i] /\ FlattenSeq(t)[p] = t[l][i]
    BY <1>9 DEF AlignedAt
  <2>2. PICK i \in 1..Len(r[l]) :
               FlattenSeq(r)[p] = r[l][i] /\ FlattenSeq(t)[p] = t[l][i]
    BY <2>1
  <2>3. l \in 1..Len(layers) /\ i \in 1..Len(layers[l])
    BY <1>4, <1>6, <2>2 DEF n
  <2>4. t[l][i] = [literal |-> layers[l][i], level |-> l - 1]
    BY <2>3, WrittenRows DEF t
  <2>5. r[l][i] = [literal |-> [atom |-> At(pool, layers[l][i].atom), positive |-> layers[l][i].positive],
                   level |-> l - 1]
    BY <2>3, ReferenceRows DEF r
  <2>. QED  BY <1>5, <2>2, <2>3, <2>4, <2>5 DEF ReferredAt
<1>. QED  BY <1>5, <1>9, <1>10, <1>11

LEMMA ViewGoals ==
  ASSUME NEW uses, IsVector(uses), NEW layers, AreLayers(layers),
         \A l \in 1..Len(layers) : LitsIn(layers[l], uses),
         NEW prep, prep.atom_pool = PoolOf(uses), prep.goals = GoalReferences(PoolOf(uses), layers)
  PROVE  GoalsAsWritten(prep) = WrittenGoals(layers)
<1>. DEFINE pool == PoolOf(uses)
            goals == GoalReferences(pool, layers)
            written == WrittenGoals(layers)
            n == Len(goals)
            refs == [p \in DOMAIN goals |-> goals[p].literal]
            said == Materialized(prep, refs)
<1>1. IsVector(goals) /\ Len(written) = n /\ \A p \in 1..n : ReferredAt(pool, layers, p)
  BY ReferredPlaces
<1>2. IsVector(written)
  BY WrittenPlaces
<1>3. DOMAIN goals = 1..n /\ DOMAIN written = 1..n /\ written = [p \in 1..n |-> written[p]]
  BY <1>1, <1>2, VectorFacts
<1>4. ASSUME NEW p \in 1..n
      PROVE  [literal |-> Literal(pool[goals[p].literal.atom], goals[p].literal.positive),
              level |-> goals[p].level] = written[p]
  <2>1. PICK l \in 1..Len(layers) : \E i \in 1..Len(layers[l]) :
          /\ goals[p] =
               [literal |-> [atom |-> At(pool, layers[l][i].atom), positive |-> layers[l][i].positive],
                level |-> l - 1]
          /\ written[p] = [literal |-> layers[l][i], level |-> l - 1]
    BY <1>1 DEF ReferredAt
  <2>2. PICK i \in 1..Len(layers[l]) :
          /\ goals[p] =
               [literal |-> [atom |-> At(pool, layers[l][i].atom), positive |-> layers[l][i].positive],
                level |-> l - 1]
          /\ written[p] = [literal |-> layers[l][i], level |-> l - 1]
    BY <2>1
  <2>3. AreLiterals(layers[l]) /\ layers[l][i] \in ToSet(layers[l])
    BY LayersFacts DEF ToSet
  <2>4. IsLiteral(layers[l][i]) /\ layers[l][i].atom \in ToSet(uses)
    BY <2>3 DEF AreLiterals, LitsIn
  <2>5. pool[At(pool, layers[l][i].atom)] = layers[l][i].atom
    BY <2>4, FoundInPool
  <2>6. Literal(pool[At(pool, layers[l][i].atom)], layers[l][i].positive) = layers[l][i]
    BY <2>4, <2>5 DEF IsLiteral
  <2>. HIDE DEF pool, goals, written
  <2>. QED  BY <2>2, <2>6
<1>5. DOMAIN refs = 1..n
  BY <1>3
<1>6. \A p \in 1..n : said[p] = Literal(pool[goals[p].literal.atom], goals[p].literal.positive)
  BY <1>3 DEF Materialized
<1>7. GoalsAsWritten(prep) = [p \in 1..n |-> [literal |-> said[p], level |-> goals[p].level]]
  BY <1>3 DEF GoalsAsWritten
<1>. HIDE DEF goals, written, n, refs, said, pool
<1>8. \A p \in 1..n : [literal |-> said[p], level |-> goals[p].level] = written[p]
  BY <1>4, <1>6
<1>. QED  BY <1>3, <1>7, <1>8 DEF written

-----------------------------------------------------------------------------
(***************************************************************************)
(* What a reader of views finds is what the owned input has.               *)
(***************************************************************************)
LEMMA EffectiveLayersAre ==
  ASSUME NEW in, IsOwnedInput(in)
  PROVE  AreLayers(EffectiveLayers(in))
<1>1. /\ IsVector(in.layers) /\ in.layers # <<>>
      /\ \A layer \in ToSet(in.layers) : AreLiterals(layer)
      /\ AreLiterals(in.default_goals)
  BY DEF IsOwnedInput, AreLayers
<1>2. CASE ~in.use_default_goals
  BY <1>1, <1>2 DEF EffectiveLayers, AreLayers
<1>3. CASE in.use_default_goals
  <2>1. in.layers \in Seq(ToSet(in.layers))
    BY <1>1 DEF IsVector
  <2>2. Tail(in.layers) \in Seq(ToSet(in.layers))
    <3>1. \A T : \A s \in Seq(T) : s # <<>> => Tail(s) \in Seq(T)
      BY HeadTailProperties
    <3>. QED  BY <1>1, <2>1, <3>1
  <2>3. IsVector(Tail(in.layers)) /\ ToSet(Tail(in.layers)) \subseteq ToSet(in.layers)
    BY <2>2, IntoVector
  <2>4. IsVector(<<in.default_goals>>) /\ ToSet(<<in.default_goals>>) = {in.default_goals}
    BY OneVector
  <2>. DEFINE layers == <<in.default_goals>> \o Tail(in.layers)
  <2>5. /\ IsVector(layers) /\ ToSet(layers) = {in.default_goals} \cup ToSet(Tail(in.layers))
        /\ Len(layers) = Len(<<in.default_goals>>) + Len(Tail(in.layers))
    BY ONLY <2>3, <2>4, JoinedVectors
  <2>6. layers # <<>>
    <3>1. in.default_goals \in ToSet(layers)
      BY <2>5
    <3>. HIDE DEF layers
    <3>. QED  BY <3>1, EmptyVector
  <2>7. EffectiveLayers(in) = layers
    BY <1>3 DEF EffectiveLayers
  <2>. HIDE DEF layers
  <2>. QED  BY <1>1, <2>3, <2>5, <2>6, <2>7 DEF AreLayers
<1>. QED  BY <1>2, <1>3

LEMMA AtomsVector ==
  ASSUME NEW literals, IsVector(literals)
  PROVE  /\ IsVector(AtomsOf(literals))
         /\ \A literal \in ToSet(literals) : literal.atom \in ToSet(AtomsOf(literals))
<1>1. DOMAIN literals = 1..Len(literals) /\ Len(literals) \in Nat
  BY VectorFacts
<1>2. /\ DOMAIN AtomsOf(literals) = 1..Len(literals)
      /\ AtomsOf(literals) = [i \in 1..Len(literals) |-> AtomsOf(literals)[i]]
      /\ \A i \in 1..Len(literals) : AtomsOf(literals)[i] = literals[i].atom
  BY <1>1 DEF AtomsOf
<1>3. IsVector(AtomsOf(literals))
  BY ONLY <1>1, <1>2, VectorOf
<1>. QED  BY <1>1, <1>2, <1>3 DEF ToSet

\* Preparation meets every atom that the lanes refer to.
LEMMA UsesAre ==
  ASSUME NEW layers, AreLayers(layers), NEW read, IsHistory(read)
  PROVE  /\ IsVector(AtomUses(layers, read))
         /\ \A l \in 1..Len(layers) : LitsIn(layers[l], AtomUses(layers, read))
         /\ \A entry \in ToSet(read) : LitsIn(entry.literals, AtomUses(layers, read))
<1>. DEFINE all == FlattenSeq(layers)
            n == Len(read)
            parts == [i \in DOMAIN read |-> AtomsOf(read[i].literals)]
<1>1. IsVector(all)
  BY WrittenPlaces
<1>2. IsVector(AtomsOf(all)) /\ \A literal \in ToSet(all) : literal.atom \in ToSet(AtomsOf(all))
  BY <1>1, AtomsVector
<1>3. /\ Len(layers) \in Nat /\ DOMAIN layers = 1..Len(layers)
      /\ layers = [l \in 1..Len(layers) |-> layers[l]]
      /\ \A l \in 1..Len(layers) : IsVector(layers[l])
  BY LayersFacts
<1>4. ToSet(all) = UNION {ToSet(layers[l]) : l \in 1..Len(layers)}
  BY ONLY <1>3, FlattenedVectors
<1>5. n \in Nat /\ DOMAIN read = 1..n /\ \A i \in 1..n : read[i] \in ToSet(read)
  BY VectorFacts DEF IsHistory
<1>6. DOMAIN parts = 1..n /\ parts = [i \in 1..n |-> parts[i]]
  BY <1>5
<1>7. \A i \in 1..n : parts[i] = AtomsOf(read[i].literals)
  BY <1>5
<1>8. \A i \in 1..n : IsVector(read[i].literals)
  BY <1>5 DEF IsHistory, IsEntry, AreLiterals
<1>. HIDE DEF parts, n, all
<1>9. \A i \in 1..n : IsVector(parts[i])
  BY <1>7, <1>8, AtomsVector
<1>10. /\ IsVector(FlattenSeq(parts))
       /\ ToSet(FlattenSeq(parts)) = UNION {ToSet(parts[i]) : i \in 1..n}
  BY ONLY <1>5, <1>6, <1>9, FlattenedVectors
<1>11. AtomUses(layers, read) = AtomsOf(all) \o FlattenSeq(parts)
  BY DEF AtomUses, all, parts
<1>12. /\ IsVector(AtomsOf(all) \o FlattenSeq(parts))
       /\ ToSet(AtomsOf(all) \o FlattenSeq(parts)) = ToSet(AtomsOf(all)) \cup ToSet(FlattenSeq(parts))
  BY ONLY <1>2, <1>10, JoinedVectors
<1>13. ASSUME NEW l \in 1..Len(layers)
       PROVE  LitsIn(layers[l], AtomUses(layers, read))
  <2>1. ToSet(layers[l]) \subseteq ToSet(all)
    BY <1>4
  <2>. QED  BY <1>2, <1>11, <1>12, <2>1 DEF LitsIn
<1>14. ASSUME NEW entry \in ToSet(read)
       PROVE  LitsIn(entry.literals, AtomUses(layers, read))
  <2>1. PICK i \in 1..n : read[i] = entry
    BY <1>5 DEF ToSet
  <2>2. \A literal \in ToSet(entry.literals) : literal.atom \in ToSet(parts[i])
    BY <1>7, <1>8, <2>1, AtomsVector
  <2>3. ToSet(parts[i]) \subseteq ToSet(FlattenSeq(parts))
    BY <1>10
  <2>. QED  BY <1>11, <1>12, <2>2, <2>3 DEF LitsIn
<1>. QED  BY <1>11, <1>12, <1>13, <1>14

\* Occurrences of actions lead to the actions.
LEMMA ActionsBack ==
  ASSUME NEW actions, IsVector(actions), NEW occurrences,
         occurrences = [i \in DOMAIN actions |-> At(PoolOf(actions), actions[i])]
  PROVE  [i \in DOMAIN occurrences |-> PoolOf(actions)[occurrences[i]]] = actions
<1>1. DOMAIN occurrences = DOMAIN actions
  OBVIOUS
<1>2. ASSUME NEW i \in DOMAIN actions
      PROVE  PoolOf(actions)[occurrences[i]] = actions[i]
  <2>1. actions[i] \in ToSet(actions)
    BY VectorFacts
  <2>. QED  BY <2>1, FoundInPool
<1>3. DOMAIN actions = 1..Len(actions) /\ actions = [i \in 1..Len(actions) |-> actions[i]]
  BY VectorFacts
<1>4. actions = [i \in DOMAIN actions |-> actions[i]]
  BY <1>3
<1>. HIDE DEF PoolOf
<1>. QED  BY <1>1, <1>2, <1>4

LEMMA HistoryBack ==
  ASSUME NEW uses, IsVector(uses), NEW prep, prep.atom_pool = PoolOf(uses),
         NEW recent, IsHistory(recent),
         \A entry \in ToSet(recent) : LitsIn(entry.literals, uses),
         prep.history = HistoryReferences(PoolOf(uses), recent)
  PROVE  [i \in DOMAIN prep.history |->
            [dt       |-> prep.history[i].dt,
             literals |-> Materialized(prep, prep.history[i].literals)]] = recent
<1>. DEFINE refs == HistoryReferences(PoolOf(uses), recent)
            back == [i \in DOMAIN refs |->
                       [dt |-> refs[i].dt, literals |-> Materialized(prep, refs[i].literals)]]
<1>1. DOMAIN refs = DOMAIN recent
  BY DEF HistoryReferences
<1>2. ASSUME NEW i \in DOMAIN recent
      PROVE  [dt |-> refs[i].dt, literals |-> Materialized(prep, refs[i].literals)] = recent[i]
  <2>1. refs[i].dt = recent[i].dt /\ refs[i].literals = References(PoolOf(uses), recent[i].literals)
    BY DEF HistoryReferences
  <2>2. recent[i] \in ToSet(recent)
    BY VectorFacts DEF IsHistory
  <2>3. AreLiterals(recent[i].literals) /\ LitsIn(recent[i].literals, uses)
    BY <2>2 DEF IsHistory, IsEntry
  <2>4. recent[i] = [dt |-> recent[i].dt, literals |-> recent[i].literals]
    BY <2>2 DEF IsHistory, IsEntry
  <2>5. Materialized(prep, References(PoolOf(uses), recent[i].literals)) = recent[i].literals
    BY <2>3, ReadBack
  <2>. QED  BY <2>1, <2>4, <2>5
<1>3. recent = [i \in DOMAIN recent |-> recent[i]]
  BY VectorFacts DEF IsHistory
<1>. HIDE DEF refs
<1>4. back = recent
  BY <1>1, <1>2, <1>3
<1>. QED  BY <1>4 DEF refs

\* The lanes of views: those of the owned input, with the history in order.
InOrderLanes(in) ==
  [OwnedLanes(in) EXCEPT !.history   = OrderedHistory(in.history, in.max_steps),
                         !.max_steps = Unlimited]

LEMMA PreparationIs ==
  ASSUME NEW in, IsOwnedInput(in)
  PROVE  LET prep   == Preparation(in)
             layers == EffectiveLayers(in)
             pool   == PoolOf(AtomUses(layers, NearEntries(in.history, in.max_steps)))
         IN  /\ prep.objects = in.objects /\ prep.static = in.static /\ prep.facts = in.facts
             /\ prep.atom_pool = pool /\ prep.goals = GoalReferences(pool, layers)
             /\ prep.layers = Len(layers) - 1
             /\ prep.action_pool = PoolOf(in.actions)
             /\ prep.occurrences
                  = [i \in DOMAIN in.actions |-> At(PoolOf(in.actions), in.actions[i])]
             /\ prep.history
                  = HistoryReferences(pool, OrderedHistory(in.history, in.max_steps))
BY DEF Preparation, PreparationOf

LEMMA ViewParts ==
  ASSUME NEW in, IsOwnedInput(in)
  PROVE  LET prep == Preparation(in)
         IN  /\ GoalsAsWritten(prep) = WrittenGoals(EffectiveLayers(in))
             /\ [i \in DOMAIN prep.occurrences |-> prep.action_pool[prep.occurrences[i]]]
                  = in.actions
             /\ [i \in DOMAIN prep.history |->
                   [dt       |-> prep.history[i].dt,
                    literals |-> Materialized(prep, prep.history[i].literals)]]
                  = OrderedHistory(in.history, in.max_steps)
<1>. DEFINE prep   == Preparation(in)
            layers == EffectiveLayers(in)
            near   == NearEntries(in.history, in.max_steps)
            uses   == AtomUses(layers, near)
            recent == OrderedHistory(in.history, in.max_steps)
<1>1. /\ prep.atom_pool = PoolOf(uses) /\ prep.goals = GoalReferences(PoolOf(uses), layers)
      /\ prep.action_pool = PoolOf(in.actions)
      /\ prep.occurrences = [i \in DOMAIN in.actions |-> At(PoolOf(in.actions), in.actions[i])]
      /\ prep.history = HistoryReferences(PoolOf(uses), recent)
  BY PreparationIs
<1>2. AreLayers(layers)
  BY EffectiveLayersAre
<1>3. IsHistory(near) /\ IsHistory(recent) /\ ToSet(recent) = ToSet(near)
  <2>1. IsHistory(in.history)
    BY DEF IsOwnedInput
  <2>. QED  BY <2>1, NearVector, OrderedOnce
<1>4. IsVector(in.actions)
  BY DEF IsOwnedInput, AreActions
<1>. HIDE DEF prep, layers, near, recent
<1>5. /\ IsVector(uses)
      /\ \A l \in 1..Len(layers) : LitsIn(layers[l], uses)
      /\ \A entry \in ToSet(near) : LitsIn(entry.literals, uses)
  BY <1>2, <1>3, UsesAre
<1>. HIDE DEF uses
<1>6. GoalsAsWritten(prep) = WrittenGoals(layers)
  BY ONLY <1>1, <1>2, <1>5, ViewGoals
<1>7. [i \in DOMAIN prep.occurrences |-> prep.action_pool[prep.occurrences[i]]] = in.actions
  <2>. DEFINE occurrences == prep.occurrences
              actions == in.actions
  <2>1. IsVector(actions) /\ occurrences = [i \in DOMAIN actions |-> At(PoolOf(actions), actions[i])]
    BY <1>1, <1>4
  <2>. HIDE DEF occurrences, actions
  <2>2. [i \in DOMAIN occurrences |-> PoolOf(actions)[occurrences[i]]] = actions
    BY ONLY <2>1, ActionsBack
  <2>. QED  BY <1>1, <2>2 DEF occurrences, actions
<1>8. [i \in DOMAIN prep.history |->
         [dt       |-> prep.history[i].dt,
          literals |-> Materialized(prep, prep.history[i].literals)]] = recent
  <2>1. prep.atom_pool = PoolOf(uses) /\ prep.history = HistoryReferences(PoolOf(uses), recent)
    BY <1>1
  <2>2. \A entry \in ToSet(recent) : LitsIn(entry.literals, uses)
    BY <1>3, <1>5
  <2>3. IsVector(uses) /\ IsHistory(recent)
    BY <1>3, <1>5
  <2>. QED  BY ONLY <2>1, <2>2, <2>3, HistoryBack
<1>. QED  BY <1>6, <1>7, <1>8 DEF prep, layers, recent

LEMMA InOrderLanesAre ==
  ASSUME NEW in
  PROVE  InOrderLanes(in) =
           [objects   |-> in.objects,
            static    |-> in.static,
            facts     |-> in.facts,
            goals     |-> PreparedGoals(EffectiveLayers(in)),
            layers    |-> Len(EffectiveLayers(in)) - 1,
            actions   |-> in.actions,
            history   |-> OrderedHistory(in.history, in.max_steps),
            max_steps |-> Unlimited]
<1>. DEFINE names == {"objects", "static", "facts", "goals", "layers", "actions", "history",
                      "max_steps"}
            goals  == PreparedGoals(EffectiveLayers(in))
            levels == Len(EffectiveLayers(in)) - 1
            recent == OrderedHistory(in.history, in.max_steps)
            owned  == OwnedLanes(in)
            x == [owned EXCEPT !.history = recent, !.max_steps = Unlimited]
            y == [objects   |-> in.objects,
                  static    |-> in.static,
                  facts     |-> in.facts,
                  goals     |-> goals,
                  layers    |-> levels,
                  actions   |-> in.actions,
                  history   |-> recent,
                  max_steps |-> Unlimited]
<1>1. /\ owned.objects = in.objects /\ owned.static = in.static /\ owned.facts = in.facts
      /\ owned.goals = goals /\ owned.layers = levels /\ owned.actions = in.actions
  BY DEF OwnedLanes
<1>2. DOMAIN owned = names
  BY DEF OwnedLanes
<1>. HIDE DEF goals, levels, recent, owned
<1>3. /\ y.objects = in.objects /\ y.static = in.static /\ y.facts = in.facts
      /\ y.goals = goals /\ y.layers = levels /\ y.actions = in.actions
      /\ y.history = recent /\ y.max_steps = Unlimited
  OBVIOUS
<1>4. DOMAIN y = names /\ y = [k \in names |-> y[k]]
  OBVIOUS
<1>. HIDE DEF y
<1>5. /\ DOMAIN x = names /\ x = [k \in names |-> x[k]]
      /\ x.history = recent /\ x.max_steps = Unlimited
      /\ \A k \in names : k # "history" /\ k # "max_steps" => x[k] = owned[k]
  BY <1>2
<1>6. \A k \in names : x[k] = y[k]
  <2>. HIDE DEF x
  <2>1. x.history = y.history /\ x.max_steps = y.max_steps
    BY <1>3, <1>5
  <2>2. /\ x.objects = owned.objects /\ x.static = owned.static /\ x.facts = owned.facts
        /\ x.goals = owned.goals /\ x.layers = owned.layers /\ x.actions = owned.actions
    BY <1>5
  <2>3. /\ x.objects = y.objects /\ x.static = y.static /\ x.facts = y.facts
        /\ x.goals = y.goals /\ x.layers = y.layers /\ x.actions = y.actions
    BY <1>1, <1>3, <2>2
  <2>. QED  BY <2>1, <2>3
<1>7. InOrderLanes(in) = x
  BY DEF InOrderLanes, owned, recent
<1>. HIDE DEF x
<1>8. x = y
  BY <1>4, <1>5, <1>6
<1>. QED  BY <1>7, <1>8 DEF y, goals, levels, recent

LEMMA ViewLanesAre ==
  ASSUME NEW in, IsOwnedInput(in)
  PROVE  ViewLanes(Preparation(in)) = InOrderLanes(in)
<1>. DEFINE prep   == Preparation(in)
            layers == EffectiveLayers(in)
            y == [objects   |-> in.objects,
                  static    |-> in.static,
                  facts     |-> in.facts,
                  goals     |-> PreparedGoals(layers),
                  layers    |-> Len(layers) - 1,
                  actions   |-> in.actions,
                  history   |-> OrderedHistory(in.history, in.max_steps),
                  max_steps |-> Unlimited]
<1>1. /\ prep.objects = in.objects /\ prep.static = in.static /\ prep.facts = in.facts
      /\ prep.layers = Len(layers) - 1
  BY PreparationIs
<1>2. /\ GoalsAsWritten(prep) = WrittenGoals(layers)
      /\ [i \in DOMAIN prep.occurrences |-> prep.action_pool[prep.occurrences[i]]] = in.actions
      /\ [i \in DOMAIN prep.history |->
            [dt       |-> prep.history[i].dt,
             literals |-> Materialized(prep, prep.history[i].literals)]]
           = OrderedHistory(in.history, in.max_steps)
  BY ViewParts
<1>3. HighestLevels(WrittenGoals(layers)) = PreparedGoals(layers)
  <2>1. AreLayers(layers)
    BY EffectiveLayersAre
  <2>. QED  BY <2>1, HighestAgree
<1>4. InOrderLanes(in) = y
  BY InOrderLanesAre DEF y
<1>. HIDE DEF prep, layers
<1>5. ViewLanes(prep) =
        [objects   |-> prep.objects,
         static    |-> prep.static,
         facts     |-> prep.facts,
         goals     |-> HighestLevels(GoalsAsWritten(prep)),
         layers    |-> prep.layers,
         actions   |-> [i \in DOMAIN prep.occurrences |-> prep.action_pool[prep.occurrences[i]]],
         history   |-> [i \in DOMAIN prep.history |->
                          [dt       |-> prep.history[i].dt,
                           literals |-> Materialized(prep, prep.history[i].literals)]],
         max_steps |-> Unlimited]
  BY DEF ViewLanes
<1>. QED  BY <1>1, <1>2, <1>3, <1>4, <1>5 DEF prep

LEMMA ViewOccurrencesAre ==
  ASSUME NEW in, IsOwnedInput(in)
  PROVE  ViewOccurrences(Preparation(in))
           = [InOrderLanes(in) EXCEPT !.goals = WrittenGoals(EffectiveLayers(in))]
<1>1. GoalsAsWritten(Preparation(in)) = WrittenGoals(EffectiveLayers(in))
  BY ViewParts
<1>. QED  BY <1>1, ViewLanesAre DEF ViewOccurrences

-----------------------------------------------------------------------------
(***************************************************************************)
(* Lanes that encoders cannot tell apart, but for the order of the goals.  *)
(***************************************************************************)
RecentOf(lanes) == OrderedHistory(lanes.history, lanes.max_steps)

SameState(one, other) ==
  /\ one.objects = other.objects /\ one.static = other.static /\ one.facts = other.facts
  /\ one.layers = other.layers /\ one.actions = other.actions
  /\ RecentOf(one) = RecentOf(other)

SameLanes(one, other) == SameState(one, other) /\ one.goals = other.goals

\* The history that a session can have: of the past, and of atoms of the domain.
PastIsValid(in) ==
  \A entry \in ToSet(in.history) :
    /\ entry.dt < 0
    /\ \A literal \in ToSet(entry.literals) : ValidAtom(in, literal.atom)

LEMMA OwnedAgainstViewed ==
  ASSUME NEW in, IsOwnedInput(in)
  PROVE  SameLanes(OwnedLanes(in), InOrderLanes(in))
<1>. DEFINE recent == OrderedHistory(in.history, in.max_steps)
<1>1. IsHistory(in.history)
  BY DEF IsOwnedInput
<1>2. OrderedHistory(recent, Unlimited) = recent
  BY <1>1, OrderedOnce
<1>. HIDE DEF recent
<1>3. RecentOf(OwnedLanes(in)) = recent
  BY DEF RecentOf, OwnedLanes, recent
<1>4. InOrderLanes(in).history = recent /\ InOrderLanes(in).max_steps = Unlimited
  BY InOrderLanesAre DEF recent
<1>5. RecentOf(InOrderLanes(in)) = recent
  BY <1>2, <1>4 DEF RecentOf
<1>6. /\ InOrderLanes(in).objects = in.objects /\ InOrderLanes(in).static = in.static
      /\ InOrderLanes(in).facts = in.facts
      /\ InOrderLanes(in).layers = Len(EffectiveLayers(in)) - 1
      /\ InOrderLanes(in).actions = in.actions
      /\ InOrderLanes(in).goals = PreparedGoals(EffectiveLayers(in))
  BY InOrderLanesAre
<1>7. /\ OwnedLanes(in).objects = in.objects /\ OwnedLanes(in).static = in.static
      /\ OwnedLanes(in).facts = in.facts
      /\ OwnedLanes(in).layers = Len(EffectiveLayers(in)) - 1
      /\ OwnedLanes(in).actions = in.actions
      /\ OwnedLanes(in).goals = PreparedGoals(EffectiveLayers(in))
  BY DEF OwnedLanes
<1>. QED  BY <1>3, <1>5, <1>6, <1>7 DEF SameLanes, SameState

LEMMA EntriesAgree ==
  ASSUME NEW config, NEW one, NEW other, SameLanes(one, other)
  PROVE  /\ HeteroEntries(config, one) = HeteroEntries(config, other)
         /\ LganAnchors(config, one) = LganAnchors(config, other)
         /\ HeteroEncode(config, one) = HeteroEncode(config, other)
<1>1. /\ one.static = other.static /\ one.facts = other.facts /\ one.goals = other.goals
      /\ one.actions = other.actions
      /\ OrderedHistory(one.history, one.max_steps) = OrderedHistory(other.history, other.max_steps)
  BY DEF SameLanes, SameState, RecentOf
<1>2. FactEntries(config, one) = FactEntries(config, other)
  BY <1>1 DEF FactEntries, StateFacts
<1>3. HeteroEntries(config, one) = HeteroEntries(config, other)
  BY <1>1, <1>2 DEF HeteroEntries
<1>4. LganAnchors(config, one) = LganAnchors(config, other)
  BY <1>1 DEF LganAnchors
<1>5. HeteroTargets(config, one) = HeteroTargets(config, other)
  BY <1>1 DEF HeteroTargets
<1>. QED  BY <1>1, <1>3, <1>4, <1>5 DEF HeteroEncode

LEMMA TuplesAgree ==
  ASSUME NEW config, NEW one, NEW other, SameLanes(one, other)
  PROVE  /\ TargetEntities(config, one) = TargetEntities(config, other)
         /\ FlatEncode(config, one) = FlatEncode(config, other)
<1>1. /\ one.objects = other.objects
      /\ one.static = other.static /\ one.facts = other.facts /\ one.goals = other.goals
      /\ one.actions = other.actions
      /\ RecentHistory(one) = RecentHistory(other)
  BY DEF SameLanes, SameState, RecentOf, RecentHistory
<1>2. SaidLiterals(config, one) = SaidLiterals(config, other)
  BY <1>1 DEF SaidLiterals
<1>3. GoalRows(config, one) = GoalRows(config, other)
  BY <1>1 DEF GoalRows, AnchoredGoals
<1>4. ActionRows(one) = ActionRows(other)
  BY <1>1 DEF ActionRows
<1>5. TargetEntities(config, one) = TargetEntities(config, other)
  BY <1>2, <1>3, <1>4 DEF TargetEntities
<1>6. ConsideredGoals(config, one) = ConsideredGoals(config, other)
  BY <1>1 DEF ConsideredGoals
<1>7. Membership(one) = Membership(other)
  BY <1>1 DEF Membership
<1>8. EmittedGoals(config, one) = EmittedGoals(config, other)
  BY <1>6, <1>7 DEF EmittedGoals
<1>9. PredicateUses(config, one) = PredicateUses(config, other)
  BY <1>1, <1>2, <1>8 DEF PredicateUses, FactPredicates
<1>10. Entities(config, one) = Entities(config, other)
  BY <1>1, <1>2, <1>3, <1>4, <1>9 DEF Entities
<1>11. GoalTuples(config, one) = GoalTuples(config, other)
  BY <1>6, <1>7 DEF GoalTuples
<1>12. ActionTuples(one) = ActionTuples(other)
  BY <1>1 DEF ActionTuples
<1>13. FlatTuples(config, one) = FlatTuples(config, other)
  BY <1>1, <1>2, <1>11, <1>12 DEF FlatTuples
<1>14. FlatTargets(config, one) = FlatTargets(config, other)
  BY <1>2, <1>3, <1>4 DEF FlatTargets
<1>. QED  BY <1>5, <1>10, <1>13, <1>14 DEF FlatEncode

\* Entries beyond max_steps are not handed over by views: they must be valid where
\* the owned input is checked.
LEMMA ValidityAgrees ==
  ASSUME NEW in, IsOwnedInput(in), PastIsValid(in)
  PROVE  ValidLanes(OwnedLanes(in)) <=> ValidLanes(InOrderLanes(in))
<1>. DEFINE one == OwnedLanes(in)
            other == InOrderLanes(in)
            recent == OrderedHistory(in.history, in.max_steps)
<1>1. SameLanes(one, other)
  BY OwnedAgainstViewed
<1>2. one.history = in.history /\ one.objects = in.objects
  BY DEF OwnedLanes
<1>3. other.history = recent /\ other.objects = in.objects
  BY InOrderLanesAre
<1>4. IsHistory(in.history) /\ IsHistory(recent) /\ ToSet(recent) \subseteq ToSet(in.history)
  <2>1. IsHistory(in.history)
    BY DEF IsOwnedInput
  <2>. QED  BY <2>1, OrderedOnce
<1>. HIDE DEF one, other, recent
<1>5. \A atom : /\ ValidAtom(one, atom) <=> ValidAtom(in, atom)
                /\ ValidAtom(other, atom) <=> ValidAtom(in, atom)
  BY <1>2, <1>3 DEF ValidAtom
<1>6. \A action : ValidAction(one, action) <=> ValidAction(other, action)
  BY <1>2, <1>3 DEF ValidAction
<1>. DEFINE PastOf(lanes, history) ==
              \A i \in DOMAIN history :
                /\ history[i].dt < 0
                /\ \A k \in DOMAIN history[i].literals :
                     ValidAtom(lanes, history[i].literals[k].atom)
<1>7. ASSUME NEW history, ToSet(history) \subseteq ToSet(in.history), NEW lanes,
             \A atom : ValidAtom(lanes, atom) <=> ValidAtom(in, atom)
      PROVE  PastOf(lanes, history)
  <2>1. SUFFICES ASSUME NEW i \in DOMAIN history
                 PROVE  /\ history[i].dt < 0
                        /\ \A k \in DOMAIN history[i].literals :
                             ValidAtom(lanes, history[i].literals[k].atom)
    OBVIOUS
  <2>2. history[i] \in ToSet(in.history)
    BY <1>7 DEF ToSet
  <2>3. /\ history[i].dt < 0
        /\ \A literal \in ToSet(history[i].literals) : ValidAtom(in, literal.atom)
    BY <2>2 DEF PastIsValid
  <2>4. \A k \in DOMAIN history[i].literals :
          history[i].literals[k] \in ToSet(history[i].literals)
    BY DEF ToSet
  <2>. QED  BY <1>7, <2>3, <2>4
<1>8. PastOf(one, one.history) /\ PastOf(other, other.history)
  BY <1>2, <1>3, <1>4, <1>5, <1>7
<1>9. one.facts = other.facts /\ one.static = other.static /\ one.goals = other.goals
      /\ one.actions = other.actions
  BY <1>1 DEF SameLanes, SameState
<1>10. ValidLanes(one) <=> ValidLanes(other)
  BY <1>5, <1>6, <1>8, <1>9 DEF ValidLanes
<1>. QED  BY <1>10 DEF one, other

LEMMA RefusalsAgree ==
  ASSUME NEW in, IsOwnedInput(in), PastIsValid(in), NEW config, NEW declared
  PROVE  /\ HeteroRefused(config, declared, OwnedLanes(in))
              <=> HeteroRefused(config, declared, InOrderLanes(in))
         /\ FlatRefused(config, OwnedLanes(in)) <=> FlatRefused(config, InOrderLanes(in))
<1>. DEFINE one == OwnedLanes(in)
            other == InOrderLanes(in)
<1>1. SameLanes(one, other) /\ (ValidLanes(one) <=> ValidLanes(other))
  BY OwnedAgainstViewed, ValidityAgrees
<1>. HIDE DEF one, other
<1>2. one.layers = other.layers
  BY <1>1 DEF SameLanes, SameState
<1>3. InputRefused(config, one) <=> InputRefused(config, other)
  BY <1>1, <1>2 DEF InputRefused
<1>4. /\ HeteroEntries(config, one) = HeteroEntries(config, other)
      /\ LganAnchors(config, one) = LganAnchors(config, other)
      /\ TargetEntities(config, one) = TargetEntities(config, other)
  BY <1>1, EntriesAgree, TuplesAgree
<1>5. HeteroRefused(config, declared, one) <=> HeteroRefused(config, declared, other)
  BY <1>3, <1>4 DEF HeteroRefused
<1>6. FlatRefused(config, one) <=> FlatRefused(config, other)
  BY <1>1, <1>2, <1>4 DEF FlatRefused
<1>. QED  BY <1>5, <1>6 DEF one, other

LEMMA PlainOutcomesAgree ==
  ASSUME NEW in, IsOwnedInput(in), PastIsValid(in)
  PROVE  /\ HeteroOutcome(OwnedLanes(in)) = HeteroOutcome(ViewLanes(Preparation(in)))
         /\ FlatOutcome(OwnedLanes(in)) = FlatOutcome(ViewLanes(Preparation(in)))
<1>. DEFINE one == OwnedLanes(in)
            other == InOrderLanes(in)
<1>1. SameLanes(one, other)
  BY OwnedAgainstViewed
<1>2. /\ HeteroRefused(c, arities, one) <=> HeteroRefused(c, arities, other)
      /\ FlatRefused(c, one) <=> FlatRefused(c, other)
  BY RefusalsAgree
<1>3. ViewLanes(Preparation(in)) = other
  BY ViewLanesAre
<1>. HIDE DEF one, other
<1>4. HeteroEncode(c, one) = HeteroEncode(c, other) /\ FlatEncode(c, one) = FlatEncode(c, other)
  BY <1>1, EntriesAgree, TuplesAgree
<1>5. HeteroOutcome(one) = HeteroOutcome(other) /\ FlatOutcome(one) = FlatOutcome(other)
  BY <1>2, <1>4 DEF HeteroOutcome, FlatOutcome
<1>. QED  BY <1>3, <1>5 DEF one

\* Of a successor only the facts are read.
LEMMA SuccessorFacts ==
  ASSUME NEW in
  PROVE  ViewLanes(StatePreparation(in)).facts = in.facts
<1>. DEFINE cut == [in EXCEPT !.use_default_goals = FALSE, !.layers = <<<<>>>>,
                              !.actions = <<>>, !.history = <<>>]
<1>1. cut.facts = in.facts
  OBVIOUS
<1>2. StatePreparation(in) = Preparation(cut)
  BY DEF StatePreparation
<1>. HIDE DEF cut
<1>3. Preparation(cut).facts = cut.facts
  BY DEF Preparation, PreparationOf
<1>4. \A prep : ViewLanes(prep).facts = prep.facts
  BY DEF ViewLanes
<1>. QED  BY <1>1, <1>2, <1>3, <1>4

LEMMA SuccessorsAgree ==
  ASSUME NEW in, IsOwnedInput(in), NEW after
  PROVE  SuccessorOutcome(OwnedLanes(in), OwnedLanes(after))
           = SuccessorOutcome(ViewLanes(Preparation(in)), ViewLanes(StatePreparation(after)))
<1>. DEFINE one == OwnedLanes(in)
            other == InOrderLanes(in)
            config == SuccessorConfig(c)
            first == OwnedLanes(after)
            second == ViewLanes(StatePreparation(after))
<1>1. SameLanes(one, other)
  BY OwnedAgainstViewed
<1>2. ViewLanes(Preparation(in)) = other
  BY ViewLanesAre
<1>3. first.facts = second.facts
  BY SuccessorFacts DEF OwnedLanes
<1>. HIDE DEF one, other, config, first, second
<1>4. /\ one.static = other.static /\ one.facts = other.facts /\ one.goals = other.goals
      /\ one.actions = other.actions
      /\ OrderedHistory(one.history, one.max_steps) = OrderedHistory(other.history, other.max_steps)
  BY <1>1 DEF SameLanes, SameState, RecentOf
<1>5. FactEntries(config, one) = FactEntries(config, other)
  BY <1>4 DEF FactEntries, StateFacts
<1>6. SuccessorEntriesOf(config, one, first, Suffix) = SuccessorEntriesOf(config, other, second, Suffix)
  BY <1>3, <1>4, <1>5 DEF SuccessorEntriesOf
<1>7. SuccessorOutcome(one, first) = SuccessorOutcome(other, second)
  BY <1>6 DEF SuccessorOutcome, config
<1>. QED  BY <1>2, <1>7 DEF one, first, second

(***************************************************************************)
(* Occurrences: goals as often as they are given, sorted or as written.    *)
(***************************************************************************)
LEMMA OccurrencesDiffer ==
  ASSUME NEW in, IsOwnedInput(in)
  PROVE  LET one   == OwnedOccurrences(in)
             other == ViewOccurrences(Preparation(in))
         IN  /\ SameState(one, other)
             /\ IsVector(other.goals) /\ one.goals = SortedGoals(other.goals)
             /\ other.goals = WrittenGoals(EffectiveLayers(in))
             /\ RecentOf(one) = OrderedHistory(in.history, in.max_steps)
             /\ one.objects = in.objects /\ one.static = in.static /\ one.facts = in.facts
             /\ one.actions = in.actions
<1>. DEFINE one   == OwnedOccurrences(in)
            other == ViewOccurrences(Preparation(in))
            x == OwnedLanes(in)
            y == InOrderLanes(in)
            goals == WrittenGoals(EffectiveLayers(in))
            sorted == SortedGoals(goals)
<1>1. SameLanes(x, y)
  BY OwnedAgainstViewed
<1>2. "goals" \in DOMAIN x /\ "goals" \in DOMAIN y
  <2>1. "goals" \in DOMAIN x
    BY DEF OwnedLanes
  <2>2. "goals" \in DOMAIN y
    BY <2>1 DEF InOrderLanes
  <2>. QED  BY <2>1, <2>2
<1>3. one = [x EXCEPT !.goals = sorted]
  BY DEF OwnedOccurrences
<1>4. other = [y EXCEPT !.goals = goals]
  BY ViewOccurrencesAre
<1>5. /\ x.history = in.history /\ x.max_steps = in.max_steps
      /\ x.objects = in.objects /\ x.static = in.static /\ x.facts = in.facts
      /\ x.actions = in.actions
  BY DEF OwnedLanes
<1>6. AreLayers(EffectiveLayers(in))
  BY EffectiveLayersAre
<1>7. IsVector(goals)
  BY <1>6, WrittenPlaces
<1>. HIDE DEF one, other, x, y, goals
<1>8. /\ one.goals = sorted /\ other.goals = goals
      /\ one.objects = x.objects /\ one.static = x.static /\ one.facts = x.facts
      /\ one.layers = x.layers /\ one.actions = x.actions
      /\ one.history = x.history /\ one.max_steps = x.max_steps
  BY <1>2, <1>3, <1>4
<1>9. /\ other.objects = y.objects /\ other.static = y.static /\ other.facts = y.facts
      /\ other.layers = y.layers /\ other.actions = y.actions
      /\ other.history = y.history /\ other.max_steps = y.max_steps
  BY <1>2, <1>4
<1>10. RecentOf(one) = RecentOf(x) /\ RecentOf(other) = RecentOf(y)
  BY <1>8, <1>9 DEF RecentOf
<1>11. RecentOf(one) = OrderedHistory(in.history, in.max_steps)
  BY <1>5, <1>10 DEF RecentOf
<1>12. SameState(one, other)
  BY <1>1, <1>8, <1>9, <1>10 DEF SameLanes, SameState
<1>. QED  BY <1>5, <1>7, <1>8, <1>11, <1>12 DEF one, other, goals

LEMMA ColorOutcomesAgree ==
  ASSUME NEW in, IsOwnedInput(in)
  PROVE  ColorOutcome(OwnedOccurrences(in)) = ColorOutcome(ViewOccurrences(Preparation(in)))
<1>. DEFINE one   == OwnedOccurrences(in)
            other == ViewOccurrences(Preparation(in))
<1>1. SameState(one, other) /\ IsVector(other.goals) /\ one.goals = SortedGoals(other.goals)
  BY OccurrencesDiffer
<1>. HIDE DEF one, other
<1>2. SortedGoals(one.goals) = SortedGoals(other.goals)
  BY <1>1, SortedAgain
<1>3. Uses(one) = Uses(other)
  BY <1>1, <1>2 DEF Uses, SameState
<1>4. ColorRefused(one) <=> ColorRefused(other)
  BY <1>1 DEF ColorRefused, SameState
<1>5. ColorEncode(c, one) = ColorEncode(c, other)
  BY <1>3 DEF ColorEncode
<1>6. ColorOutcome(one) = ColorOutcome(other)
  BY <1>4, <1>5 DEF ColorOutcome
<1>. QED  BY <1>6 DEF one, other

-----------------------------------------------------------------------------
(***************************************************************************)
(* Tables of one content: the same rows, each as often.                    *)
(***************************************************************************)
LEMMA ContentSorted ==
  ASSUME NEW s, NEW t, SameContent(s, t)
  PROVE  SortedGoals(s) = SortedGoals(t)
<1>1. \A x : SameAs(s, x) = SameAs(t, x)
  <2>. TAKE x
  <2>1. IsVector(s) /\ IsVector(t) /\ Times(s, x) = Times(t, x)
    BY DEF SameContent
  <2>2. SameAs(s, x) = [k \in 1..Times(s, x) |-> x]
    BY <2>1, TimesCounted DEF SameAs
  <2>3. SameAs(t, x) = [k \in 1..Times(t, x) |-> x]
    BY <2>1, TimesCounted DEF SameAs
  <2>. QED  BY <2>1, <2>2, <2>3
<1>2. ToSet(s) = ToSet(t)
  BY DEF SameContent
<1>. QED  BY <1>1, <1>2 DEF SortedGoals, Arranged

LEMMA SortedContent ==
  ASSUME NEW goals, IsVector(goals)
  PROVE  SameContent(SortedGoals(goals), goals)
<1>. DEFINE sorted == SortedGoals(goals)
<1>1. IsVector(sorted) /\ ToSet(sorted) = ToSet(goals)
  BY SortedGoalsAre
<1>2. \A x \in ToSet(goals) : SameAs(sorted, x) = SameAs(goals, x)
  BY SortedBlocks
<1>. HIDE DEF sorted
<1>3. \A x : Times(sorted, x) = Times(goals, x)
  <2>. TAKE x
  <2>1. CASE x \in ToSet(goals)
    <3>1. Times(sorted, x) \in Nat /\ SameAs(sorted, x) = [k \in 1..Times(sorted, x) |-> x]
      BY <1>1, TimesCounted DEF SameAs
    <3>2. Times(goals, x) \in Nat /\ SameAs(goals, x) = [k \in 1..Times(goals, x) |-> x]
      BY TimesCounted DEF SameAs
    <3>3. DOMAIN SameAs(sorted, x) = 1..Times(sorted, x)
          /\ DOMAIN SameAs(goals, x) = 1..Times(goals, x)
      BY <3>1, <3>2
    <3>4. 1..Times(sorted, x) = 1..Times(goals, x)
      BY <1>2, <2>1, <3>3
    <3>. DEFINE m == Times(sorted, x)
                n == Times(goals, x)
    <3>5. m \in Nat /\ n \in Nat /\ 1..m = 1..n
      BY <3>1, <3>2, <3>4
    <3>. HIDE DEF m, n
    <3>6. m = n
      <4>1. m = 0 \/ m \in 1..n
        BY <3>5
      <4>2. n = 0 \/ n \in 1..m
        BY <3>5
      <4>. QED  BY <3>5, <4>1, <4>2
    <3>. QED  BY <3>6 DEF m, n
  <2>2. CASE x \notin ToSet(goals)
    <3>1. {i \in DOMAIN sorted : sorted[i] = x} = {} /\ {i \in DOMAIN goals : goals[i] = x} = {}
      BY <1>1, <2>2 DEF ToSet
    <3>. QED  BY <3>1 DEF Times
  <2>. QED  BY <2>1, <2>2
<1>. QED  BY <1>1, <1>3 DEF SameContent, sorted

(***************************************************************************)
(* Goals, as rows of the table, are told apart.                            *)
(***************************************************************************)
IsGoal(goal) ==
  goal = [literal |-> goal.literal, level |-> goal.level] /\ IsLiteral(goal.literal)

InstanceOfGoal(goal) ==
  InstanceOf(IF goal.level = 0 THEN "goal" ELSE "subgoal", goal.literal, goal.level, 0)

LEMMA GoalToldApart ==
  ASSUME NEW one, NEW other, IsGoal(one), IsGoal(other),
         InstanceOfGoal(one) = InstanceOfGoal(other)
  PROVE  one = other
<1>1. /\ InstanceOfGoal(one).relation = one.literal.atom.predicate
      /\ InstanceOfGoal(one).positive = one.literal.positive
      /\ InstanceOfGoal(one).level = one.level
      /\ InstanceOfGoal(one).arguments = one.literal.atom.arguments
  BY DEF InstanceOfGoal, InstanceOf
<1>2. /\ InstanceOfGoal(other).relation = other.literal.atom.predicate
      /\ InstanceOfGoal(other).positive = other.literal.positive
      /\ InstanceOfGoal(other).level = other.level
      /\ InstanceOfGoal(other).arguments = other.literal.atom.arguments
  BY DEF InstanceOfGoal, InstanceOf
<1>3. /\ one.literal.atom.predicate = other.literal.atom.predicate
      /\ one.literal.positive = other.literal.positive
      /\ one.level = other.level
      /\ one.literal.atom.arguments = other.literal.atom.arguments
  BY <1>1, <1>2
<1>4. /\ one.literal.atom = Atom(one.literal.atom.predicate, one.literal.atom.arguments)
      /\ other.literal.atom = Atom(other.literal.atom.predicate, other.literal.atom.arguments)
      /\ one.literal = Literal(one.literal.atom, one.literal.positive)
      /\ other.literal = Literal(other.literal.atom, other.literal.positive)
      /\ one = [literal |-> one.literal, level |-> one.level]
      /\ other = [literal |-> other.literal, level |-> other.level]
  BY DEF IsGoal, IsLiteral, IsAtom
<1>5. one.literal.atom = other.literal.atom
  BY <1>3, <1>4
<1>6. one.literal = other.literal
  BY <1>3, <1>4, <1>5
<1>. QED  BY <1>3, <1>4, <1>6

LEMMA GoalRowsContent ==
  ASSUME NEW goals, IsVector(goals), \A goal \in ToSet(goals) : IsGoal(goal),
         NEW sorted, sorted = SortedGoals(goals)
  PROVE  SameContent(GoalInstances(sorted), GoalInstances(goals))
<1>. DEFINE f == [goal \in ToSet(goals) |-> InstanceOfGoal(goal)]
            a == GoalInstances(sorted)
            b == GoalInstances(goals)
<1>1. SameContent(sorted, goals)
  BY SortedContent
<1>2. IsVector(sorted) /\ ToSet(sorted) = ToSet(goals)
  BY <1>1 DEF SameContent
<1>3. TellsApart(f, ToSet(sorted))
  BY <1>2, GoalToldApart DEF TellsApart
<1>4. a = [k \in DOMAIN sorted |-> f[sorted[k]]]
  <2>1. \A k \in DOMAIN sorted : sorted[k] \in ToSet(goals)
    BY <1>2, VectorFacts
  <2>2. a = [k \in DOMAIN sorted |-> InstanceOfGoal(sorted[k])]
    BY DEF GoalInstances, InstanceOfGoal
  <2>. QED  BY <2>1, <2>2
<1>5. b = [k \in DOMAIN goals |-> f[goals[k]]]
  <2>1. \A k \in DOMAIN goals : goals[k] \in ToSet(goals)
    BY VectorFacts
  <2>2. b = [k \in DOMAIN goals |-> InstanceOfGoal(goals[k])]
    BY DEF GoalInstances, InstanceOfGoal
  <2>. QED  BY <2>1, <2>2
<1>. HIDE DEF f, a, b
<1>6. SameContent(a, b)
  BY ONLY <1>1, <1>3, <1>4, <1>5, ContentMapped
<1>. QED  BY <1>6 DEF a, b

LEMMA WrittenAreGoals ==
  ASSUME NEW layers, AreLayers(layers)
  PROVE  \A goal \in ToSet(WrittenGoals(layers)) : IsGoal(goal)
<1>. DEFINE goals == WrittenGoals(layers)
            n == Len(FlattenSeq(layers))
<1>1. /\ IsVector(goals) /\ Len(goals) = n
      /\ \A p \in 1..n : WrittenAt(layers, p)
  BY WrittenPlaces
<1>2. DOMAIN goals = 1..n
  BY <1>1, VectorFacts
<1>3. ASSUME NEW p \in 1..n
      PROVE  IsGoal(goals[p])
  <2>1. WrittenAt(layers, p)
    BY <1>1
  <2>2. PICK l \in 1..Len(layers) : \E i \in 1..Len(layers[l]) :
          goals[p] = [literal |-> layers[l][i], level |-> l - 1]
    BY <2>1 DEF WrittenAt
  <2>3. PICK i \in 1..Len(layers[l]) : goals[p] = [literal |-> layers[l][i], level |-> l - 1]
    BY <2>2
  <2>4. AreLiterals(layers[l]) /\ DOMAIN layers[l] = 1..Len(layers[l])
    BY LayersFacts
  <2>5. layers[l][i] \in ToSet(layers[l])
    BY <2>4 DEF ToSet
  <2>6. IsLiteral(layers[l][i])
    BY <2>4, <2>5 DEF AreLiterals
  <2>7. goals[p].literal = layers[l][i] /\ goals[p].level = l - 1
    BY <2>3
  <2>. QED  BY <2>3, <2>6, <2>7 DEF IsGoal
<1>. HIDE DEF goals, n
<1>. QED  BY <1>2, <1>3 DEF ToSet, goals

(***************************************************************************)
(* What else the table holds.                                              *)
(***************************************************************************)
LEMMA HistoryTable ==
  ASSUME NEW recent, IsHistory(recent)
  PROVE  IsVector(HistoryInstances(recent))
<1>. DEFINE t == [k \in DOMAIN recent |-> EntryInstances(recent[k])]
<1>1. /\ Len(recent) \in Nat /\ DOMAIN recent = 1..Len(recent)
      /\ \A k \in DOMAIN recent : recent[k] \in ToSet(recent)
  BY VectorFacts DEF IsHistory
<1>2. ASSUME NEW k \in 1..Len(recent)
      PROVE  IsVector(t[k])
  <2>1. IsEntry(recent[k])
    BY <1>1 DEF IsHistory
  <2>. DEFINE literals == recent[k].literals
              rows == EntryInstances(recent[k])
  <2>2. IsVector(literals)
    BY <2>1 DEF IsEntry, AreLiterals
  <2>3. DOMAIN rows = DOMAIN literals /\ rows = [n \in DOMAIN rows |-> rows[n]]
    BY DEF EntryInstances
  <2>4. t[k] = rows
    BY <1>1
  <2>. HIDE DEF t, rows, literals
  <2>. QED  BY <2>2, <2>3, <2>4, MappedVector
<1>3. DOMAIN t = 1..Len(recent) /\ t = [k \in 1..Len(recent) |-> t[k]]
  BY <1>1
<1>4. HistoryInstances(recent) = FlattenSeq(t)
  BY DEF HistoryInstances
<1>. HIDE DEF t
<1>. QED  BY <1>1, <1>2, <1>3, <1>4, FlattenedVectors

LEMMA InstancesContent ==
  ASSUME NEW one, NEW other, SameState(one, other),
         IsFiniteSet(other.static), IsFiniteSet(other.facts),
         IsVector(other.actions), IsHistory(RecentOf(other)),
         IsVector(other.goals), \A goal \in ToSet(other.goals) : IsGoal(goal),
         one.goals = SortedGoals(other.goals)
  PROVE  SameContent(Instances(one), Instances(other))
<1>. DEFINE atoms == Ordered(other.static) \o Ordered(other.facts)
            facts == FactInstances(atoms)
            history == HistoryInstances(RecentOf(other))
            actions == [k \in DOMAIN other.actions |-> ActionInstance(other.actions[k])]
            g == GoalInstances(one.goals)
            h == GoalInstances(other.goals)
<1>1. SameContent(g, h)
  BY GoalRowsContent
<1>2. IsVector(facts)
  <2>1. IsVector(Ordered(other.static)) /\ IsVector(Ordered(other.facts))
    BY OrderedVector
  <2>2. IsVector(atoms)
    BY <2>1, JoinedVectors
  <2>3. DOMAIN facts = DOMAIN atoms /\ facts = [k \in DOMAIN facts |-> facts[k]]
    BY DEF FactInstances
  <2>. HIDE DEF atoms, facts
  <2>. QED  BY <2>2, <2>3, MappedVector
<1>3. IsVector(history)
  BY HistoryTable
<1>4. IsVector(actions)
  <2>1. DOMAIN actions = DOMAIN other.actions /\ actions = [k \in DOMAIN actions |-> actions[k]]
    OBVIOUS
  <2>. HIDE DEF actions
  <2>. QED  BY <2>1, MappedVector
<1>5. Instances(other) = facts \o h \o history \o actions
  BY DEF Instances, RecentOf
<1>6. Instances(one) = facts \o g \o history \o actions
  <2>1. one.static = other.static /\ one.facts = other.facts /\ one.actions = other.actions
        /\ OrderedHistory(one.history, one.max_steps) = OrderedHistory(other.history, other.max_steps)
    BY DEF SameState, RecentOf
  <2>. QED  BY <2>1 DEF Instances, RecentOf
<1>. HIDE DEF facts, g, h, history, actions
<1>7. SameContent(facts, facts) /\ SameContent(history, history) /\ SameContent(actions, actions)
  BY <1>2, <1>3, <1>4, ContentItself
<1>8. SameContent(facts \o g, facts \o h)
  BY <1>1, <1>7, ContentJoined
<1>9. SameContent((facts \o g) \o history, (facts \o h) \o history)
  BY <1>7, <1>8, ContentJoined
<1>10. SameContent(((facts \o g) \o history) \o actions, ((facts \o h) \o history) \o actions)
  BY <1>7, <1>9, ContentJoined
<1>. QED  BY <1>5, <1>6, <1>10

(***************************************************************************)
(* Sequences without repetition.                                           *)
(***************************************************************************)
LEMMA PoolApart ==
  ASSUME NEW s, IsVector(s)
  PROVE  Apart(PoolOf(s))
<1>. DEFINE places == FirstUses(s)
<1>1. places \in SUBSET DOMAIN s
  BY DEF FirstUses
<1>2. DOMAIN s \subseteq Int
  BY VectorFacts
<1>3. \A p, q \in places : s[p] = s[q] => p = q
  <2>. TAKE p, q \in places
  <2>. HAVE s[p] = s[q]
  <2>1. p <= q /\ q <= p /\ p \in Int /\ q \in Int
    BY <1>2 DEF FirstUses
  <2>. QED  BY <2>1
<1>. HIDE DEF places
<1>4. Apart(Chosen(s, places))
  BY <1>1, <1>3, ChosenApart
<1>. QED  BY <1>4 DEF PoolOf, places

LEMMA PositionsApart ==
  ASSUME NEW inst, IsVector(inst.arguments), NEW o
  PROVE  Apart(PositionsAt(inst, o))
<1>. DEFINE at == {p \in DOMAIN inst.arguments : inst.arguments[p] = o}
            f == [p \in at |-> p]
<1>1. DOMAIN inst.arguments \subseteq Int /\ IsFiniteSet(DOMAIN inst.arguments)
  BY VectorFacts, VectorFinite
<1>2. at \in SUBSET Int /\ IsFiniteSet(at)
  BY <1>1, FS_Subset
<1>3. PositionsAt(inst, o) = InOrder(f)
  BY DEF PositionsAt
<1>4. DOMAIN f = at /\ \A p \in at : f[p] = p
  OBVIOUS
<1>. HIDE DEF at, f
<1>5. /\ Cardinality(at) \in Nat
      /\ \A k \in 1..Cardinality(at) : Place(at, k) \in at
      /\ \A j, k \in 1..Cardinality(at) : j < k => Place(at, j) < Place(at, k)
  BY <1>2, PlacesInOrder
<1>6. InOrder(f) = [k \in 1..Cardinality(at) |-> Place(at, k)]
  BY <1>4, <1>5 DEF InOrder
<1>7. ASSUME NEW j \in 1..Cardinality(at), NEW k \in 1..Cardinality(at),
             Place(at, j) = Place(at, k)
      PROVE  j = k
  <2>1. Place(at, j) \in Int
    BY <1>2, <1>5
  <2>2. j < k \/ k < j \/ j = k
    BY <1>5
  <2>. QED  BY <1>5, <1>7, <2>1, <2>2
<1>. QED  BY <1>3, <1>6, <1>7 DEF Apart

Tabled(rows) == IsVector(rows) /\ \A inst \in ToSet(rows) : IsVector(inst.arguments)

PlacesOf(inst, o) == InstancePositions(inst, PositionsAt(inst, o))

LEMMA PlacesOfAre ==
  ASSUME NEW inst, IsVector(inst.arguments), NEW o
  PROVE  /\ IsVector(PlacesOf(inst, o)) /\ Apart(PlacesOf(inst, o))
         /\ \A x \in ToSet(PlacesOf(inst, o)) : x = <<x[1], x[2]>> /\ x[1] = InstanceNode(inst)
<1>. DEFINE positions == PositionsAt(inst, o)
            t == InstancePositions(inst, positions)
<1>1. IsVector(positions) /\ Apart(positions)
  BY PositionsVector, PositionsApart
<1>2. DOMAIN t = DOMAIN positions /\ t = [n \in DOMAIN t |-> t[n]]
      /\ \A n \in DOMAIN positions : t[n] = <<InstanceNode(inst), positions[n]>>
  BY DEF InstancePositions
<1>. HIDE DEF t, positions
<1>3. IsVector(t)
  BY <1>1, <1>2, MappedVector
<1>4. \A n \in DOMAIN positions : t[n][1] = InstanceNode(inst) /\ t[n][2] = positions[n]
  BY <1>2
<1>5. Apart(t)
  BY <1>1, <1>2, <1>4 DEF Apart
<1>6. \A x \in ToSet(t) : x = <<x[1], x[2]>> /\ x[1] = InstanceNode(inst)
  BY <1>2, <1>4 DEF ToSet
<1>. QED  BY <1>3, <1>5, <1>6 DEF PlacesOf, t, positions

LEMMA IncidentsAre ==
  ASSUME NEW literals, Tabled(literals), NEW o
  PROVE  /\ IsVector(Incidents(literals, o))
         /\ ToSet(Incidents(literals, o)) = UNION {ToSet(PlacesOf(x, o)) : x \in ToSet(literals)}
         /\ \A x \in ToSet(Incidents(literals, o)) : x = <<x[1], x[2]>>
         /\ Apart(literals) => Apart(Incidents(literals, o))
<1>. DEFINE t == [k \in DOMAIN literals |-> PlacesOf(literals[k], o)]
            n == Len(literals)
<1>1. /\ n \in Nat /\ DOMAIN literals = 1..n
      /\ \A k \in DOMAIN literals : literals[k] \in ToSet(literals)
  BY VectorFacts DEF Tabled
<1>2. DOMAIN t = 1..n /\ t = [k \in 1..n |-> t[k]]
      /\ \A k \in 1..n : t[k] = PlacesOf(literals[k], o)
  BY <1>1
<1>3. Incidents(literals, o) = FlattenSeq(t)
  BY DEF Incidents, PlacesOf
<1>4. ASSUME NEW k \in 1..n
      PROVE  /\ IsVector(t[k]) /\ Apart(t[k])
             /\ \A x \in ToSet(t[k]) : x = <<x[1], x[2]>> /\ x[1] = InstanceNode(literals[k])
             /\ \A m \in 1..Len(t[k]) : t[k][m] \in ToSet(t[k])
  <2>1. IsVector(literals[k].arguments)
    BY <1>1 DEF Tabled
  <2>2. t[k] = PlacesOf(literals[k], o)
    BY <1>2
  <2>. HIDE DEF t
  <2>3. /\ IsVector(t[k]) /\ Apart(t[k])
        /\ \A x \in ToSet(t[k]) : x = <<x[1], x[2]>> /\ x[1] = InstanceNode(literals[k])
    BY <2>1, <2>2, PlacesOfAre
  <2>4. \A m \in 1..Len(t[k]) : t[k][m] \in ToSet(t[k])
    BY <2>3, VectorFacts
  <2>. QED  BY <2>3, <2>4
<1>. HIDE DEF t, n
<1>5. \A k \in 1..n : IsVector(t[k])
  BY <1>4
<1>6. /\ IsVector(FlattenSeq(t))
      /\ ToSet(FlattenSeq(t)) = UNION {ToSet(t[k]) : k \in 1..n}
  BY <1>1, <1>2, <1>5, FlattenedVectors
<1>7. UNION {ToSet(t[k]) : k \in 1..n} = UNION {ToSet(PlacesOf(x, o)) : x \in ToSet(literals)}
  <2>1. ASSUME NEW k \in 1..n
        PROVE  literals[k] \in ToSet(literals) /\ t[k] = PlacesOf(literals[k], o)
    BY <1>1, <1>2
  <2>2. \A x \in ToSet(literals) : \E k \in 1..n : x = literals[k]
    BY <1>1 DEF ToSet
  <2>. QED  BY <2>1, <2>2
<1>8. \A x \in ToSet(FlattenSeq(t)) : x = <<x[1], x[2]>>
  <2>1. \A x \in ToSet(FlattenSeq(t)) : \E k \in 1..n : x \in ToSet(t[k])
    BY <1>6
  <2>. QED  BY <1>4, <2>1
<1>9. ASSUME Apart(literals)
      PROVE  Apart(FlattenSeq(t))
  <2>1. PICK T : t \in Seq(Seq(T)) /\ Len(t) = n
    BY <1>1, <1>2, <1>5, VectorsNested
  <2>2. RowsApart(t)
    <3>1. ASSUME NEW i \in 1..n, NEW j \in 1..n,
                 NEW k \in 1..Len(t[i]), NEW m \in 1..Len(t[j]), t[i][k] = t[j][m]
          PROVE  i = j
      <4>1. t[i][k][1] = InstanceNode(literals[i]) /\ t[j][m][1] = InstanceNode(literals[j])
        BY <1>4
      <4>2. literals[i] = literals[j]
        BY <3>1, <4>1 DEF InstanceNode
      <4>. QED  BY <1>1, <1>9, <4>2 DEF Apart
    <3>. QED  BY <1>4, <2>1, <3>1 DEF RowsApart
  <2>. QED  BY <2>1, <2>2, FlatApart
<1>. QED  BY <1>3, <1>6, <1>7, <1>8, <1>9

(***************************************************************************)
(* Edges, apart from shortcuts, and what the shortcuts join.               *)
(***************************************************************************)
PlainEdges(edges) == {e \in ToSet(edges) : ~IsShortcut(e)}

EndsOf(edges) == {ShortcutEnds(e) : e \in {f \in ToSet(edges) : IsShortcut(f)}}

LEMMA EdgesJoined ==
  ASSUME NEW s, IsVector(s), NEW t, IsVector(t)
  PROVE  /\ IsVector(s \o t)
         /\ PlainEdges(s \o t) = PlainEdges(s) \cup PlainEdges(t)
         /\ EndsOf(s \o t) = EndsOf(s) \cup EndsOf(t)
<1>1. IsVector(s \o t) /\ ToSet(s \o t) = ToSet(s) \cup ToSet(t)
  BY JoinedVectors
<1>. DEFINE u == s \o t
<1>2. ToSet(u) = ToSet(s) \cup ToSet(t)
  BY <1>1
<1>. HIDE DEF u
<1>3. PlainEdges(u) = PlainEdges(s) \cup PlainEdges(t)
  BY <1>2 DEF PlainEdges
<1>4. EndsOf(u) = EndsOf(s) \cup EndsOf(t)
  BY <1>2 DEF EndsOf
<1>. QED  BY <1>1, <1>3, <1>4 DEF u

LEMMA EdgesFlattened ==
  ASSUME NEW n \in Nat, NEW t, DOMAIN t = 1..n, t = [i \in 1..n |-> t[i]],
         \A i \in 1..n : IsVector(t[i])
  PROVE  /\ IsVector(FlattenSeq(t))
         /\ PlainEdges(FlattenSeq(t)) = UNION {PlainEdges(t[i]) : i \in 1..n}
         /\ EndsOf(FlattenSeq(t)) = UNION {EndsOf(t[i]) : i \in 1..n}
<1>. DEFINE u == FlattenSeq(t)
<1>1. IsVector(u) /\ ToSet(u) = UNION {ToSet(t[i]) : i \in 1..n}
  BY FlattenedVectors
<1>. HIDE DEF u
<1>2. \A e : e \in ToSet(u) <=> \E i \in 1..n : e \in ToSet(t[i])
  BY <1>1
<1>3. PlainEdges(u) = UNION {PlainEdges(t[i]) : i \in 1..n}
  BY <1>2 DEF PlainEdges
<1>4. EndsOf(u) = UNION {EndsOf(t[i]) : i \in 1..n}
  <2>1. ASSUME NEW z \in EndsOf(u)
        PROVE  \E i \in 1..n : z \in EndsOf(t[i])
    BY <1>2 DEF EndsOf
  <2>2. ASSUME NEW i \in 1..n, NEW z \in EndsOf(t[i])
        PROVE  z \in EndsOf(u)
    BY <1>2 DEF EndsOf
  <2>. QED  BY <2>1, <2>2
<1>. QED  BY <1>1, <1>3, <1>4 DEF u

LEMMA NoEdgesDrawn == IsVector(<<>>) /\ PlainEdges(<<>>) = {} /\ EndsOf(<<>>) = {}
BY EmptyVector DEF PlainEdges, EndsOf

IsPlace(x) == x = <<x[1], x[2]>>

JoinsOnly(edges, one, other) ==
  /\ IsVector(edges) /\ PlainEdges(edges) = {}
  /\ \A z : z \in EndsOf(edges) <=> one[1] # other[1] /\ z = {one, other}

LEMMA ShortcutIs ==
  ASSUME NEW d, NEW one, IsPlace(one), NEW other, IsPlace(other)
  PROVE  JoinsOnly(Shortcut(d, one, other), one, other)
<1>. DEFINE fwd == DerivedEdge(one[1], other[1], <<"line_share", "fwd">>, <<one[2], other[2]>>, Unlabeled)
            bwd == DerivedEdge(other[1], one[1], <<"line_share", "bwd">>, <<other[2], one[2]>>, Unlabeled)
            back == IF d.include_reverse_edges THEN <<bwd>> ELSE <<>>
            edges == <<fwd>> \o back
<1>1. IsShortcut(fwd) /\ IsShortcut(bwd)
  BY DEF IsShortcut, DerivedEdge
<1>2. ShortcutEnds(fwd) = {one, other} /\ ShortcutEnds(bwd) = {one, other}
  <2>1. ShortcutEnds(fwd) = {<<one[1], one[2]>>, <<other[1], other[2]>>}
    BY DEF ShortcutEnds, DerivedEdge
  <2>2. ShortcutEnds(bwd) = {<<other[1], other[2]>>, <<one[1], one[2]>>}
    BY DEF ShortcutEnds, DerivedEdge
  <2>3. one = <<one[1], one[2]>> /\ other = <<other[1], other[2]>>
    BY DEF IsPlace
  <2>. HIDE DEF fwd, bwd
  <2>. QED  BY <2>1, <2>2, <2>3
<1>. HIDE DEF fwd, bwd
<1>3. IsVector(edges) /\ ToSet(edges) = {fwd} \cup ToSet(back) /\ ToSet(back) \subseteq {bwd}
  <2>1. IsVector(<<fwd>>) /\ ToSet(<<fwd>>) = {fwd} /\ IsVector(<<bwd>>) /\ ToSet(<<bwd>>) = {bwd}
    BY OneVector
  <2>2. IsVector(back) /\ ToSet(back) \subseteq {bwd}
    BY <2>1, EmptyVector
  <2>. HIDE DEF back
  <2>. QED  BY <2>1, <2>2, JoinedVectors
<1>4. BothWays(d, one, other, "line_share", Unlabeled) = edges
  BY DEF BothWays, fwd, bwd
<1>. HIDE DEF edges
<1>5. PlainEdges(edges) = {} /\ EndsOf(edges) = {{one, other}}
  <2>1. \A e \in ToSet(edges) : IsShortcut(e) /\ ShortcutEnds(e) = {one, other}
    BY <1>1, <1>2, <1>3
  <2>2. fwd \in ToSet(edges)
    BY <1>3
  <2>. QED  BY <2>1, <2>2 DEF PlainEdges, EndsOf
<1>6. CASE one[1] = other[1]
  BY <1>6, NoEdgesDrawn DEF Shortcut, JoinsOnly
<1>7. CASE one[1] # other[1]
  BY <1>3, <1>4, <1>5, <1>7 DEF Shortcut, JoinsOnly
<1>. QED  BY <1>6, <1>7

LEMMA PairsAre ==
  ASSUME NEW n \in Nat
  PROVE  /\ IsVector(PositionPairs(n))
         /\ \A p \in ToSet(PositionPairs(n)) :
              p[1] \in 1..n /\ p[2] \in 1..n
         /\ \A i, j \in 1..n : i < j => <<i, j>> \in ToSet(PositionPairs(n))
<1>. DEFINE t == [i \in 1..n |-> PairsFrom(i, n)]
<1>1. \A i \in 1..n : IsVector(PairsFrom(i, n))
  BY PairsFromFit DEF PairsFit
<1>2. DOMAIN t = 1..n /\ t = [i \in 1..n |-> t[i]] /\ \A i \in 1..n : t[i] = PairsFrom(i, n)
  OBVIOUS
<1>. HIDE DEF t
<1>3. ToSet(FlattenSeq(t)) = UNION {ToSet(t[i]) : i \in 1..n}
  BY <1>1, <1>2, FlattenedVectors
<1>4. PositionPairs(n) = FlattenSeq(t)
  BY DEF PositionPairs, t
<1>5. ASSUME NEW i \in 1..n, NEW j \in 1..n, i < j
      PROVE  <<i, j>> \in ToSet(FlattenSeq(t))
  <2>1. j - i \in 1..(n - i) /\ i + (j - i) = j
    BY <1>5
  <2>2. DOMAIN PairsFrom(i, n) = 1..(n - i) /\ PairsFrom(i, n)[j - i] = <<i, i + (j - i)>>
    BY <2>1 DEF PairsFrom
  <2>3. <<i, j>> \in ToSet(PairsFrom(i, n))
    BY <2>1, <2>2 DEF ToSet
  <2>4. <<i, j>> \in ToSet(t[i])
    BY <1>2, <2>3
  <2>. QED  BY <1>3, <2>4
<1>6. IsVector(PositionPairs(n)) /\ \A p \in ToSet(PositionPairs(n)) : p[1] \in 1..n /\ p[2] \in 1..n
  BY PositionPairsFit DEF PairsFit
<1>. QED  BY <1>4, <1>5, <1>6

\* What shortcuts join: two places of different rows.
Linked(S) == {ends \in SUBSET S : \E x, y \in S : x[1] # y[1] /\ ends = {x, y}}

LEMMA ShortcutsAre ==
  ASSUME NEW d, NEW incidents, IsVector(incidents), \A x \in ToSet(incidents) : IsPlace(x)
  PROVE  /\ IsVector(ShortcutsBy(d, incidents)) /\ PlainEdges(ShortcutsBy(d, incidents)) = {}
         /\ EndsOf(ShortcutsBy(d, incidents))
              = IF Len(incidents) > d.line_graph_max_degree THEN {} ELSE Linked(ToSet(incidents))
<1>. DEFINE n == Len(incidents)
            pairs == PositionPairs(n)
            t == [k \in DOMAIN pairs |->
                    Shortcut(d, incidents[pairs[k][1]], incidents[pairs[k][2]])]
            S == ToSet(incidents)
<1>1. n \in Nat /\ DOMAIN incidents = 1..n /\ \A k \in 1..n : incidents[k] \in S
  BY VectorFacts
<1>2. /\ IsVector(pairs)
      /\ \A p \in ToSet(pairs) : p[1] \in 1..n /\ p[2] \in 1..n
      /\ \A i, j \in 1..n : i < j => <<i, j>> \in ToSet(pairs)
  BY <1>1, PairsAre
<1>. HIDE DEF pairs
<1>3. /\ Len(pairs) \in Nat /\ DOMAIN pairs = 1..Len(pairs)
      /\ \A k \in DOMAIN pairs : pairs[k] \in ToSet(pairs)
  BY <1>2, VectorFacts
<1>4. DOMAIN t = 1..Len(pairs) /\ t = [k \in 1..Len(pairs) |-> t[k]]
      /\ \A k \in 1..Len(pairs) : t[k] = Shortcut(d, incidents[pairs[k][1]], incidents[pairs[k][2]])
  BY <1>3
<1>5. Shortcuts(d, incidents, pairs) = FlattenSeq(t)
  BY DEF Shortcuts
<1>. HIDE DEF t, n, S
<1>6. ASSUME NEW k \in 1..Len(pairs)
      PROVE  /\ pairs[k][1] \in 1..n /\ pairs[k][2] \in 1..n
             /\ IsVector(t[k]) /\ PlainEdges(t[k]) = {}
             /\ \A z : z \in EndsOf(t[k])
                         <=> /\ incidents[pairs[k][1]][1] # incidents[pairs[k][2]][1]
                             /\ z = {incidents[pairs[k][1]], incidents[pairs[k][2]]}
  <2>. DEFINE one == incidents[pairs[k][1]]
              other == incidents[pairs[k][2]]
  <2>1. pairs[k][1] \in 1..n /\ pairs[k][2] \in 1..n
    BY <1>2, <1>3
  <2>2. IsPlace(one) /\ IsPlace(other)
    BY <1>1, <2>1 DEF S
  <2>3. t[k] = Shortcut(d, one, other)
    BY <1>4
  <2>. HIDE DEF one, other
  <2>4. JoinsOnly(t[k], one, other)
    BY <2>2, <2>3, ShortcutIs
  <2>. QED  BY <2>1, <2>4 DEF one, other, JoinsOnly
<1>7. \A k \in 1..Len(pairs) : IsVector(t[k])
  BY <1>6
<1>8. /\ IsVector(FlattenSeq(t))
      /\ PlainEdges(FlattenSeq(t)) = UNION {PlainEdges(t[i]) : i \in 1..Len(pairs)}
      /\ EndsOf(FlattenSeq(t)) = UNION {EndsOf(t[i]) : i \in 1..Len(pairs)}
  BY <1>3, <1>4, <1>7, EdgesFlattened
<1>9. PlainEdges(FlattenSeq(t)) = {}
  BY <1>6, <1>8
<1>10. EndsOf(FlattenSeq(t)) = Linked(S)
  <2>1. ASSUME NEW z \in EndsOf(FlattenSeq(t))
        PROVE  z \in Linked(S)
    <3>1. PICK k \in 1..Len(pairs) : z \in EndsOf(t[k])
      BY <1>8, <2>1
    <3>2. /\ pairs[k][1] \in 1..n /\ pairs[k][2] \in 1..n
          /\ incidents[pairs[k][1]][1] # incidents[pairs[k][2]][1]
          /\ z = {incidents[pairs[k][1]], incidents[pairs[k][2]]}
      BY <1>6, <3>1
    <3>3. incidents[pairs[k][1]] \in S /\ incidents[pairs[k][2]] \in S
      BY <1>1, <3>2
    <3>. QED  BY <3>2, <3>3 DEF Linked
  <2>2. ASSUME NEW z \in Linked(S)
        PROVE  z \in EndsOf(FlattenSeq(t))
    <3>1. PICK x \in S, y \in S : x[1] # y[1] /\ z = {x, y}
      BY <2>2 DEF Linked
    <3>2. PICK i \in 1..n, j \in 1..n : x = incidents[i] /\ y = incidents[j]
      BY <1>1 DEF S, ToSet
    <3>3. i < j \/ j < i
      BY <3>1, <3>2
    <3>4. ASSUME NEW a \in 1..n, NEW b \in 1..n, a < b, incidents[a][1] # incidents[b][1],
                 z = {incidents[a], incidents[b]}
          PROVE  z \in EndsOf(FlattenSeq(t))
      <4>1. <<a, b>> \in ToSet(pairs)
        BY <1>2, <3>4
      <4>2. PICK k \in 1..Len(pairs) : pairs[k] = <<a, b>>
        BY <1>3, <4>1 DEF ToSet
      <4>3. pairs[k][1] = a /\ pairs[k][2] = b
        BY <4>2
      <4>4. z \in EndsOf(t[k])
        BY <1>6, <3>4, <4>3
      <4>. QED  BY <1>8, <4>4
    <3>5. z = {y, x}
      BY <3>1
    <3>. QED  BY <3>1, <3>2, <3>3, <3>4, <3>5
  <2>. QED  BY <2>1, <2>2
<1>. QED  BY <1>5, <1>8, <1>9, <1>10, NoEdgesDrawn DEF ShortcutsBy, n, S, pairs

\* What the shortcuts of an object join.
LinksAt(d, literals, o) ==
  IF Len(Incidents(literals, o)) > d.line_graph_max_degree THEN {}
  ELSE Linked(ToSet(Incidents(literals, o)))

LEMMA LineEdgesAre ==
  ASSUME NEW d, NEW objects, IsVector(objects), NEW literals, Tabled(literals)
  PROVE  /\ IsVector(LineEdges(d, objects, literals))
         /\ PlainEdges(LineEdges(d, objects, literals)) = {}
         /\ EndsOf(LineEdges(d, objects, literals))
              = UNION {LinksAt(d, literals, objects[k]) : k \in DOMAIN objects}
<1>. DEFINE t == [k \in DOMAIN objects |-> ShortcutsBy(d, Incidents(literals, objects[k]))]
            n == Len(objects)
<1>1. n \in Nat /\ DOMAIN objects = 1..n
  BY VectorFacts
<1>2. DOMAIN t = 1..n /\ t = [k \in 1..n |-> t[k]]
      /\ \A k \in 1..n : t[k] = ShortcutsBy(d, Incidents(literals, objects[k]))
  BY <1>1
<1>3. LineEdges(d, objects, literals) = FlattenSeq(t)
  BY DEF LineEdges
<1>. HIDE DEF t, n
<1>4. ASSUME NEW k \in 1..n
      PROVE  /\ IsVector(t[k]) /\ PlainEdges(t[k]) = {}
             /\ EndsOf(t[k]) = LinksAt(d, literals, objects[k])
  <2>. DEFINE incidents == Incidents(literals, objects[k])
  <2>1. IsVector(incidents) /\ \A x \in ToSet(incidents) : x = <<x[1], x[2]>>
    BY IncidentsAre
  <2>2. \A x \in ToSet(incidents) : IsPlace(x)
    BY <2>1 DEF IsPlace
  <2>3. t[k] = ShortcutsBy(d, incidents)
    BY <1>2
  <2>4. LinksAt(d, literals, objects[k])
          = IF Len(incidents) > d.line_graph_max_degree THEN {} ELSE Linked(ToSet(incidents))
    BY DEF LinksAt
  <2>. HIDE DEF incidents
  <2>5. /\ IsVector(ShortcutsBy(d, incidents)) /\ PlainEdges(ShortcutsBy(d, incidents)) = {}
        /\ EndsOf(ShortcutsBy(d, incidents))
             = IF Len(incidents) > d.line_graph_max_degree THEN {} ELSE Linked(ToSet(incidents))
    BY <2>1, <2>2, ShortcutsAre
  <2>. QED  BY <2>3, <2>4, <2>5
<1>5. \A k \in 1..n : IsVector(t[k])
  BY <1>4
<1>6. /\ IsVector(FlattenSeq(t))
      /\ PlainEdges(FlattenSeq(t)) = UNION {PlainEdges(t[i]) : i \in 1..n}
      /\ EndsOf(FlattenSeq(t)) = UNION {EndsOf(t[i]) : i \in 1..n}
  BY <1>1, <1>2, <1>5, EdgesFlattened
<1>7. PlainEdges(FlattenSeq(t)) = {}
  BY <1>4, <1>6
<1>8. EndsOf(FlattenSeq(t)) = UNION {LinksAt(d, literals, objects[k]) : k \in DOMAIN objects}
  BY <1>1, <1>4, <1>6
<1>. QED  BY <1>3, <1>6, <1>7, <1>8

\* Tables without repetition that hold the same rows.
SamePool(one, other) ==
  /\ Tabled(one) /\ Tabled(other) /\ Apart(one) /\ Apart(other) /\ ToSet(one) = ToSet(other)

LEMMA LinksAgree ==
  ASSUME NEW d, NEW one, NEW other, SamePool(one, other), NEW o
  PROVE  LinksAt(d, one, o) = LinksAt(d, other, o)
<1>. DEFINE x == Incidents(one, o)
            y == Incidents(other, o)
<1>1. Tabled(one) /\ Apart(one) /\ Tabled(other) /\ Apart(other) /\ ToSet(one) = ToSet(other)
  BY DEF SamePool
<1>2. IsVector(x) /\ Apart(x) /\ ToSet(x) = UNION {ToSet(PlacesOf(inst, o)) : inst \in ToSet(one)}
  BY <1>1, IncidentsAre
<1>3. IsVector(y) /\ Apart(y) /\ ToSet(y) = UNION {ToSet(PlacesOf(inst, o)) : inst \in ToSet(other)}
  BY <1>1, IncidentsAre
<1>. HIDE DEF x, y
<1>4. ToSet(x) = ToSet(y)
  BY <1>1, <1>2, <1>3
<1>5. Len(x) = Cardinality(ToSet(x)) /\ Len(y) = Cardinality(ToSet(y))
  BY <1>2, <1>3, ApartLength
<1>. QED  BY <1>4, <1>5 DEF LinksAt, x, y

LEMMA LineEdgesAgree ==
  ASSUME NEW d, NEW objects, IsVector(objects), NEW one, NEW other, SamePool(one, other)
  PROVE  EndsOf(LineEdges(d, objects, one)) = EndsOf(LineEdges(d, objects, other))
<1>1. Tabled(one) /\ Tabled(other)
  BY DEF SamePool
<1>2. \A k \in DOMAIN objects : LinksAt(d, one, objects[k]) = LinksAt(d, other, objects[k])
  BY LinksAgree
<1>3. EndsOf(LineEdges(d, objects, one))
        = UNION {LinksAt(d, one, objects[k]) : k \in DOMAIN objects}
  BY <1>1, LineEdgesAre
<1>4. EndsOf(LineEdges(d, objects, other))
        = UNION {LinksAt(d, other, objects[k]) : k \in DOMAIN objects}
  BY <1>1, LineEdgesAre
<1>5. {LinksAt(d, one, objects[k]) : k \in DOMAIN objects}
        = {LinksAt(d, other, objects[k]) : k \in DOMAIN objects}
  BY <1>2
<1>. QED  BY <1>3, <1>4, <1>5

LEMMA InstanceEdgesVector ==
  ASSUME NEW d, NEW inst, IsVector(inst.arguments)
  PROVE  IsVector(InstanceEdges(d, inst))
<1>. DEFINE nodes == {ObjectNode(o) : o \in ToSet(inst.arguments)} \cup {InstanceNode(inst), AnchorNode}
<1>1. Placeable(d, nodes, inst)
  BY DEF Placeable
<1>. HIDE DEF nodes
<1>2. EdgesFit(nodes, InstanceEdges(d, inst))
  BY <1>1, InstanceEdgesFit
<1>. QED  BY <1>2 DEF EdgesFit

LEMMA RowEdgesAre ==
  ASSUME NEW d, NEW pool, Tabled(pool)
  PROVE  LET edges == FlattenSeq([k \in DOMAIN pool |-> InstanceEdges(d, pool[k])])
         IN  IsVector(edges) /\ ToSet(edges) = UNION {ToSet(InstanceEdges(d, x)) : x \in ToSet(pool)}
<1>. DEFINE t == [k \in DOMAIN pool |-> InstanceEdges(d, pool[k])]
            n == Len(pool)
<1>1. /\ n \in Nat /\ DOMAIN pool = 1..n
      /\ \A k \in DOMAIN pool : pool[k] \in ToSet(pool)
  BY VectorFacts DEF Tabled
<1>2. DOMAIN t = 1..n /\ t = [k \in 1..n |-> t[k]]
      /\ \A k \in 1..n : t[k] = InstanceEdges(d, pool[k])
  BY <1>1
<1>. HIDE DEF n
<1>3. \A k \in 1..n : IsVector(t[k])
  BY <1>1, <1>2, InstanceEdgesVector DEF Tabled
<1>. HIDE DEF t
<1>4. IsVector(FlattenSeq(t)) /\ ToSet(FlattenSeq(t)) = UNION {ToSet(t[k]) : k \in 1..n}
  BY <1>1, <1>2, <1>3, FlattenedVectors
<1>5. UNION {ToSet(t[k]) : k \in 1..n} = UNION {ToSet(InstanceEdges(d, x)) : x \in ToSet(pool)}
  <2>1. \A x \in ToSet(pool) : \E k \in 1..n : x = pool[k]
    BY <1>1 DEF ToSet
  <2>. QED  BY <1>1, <1>2, <2>1
<1>. QED  BY <1>4, <1>5 DEF t

Waiting(d, x) == ~HasNode(d, x) /\ x.arguments = <<>>

LEMMA AnchorLoopsAre ==
  ASSUME NEW d, NEW pool, IsVector(pool)
  PROVE  /\ IsVector(AnchorLoops(d, pool))
         /\ ToSet(AnchorLoops(d, pool))
              = UNION {ToSet(Loop(AnchorNode, "nullary", x)) : x \in {y \in ToSet(pool) : Waiting(d, y)}}
<1>. DEFINE places == {k \in DOMAIN pool : ~HasNode(d, pool[k]) /\ pool[k].arguments = <<>>}
            waiting == Chosen(pool, places)
            t == [k \in DOMAIN waiting |-> Loop(AnchorNode, "nullary", waiting[k])]
            n == Len(waiting)
            S == {y \in ToSet(pool) : Waiting(d, y)}
<1>1. IsVector(waiting) /\ ToSet(waiting) = {pool[k] : k \in places}
  <2>1. places \in SUBSET DOMAIN pool
    OBVIOUS
  <2>. HIDE DEF places
  <2>. QED  BY <2>1, ChosenVector
<1>2. {pool[k] : k \in places} = S
  BY DEF Waiting, ToSet
<1>3. AnchorLoops(d, pool) = FlattenSeq(t)
  BY DEF AnchorLoops
<1>. HIDE DEF places, waiting, S
<1>4. n \in Nat /\ DOMAIN waiting = 1..n /\ \A k \in DOMAIN waiting : waiting[k] \in ToSet(waiting)
  BY <1>1, VectorFacts
<1>5. DOMAIN t = 1..n /\ t = [k \in 1..n |-> t[k]]
      /\ \A k \in 1..n : t[k] = Loop(AnchorNode, "nullary", waiting[k])
  BY <1>4
<1>. HIDE DEF t, n
<1>6. \A k \in 1..n : IsVector(t[k])
  BY <1>5, OneVector DEF Loop
<1>7. IsVector(FlattenSeq(t)) /\ ToSet(FlattenSeq(t)) = UNION {ToSet(t[k]) : k \in 1..n}
  BY <1>4, <1>5, <1>6, FlattenedVectors
<1>8. UNION {ToSet(t[k]) : k \in 1..n} = UNION {ToSet(Loop(AnchorNode, "nullary", x)) : x \in S}
  <2>1. \A x \in S : \E k \in 1..n : x = waiting[k]
    BY <1>1, <1>2, <1>4 DEF ToSet
  <2>2. \A k \in 1..n : waiting[k] \in S
    BY <1>1, <1>2, <1>4
  <2>. QED  BY <1>5, <2>1, <2>2
<1>. QED  BY <1>3, <1>7, <1>8 DEF S

LEMMA DrawnLiteralsAre ==
  ASSUME NEW pool, Tabled(pool), Apart(pool)
  PROVE  /\ Tabled(DrawnLiterals(pool)) /\ Apart(DrawnLiterals(pool))
         /\ ToSet(DrawnLiterals(pool)) = {x \in ToSet(pool) : x.role # "action"}
<1>. DEFINE places == {k \in DOMAIN pool : pool[k].role # "action"}
<1>1. places \in SUBSET DOMAIN pool
  OBVIOUS
<1>2. \A p, q \in places : pool[p] = pool[q] => p = q
  BY DEF Apart
<1>3. {pool[k] : k \in places} = {x \in ToSet(pool) : x.role # "action"}
  BY DEF ToSet
<1>4. DrawnLiterals(pool) = Chosen(pool, places)
  BY DEF DrawnLiterals
<1>5. IsVector(pool)
  BY DEF Tabled
<1>. HIDE DEF places
<1>6. IsVector(Chosen(pool, places)) /\ ToSet(Chosen(pool, places)) = {pool[k] : k \in places}
  BY <1>1, <1>5, ChosenVector
<1>7. Apart(Chosen(pool, places))
  BY <1>1, <1>2, <1>5, ChosenApart
<1>. QED  BY <1>3, <1>4, <1>6, <1>7 DEF Tabled

LEMMA DrawnRowsAre ==
  ASSUME NEW d, NEW pool, IsVector(pool)
  PROVE  /\ IsVector(Drawn(d, pool))
         /\ ToSet(Drawn(d, pool)) = {x \in ToSet(pool) : HasNode(d, x)}
<1>. DEFINE places == {k \in DOMAIN pool : HasNode(d, pool[k])}
<1>1. places \in SUBSET DOMAIN pool
  OBVIOUS
<1>2. {pool[k] : k \in places} = {x \in ToSet(pool) : HasNode(d, x)}
  BY DEF ToSet
<1>3. Drawn(d, pool) = Chosen(pool, places)
  BY DEF Drawn
<1>. HIDE DEF places
<1>4. IsVector(Chosen(pool, places)) /\ ToSet(Chosen(pool, places)) = {pool[k] : k \in places}
  BY <1>1, ChosenVector
<1>. QED  BY <1>2, <1>3, <1>4

DerivedNodeSet(d, O, D) ==
  {ObjectNode(o) : o \in O} \cup {InstanceNode(x) : x \in D}
    \cup (IF HasAnchorNode(d) THEN {AnchorNode} ELSE {})

LEMMA NodeSetIs ==
  ASSUME NEW d, NEW objects, IsVector(objects), NEW drawn, IsVector(drawn)
  PROVE  ToSet(DerivedNodes(d, objects, drawn)) = DerivedNodeSet(d, ToSet(objects), ToSet(drawn))
<1>. DEFINE a == [k \in DOMAIN objects |-> ObjectNode(objects[k])]
            b == [k \in DOMAIN drawn |-> InstanceNode(drawn[k])]
            e == IF HasAnchorNode(d) THEN <<AnchorNode>> ELSE <<>>
<1>1. IsVector(a) /\ ToSet(a) = {ObjectNode(o) : o \in ToSet(objects)}
  <2>1. DOMAIN a = DOMAIN objects /\ a = [k \in DOMAIN a |-> a[k]]
    OBVIOUS
  <2>2. ToSet(a) = {ObjectNode(o) : o \in ToSet(objects)}
    BY DEF ToSet
  <2>. HIDE DEF a
  <2>. QED  BY <2>1, <2>2, MappedVector
<1>2. IsVector(b) /\ ToSet(b) = {InstanceNode(x) : x \in ToSet(drawn)}
  <2>1. DOMAIN b = DOMAIN drawn /\ b = [k \in DOMAIN b |-> b[k]]
    OBVIOUS
  <2>2. ToSet(b) = {InstanceNode(x) : x \in ToSet(drawn)}
    BY DEF ToSet
  <2>. HIDE DEF b
  <2>. QED  BY <2>1, <2>2, MappedVector
<1>3. IsVector(e) /\ ToSet(e) = IF HasAnchorNode(d) THEN {AnchorNode} ELSE {}
  <2>1. IsVector(<<AnchorNode>>) /\ ToSet(<<AnchorNode>>) = {AnchorNode}
    BY OneVector
  <2>. QED  BY <2>1, EmptyVector
<1>4. DerivedNodes(d, objects, drawn) = a \o b \o e
  BY DEF DerivedNodes
<1>. HIDE DEF a, b, e
<1>5. IsVector(a \o b) /\ ToSet(a \o b) = ToSet(a) \cup ToSet(b)
  BY <1>1, <1>2, JoinedVectors
<1>6. ToSet((a \o b) \o e) = ToSet(a \o b) \cup ToSet(e)
  BY <1>3, <1>5, JoinedVectors
<1>. QED  BY <1>1, <1>2, <1>3, <1>4, <1>5, <1>6 DEF DerivedNodeSet

(***************************************************************************)
(* Drawings of tables that hold the same.                                  *)
(***************************************************************************)
LEMMA EdgesAgree ==
  ASSUME NEW d, NEW objects, IsVector(objects), NEW one, NEW other, SamePool(one, other)
  PROVE  /\ PlainEdges(DerivedEdges(d, objects, one)) = PlainEdges(DerivedEdges(d, objects, other))
         /\ EndsOf(DerivedEdges(d, objects, one)) = EndsOf(DerivedEdges(d, objects, other))
<1>. DEFINE rows(pool)  == FlattenSeq([k \in DOMAIN pool |-> InstanceEdges(d, pool[k])])
            lines(pool) == IF d.include_line_graph
                           THEN LineEdges(d, objects, DrawnLiterals(pool)) ELSE <<>>
            loops(pool) == AnchorLoops(d, pool)
<1>1. /\ Tabled(one) /\ Apart(one) /\ Tabled(other) /\ Apart(other)
      /\ IsVector(one) /\ IsVector(other) /\ ToSet(one) = ToSet(other)
  BY DEF SamePool, Tabled
<1>2. /\ IsVector(rows(one)) /\ IsVector(rows(other))
      /\ ToSet(rows(one)) = ToSet(rows(other))
  <2>1. /\ IsVector(rows(one))
        /\ ToSet(rows(one)) = UNION {ToSet(InstanceEdges(d, x)) : x \in ToSet(one)}
    BY <1>1, RowEdgesAre
  <2>2. /\ IsVector(rows(other))
        /\ ToSet(rows(other)) = UNION {ToSet(InstanceEdges(d, x)) : x \in ToSet(other)}
    BY <1>1, RowEdgesAre
  <2>. QED  BY <1>1, <2>1, <2>2
<1>3. /\ IsVector(loops(one)) /\ IsVector(loops(other))
      /\ ToSet(loops(one)) = ToSet(loops(other))
  BY <1>1, AnchorLoopsAre
<1>4. /\ IsVector(lines(one)) /\ IsVector(lines(other))
      /\ PlainEdges(lines(one)) = PlainEdges(lines(other))
      /\ EndsOf(lines(one)) = EndsOf(lines(other))
  <2>. DEFINE p == DrawnLiterals(one)
              q == DrawnLiterals(other)
  <2>1. Tabled(p) /\ Apart(p) /\ ToSet(p) = {x \in ToSet(one) : x.role # "action"}
    BY <1>1, DrawnLiteralsAre
  <2>2. Tabled(q) /\ Apart(q) /\ ToSet(q) = {x \in ToSet(other) : x.role # "action"}
    BY <1>1, DrawnLiteralsAre
  <2>3. lines(one) = (IF d.include_line_graph THEN LineEdges(d, objects, p) ELSE <<>>)
        /\ lines(other) = (IF d.include_line_graph THEN LineEdges(d, objects, q) ELSE <<>>)
    OBVIOUS
  <2>. HIDE DEF p, q, lines
  <2>4. SamePool(p, q)
    BY <1>1, <2>1, <2>2 DEF SamePool
  <2>5. EndsOf(LineEdges(d, objects, p)) = EndsOf(LineEdges(d, objects, q))
    BY <2>4, LineEdgesAgree
  <2>6. IsVector(LineEdges(d, objects, p)) /\ PlainEdges(LineEdges(d, objects, p)) = {}
    BY <2>1, LineEdgesAre
  <2>7. IsVector(LineEdges(d, objects, q)) /\ PlainEdges(LineEdges(d, objects, q)) = {}
    BY <2>2, LineEdgesAre
  <2>8. CASE d.include_line_graph
    BY <2>3, <2>5, <2>6, <2>7, <2>8
  <2>9. CASE ~d.include_line_graph
    BY <2>3, <2>9, NoEdgesDrawn
  <2>. QED  BY <2>8, <2>9
<1>5. /\ DerivedEdges(d, objects, one) = (rows(one) \o lines(one)) \o loops(one)
      /\ DerivedEdges(d, objects, other) = (rows(other) \o lines(other)) \o loops(other)
  BY DEF DerivedEdges
<1>6. /\ PlainEdges(rows(one)) = PlainEdges(rows(other)) /\ EndsOf(rows(one)) = EndsOf(rows(other))
      /\ PlainEdges(loops(one)) = PlainEdges(loops(other)) /\ EndsOf(loops(one)) = EndsOf(loops(other))
  BY <1>2, <1>3 DEF PlainEdges, EndsOf
<1>. HIDE DEF rows, lines, loops
<1>7. ASSUME NEW pool, IsVector(rows(pool)), IsVector(lines(pool)), IsVector(loops(pool))
      PROVE  /\ PlainEdges((rows(pool) \o lines(pool)) \o loops(pool))
                  = PlainEdges(rows(pool)) \cup PlainEdges(lines(pool)) \cup PlainEdges(loops(pool))
             /\ EndsOf((rows(pool) \o lines(pool)) \o loops(pool))
                  = EndsOf(rows(pool)) \cup EndsOf(lines(pool)) \cup EndsOf(loops(pool))
  <2>1. /\ IsVector(rows(pool) \o lines(pool))
        /\ PlainEdges(rows(pool) \o lines(pool)) = PlainEdges(rows(pool)) \cup PlainEdges(lines(pool))
        /\ EndsOf(rows(pool) \o lines(pool)) = EndsOf(rows(pool)) \cup EndsOf(lines(pool))
    BY <1>7, EdgesJoined
  <2>2. /\ PlainEdges((rows(pool) \o lines(pool)) \o loops(pool))
             = PlainEdges(rows(pool) \o lines(pool)) \cup PlainEdges(loops(pool))
        /\ EndsOf((rows(pool) \o lines(pool)) \o loops(pool))
             = EndsOf(rows(pool) \o lines(pool)) \cup EndsOf(loops(pool))
    BY <1>7, <2>1, EdgesJoined
  <2>. QED  BY <2>1, <2>2
<1>. QED  BY <1>2, <1>3, <1>4, <1>5, <1>6, <1>7

LEMMA NodesAgree ==
  ASSUME NEW d, NEW objects, IsVector(objects), NEW one, NEW other, SamePool(one, other)
  PROVE  ToSet(DerivedNodes(d, objects, Drawn(d, one)))
           = ToSet(DerivedNodes(d, objects, Drawn(d, other)))
<1>. DEFINE p == Drawn(d, one)
            q == Drawn(d, other)
<1>1. IsVector(one) /\ IsVector(other) /\ ToSet(one) = ToSet(other)
  BY DEF SamePool, Tabled
<1>2. IsVector(p) /\ ToSet(p) = {x \in ToSet(one) : HasNode(d, x)}
  BY <1>1, DrawnRowsAre
<1>3. IsVector(q) /\ ToSet(q) = {x \in ToSet(other) : HasNode(d, x)}
  BY <1>1, DrawnRowsAre
<1>. HIDE DEF p, q
<1>4. ToSet(p) = ToSet(q)
  BY <1>1, <1>2, <1>3
<1>5. ToSet(DerivedNodes(d, objects, p)) = DerivedNodeSet(d, ToSet(objects), ToSet(p))
  BY <1>2, NodeSetIs
<1>6. ToSet(DerivedNodes(d, objects, q)) = DerivedNodeSet(d, ToSet(objects), ToSet(q))
  BY <1>3, NodeSetIs
<1>7. ToSet(DerivedNodes(d, objects, p)) = ToSet(DerivedNodes(d, objects, q))
  BY <1>4, <1>5, <1>6
<1>. QED  BY <1>7 DEF p, q

LEMMA OffsetsAgree ==
  ASSUME NEW one, NEW other, ToSet(one) = ToSet(other)
  PROVE  HistoryDtOffset(one) = HistoryDtOffset(other)
<1>1. {-one[k].dt : k \in DOMAIN one} = {-x.dt : x \in ToSet(one)}
  BY DEF ToSet
<1>2. {-other[k].dt : k \in DOMAIN other} = {-x.dt : x \in ToSet(other)}
  BY DEF ToSet
<1>3. {-one[k].dt : k \in DOMAIN one} = {-other[k].dt : k \in DOMAIN other}
  BY <1>1, <1>2
<1>. QED  BY <1>3 DEF HistoryDtOffset

LEMMA DrawingsAgree ==
  ASSUME NEW d, NEW objects, IsVector(objects), NEW one, NEW other,
         SameContent(one, other), Tabled(other)
  PROVE  AsDrawn(DerivedEncodeOf(d, objects, one)) = AsDrawn(DerivedEncodeOf(d, objects, other))
<1>. DEFINE p == PoolOf(one)
            q == PoolOf(other)
            x == DerivedEncodeOf(d, objects, one)
            y == DerivedEncodeOf(d, objects, other)
<1>1. IsVector(one) /\ IsVector(other) /\ ToSet(one) = ToSet(other)
  BY DEF SameContent
<1>2. IsVector(p) /\ ToSet(p) = ToSet(one) /\ Apart(p)
  BY <1>1, PoolVector, PoolApart
<1>3. IsVector(q) /\ ToSet(q) = ToSet(other) /\ Apart(q)
  BY <1>1, PoolVector, PoolApart
<1>4. /\ x.nodes = DerivedNodes(d, objects, Drawn(d, p)) /\ x.edges = DerivedEdges(d, objects, p)
      /\ x.instances = one
      /\ x.distances = IF d.include_spd THEN Distances(d, objects, one) ELSE <<>>
      /\ x.dt_offset = HistoryDtOffset(one)
  BY DEF DerivedEncodeOf, DerivedGraphOf
<1>5. /\ y.nodes = DerivedNodes(d, objects, Drawn(d, q)) /\ y.edges = DerivedEdges(d, objects, q)
      /\ y.instances = other
      /\ y.distances = IF d.include_spd THEN Distances(d, objects, other) ELSE <<>>
      /\ y.dt_offset = HistoryDtOffset(other)
  BY DEF DerivedEncodeOf, DerivedGraphOf
<1>. HIDE DEF p, q, x, y
<1>6. SamePool(p, q)
  BY <1>1, <1>2, <1>3 DEF SamePool, Tabled
<1>7. ToSet(x.nodes) = ToSet(y.nodes)
  BY <1>4, <1>5, <1>6, NodesAgree
<1>8. PlainEdges(x.edges) = PlainEdges(y.edges) /\ EndsOf(x.edges) = EndsOf(y.edges)
  BY <1>4, <1>5, <1>6, EdgesAgree
<1>9. SortedGoals(x.instances) = SortedGoals(y.instances)
  BY <1>4, <1>5, ContentSorted
<1>10. x.distances = y.distances
  BY <1>1, <1>4, <1>5 DEF Distances
<1>11. x.dt_offset = y.dt_offset
  BY <1>1, <1>4, <1>5, OffsetsAgree
<1>12. AsDrawn(x) = AsDrawn(y)
  BY <1>7, <1>8, <1>9, <1>10, <1>11 DEF AsDrawn, PlainEdges, EndsOf
<1>. QED  BY <1>12 DEF x, y

(***************************************************************************)
(* Every row of the table has arguments.                                   *)
(***************************************************************************)
LEMMA RowsTabled ==
  ASSUME NEW s, IsVector(s), NEW t, DOMAIN t = DOMAIN s, t = [k \in DOMAIN t |-> t[k]],
         \A k \in DOMAIN s : IsVector(t[k].arguments)
  PROVE  Tabled(t)
<1>1. IsVector(t)
  BY MappedVector
<1>2. \A x \in ToSet(t) : \E k \in DOMAIN t : x = t[k]
  BY DEF ToSet
<1>. QED  BY <1>1, <1>2 DEF Tabled

LEMMA TabledJoined ==
  ASSUME NEW s, Tabled(s), NEW t, Tabled(t)
  PROVE  Tabled(s \o t)
<1>1. IsVector(s) /\ IsVector(t)
  BY DEF Tabled
<1>2. IsVector(s \o t) /\ ToSet(s \o t) = ToSet(s) \cup ToSet(t)
  BY <1>1, JoinedVectors
<1>. QED  BY <1>2 DEF Tabled

LEMMA TabledFlattened ==
  ASSUME NEW n \in Nat, NEW t, DOMAIN t = 1..n, t = [i \in 1..n |-> t[i]],
         \A i \in 1..n : Tabled(t[i])
  PROVE  Tabled(FlattenSeq(t))
<1>1. \A i \in 1..n : IsVector(t[i])
  BY DEF Tabled
<1>2. IsVector(FlattenSeq(t)) /\ ToSet(FlattenSeq(t)) = UNION {ToSet(t[i]) : i \in 1..n}
  BY <1>1, FlattenedVectors
<1>3. \A x \in ToSet(FlattenSeq(t)) : \E i \in 1..n : x \in ToSet(t[i])
  BY <1>2
<1>. QED  BY <1>2, <1>3 DEF Tabled

LEMMA LiteralHasArguments ==
  ASSUME NEW literal, IsLiteral(literal)
  PROVE  IsVector(literal.atom.arguments)
BY DEF IsLiteral, IsAtom

LEMMA HistoryTabled ==
  ASSUME NEW recent, IsHistory(recent)
  PROVE  Tabled(HistoryInstances(recent))
<1>. DEFINE t == [k \in DOMAIN recent |-> EntryInstances(recent[k])]
<1>1. /\ Len(recent) \in Nat /\ DOMAIN recent = 1..Len(recent)
      /\ \A k \in DOMAIN recent : recent[k] \in ToSet(recent)
  BY VectorFacts DEF IsHistory
<1>2. ASSUME NEW k \in 1..Len(recent)
      PROVE  Tabled(t[k])
  <2>1. IsEntry(recent[k])
    BY <1>1 DEF IsHistory
  <2>. DEFINE literals == recent[k].literals
              rows == EntryInstances(recent[k])
  <2>2. IsVector(literals) /\ \A literal \in ToSet(literals) : IsLiteral(literal)
    BY <2>1 DEF IsEntry, AreLiterals
  <2>3. \A n \in DOMAIN literals : literals[n] \in ToSet(literals)
    BY <2>2, VectorFacts
  <2>4. DOMAIN rows = DOMAIN literals /\ rows = [n \in DOMAIN rows |-> rows[n]]
        /\ \A n \in DOMAIN literals : rows[n].arguments = literals[n].atom.arguments
    BY DEF EntryInstances, InstanceOf
  <2>5. t[k] = rows
    BY <1>1
  <2>. HIDE DEF t, rows, literals
  <2>6. \A n \in DOMAIN literals : IsVector(rows[n].arguments)
    BY <2>2, <2>3, <2>4, LiteralHasArguments
  <2>. QED  BY <2>2, <2>4, <2>5, <2>6, RowsTabled
<1>3. DOMAIN t = 1..Len(recent) /\ t = [k \in 1..Len(recent) |-> t[k]]
  BY <1>1
<1>4. HistoryInstances(recent) = FlattenSeq(t)
  BY DEF HistoryInstances
<1>. HIDE DEF t
<1>. QED  BY <1>1, <1>2, <1>3, <1>4, TabledFlattened

LEMMA InstancesTabled ==
  ASSUME NEW lanes, AreFacts(lanes.static), AreFacts(lanes.facts), AreActions(lanes.actions),
         IsHistory(RecentOf(lanes)), IsVector(lanes.goals), \A goal \in ToSet(lanes.goals) : IsGoal(goal)
  PROVE  Tabled(Instances(lanes))
<1>. DEFINE atoms == Ordered(lanes.static) \o Ordered(lanes.facts)
            facts == FactInstances(atoms)
            goals == GoalInstances(lanes.goals)
            history == HistoryInstances(RecentOf(lanes))
            actions == [k \in DOMAIN lanes.actions |-> ActionInstance(lanes.actions[k])]
<1>1. Tabled(facts)
  <2>1. /\ IsVector(Ordered(lanes.static)) /\ ToSet(Ordered(lanes.static)) = lanes.static
        /\ IsVector(Ordered(lanes.facts)) /\ ToSet(Ordered(lanes.facts)) = lanes.facts
    BY OrderedVector DEF AreFacts
  <2>2. IsVector(atoms) /\ ToSet(atoms) = lanes.static \cup lanes.facts
    BY <2>1, JoinedVectors
  <2>3. \A atom \in lanes.static \cup lanes.facts : IsVector(atom.arguments)
    BY DEF AreFacts, IsAtom
  <2>. HIDE DEF atoms
  <2>4. \A k \in DOMAIN atoms : atoms[k] \in ToSet(atoms)
    BY <2>2, VectorFacts
  <2>5. DOMAIN facts = DOMAIN atoms /\ facts = [k \in DOMAIN facts |-> facts[k]]
        /\ \A k \in DOMAIN atoms : facts[k].arguments = atoms[k].arguments
    BY DEF FactInstances, InstanceOf, Literal
  <2>. HIDE DEF facts
  <2>6. \A k \in DOMAIN atoms : IsVector(facts[k].arguments)
    BY <2>2, <2>3, <2>4, <2>5
  <2>. QED  BY <2>2, <2>5, <2>6, RowsTabled
<1>2. Tabled(goals)
  <2>1. DOMAIN goals = DOMAIN lanes.goals /\ goals = [k \in DOMAIN goals |-> goals[k]]
        /\ \A k \in DOMAIN lanes.goals : goals[k].arguments = lanes.goals[k].literal.atom.arguments
    BY DEF GoalInstances, InstanceOf
  <2>2. \A k \in DOMAIN lanes.goals : lanes.goals[k] \in ToSet(lanes.goals)
    BY VectorFacts
  <2>. HIDE DEF goals
  <2>3. \A k \in DOMAIN lanes.goals : IsVector(goals[k].arguments)
    BY <2>1, <2>2, LiteralHasArguments DEF IsGoal
  <2>. QED  BY <2>1, <2>3, RowsTabled
<1>3. Tabled(history)
  BY HistoryTabled
<1>4. Tabled(actions)
  <2>1. DOMAIN actions = DOMAIN lanes.actions /\ actions = [k \in DOMAIN actions |-> actions[k]]
        /\ \A k \in DOMAIN lanes.actions : actions[k].arguments = lanes.actions[k].arguments
    BY DEF ActionInstance
  <2>2. IsVector(lanes.actions) /\ \A action \in ToSet(lanes.actions) : IsVector(action.arguments)
    BY DEF AreActions
  <2>3. \A k \in DOMAIN lanes.actions : lanes.actions[k] \in ToSet(lanes.actions)
    BY <2>2, VectorFacts
  <2>. HIDE DEF actions
  <2>4. \A k \in DOMAIN lanes.actions : IsVector(actions[k].arguments)
    BY <2>1, <2>2, <2>3
  <2>. QED  BY <2>1, <2>2, <2>4, RowsTabled
<1>5. Instances(lanes) = ((facts \o goals) \o history) \o actions
  BY DEF Instances, RecentOf
<1>. HIDE DEF facts, goals, history, actions
<1>. QED  BY <1>1, <1>2, <1>3, <1>4, <1>5, TabledJoined

GoalAtoms(goals) == {goals[k].literal.atom : k \in DOMAIN goals}

LEMMA GoalAtomsAgree ==
  ASSUME NEW goals, IsVector(goals), NEW sorted, sorted = SortedGoals(goals)
  PROVE  GoalAtoms(sorted) = GoalAtoms(goals)
<1>1. ToSet(sorted) = ToSet(goals)
  BY SortedGoalsAre
<1>2. {sorted[k].literal.atom : k \in DOMAIN sorted} = {goal.literal.atom : goal \in ToSet(sorted)}
  BY DEF ToSet
<1>3. {goals[k].literal.atom : k \in DOMAIN goals} = {goal.literal.atom : goal \in ToSet(goals)}
  BY DEF ToSet
<1>. QED  BY <1>1, <1>2, <1>3 DEF GoalAtoms

LEMMA DerivedOutcomesAgree ==
  ASSUME NEW in, IsOwnedInput(in)
  PROVE  DerivedOutcome(OwnedOccurrences(in)) = DerivedOutcome(ViewOccurrences(Preparation(in)))
<1>. DEFINE one   == OwnedOccurrences(in)
            other == ViewOccurrences(Preparation(in))
            recent == OrderedHistory(in.history, in.max_steps)
<1>1. /\ SameState(one, other)
      /\ IsVector(other.goals) /\ one.goals = SortedGoals(other.goals)
      /\ other.goals = WrittenGoals(EffectiveLayers(in))
      /\ RecentOf(one) = recent
      /\ one.objects = in.objects /\ one.static = in.static /\ one.facts = in.facts
      /\ one.actions = in.actions
  BY OccurrencesDiffer
<1>2. AreLayers(EffectiveLayers(in))
  BY EffectiveLayersAre
<1>3. \A goal \in ToSet(WrittenGoals(EffectiveLayers(in))) : IsGoal(goal)
  BY <1>2, WrittenAreGoals
<1>4. /\ IsFiniteSet(in.objects) /\ AreFacts(in.static) /\ AreFacts(in.facts)
      /\ AreActions(in.actions) /\ IsHistory(recent)
  BY OrderedOnce DEF IsOwnedInput
<1>5. IsFiniteSet(in.static) /\ IsFiniteSet(in.facts) /\ IsVector(in.actions)
  BY <1>4 DEF AreFacts, AreActions
<1>. HIDE DEF one, other, recent
<1>6. /\ other.objects = in.objects /\ other.static = in.static /\ other.facts = in.facts
      /\ other.actions = in.actions /\ RecentOf(other) = recent
  BY <1>1 DEF SameState
<1>7. \A goal \in ToSet(other.goals) : IsGoal(goal)
  BY <1>1, <1>3
<1>8. SameContent(Instances(one), Instances(other))
  BY <1>1, <1>4, <1>5, <1>6, <1>7, InstancesContent
<1>9. Tabled(Instances(other))
  BY <1>1, <1>4, <1>6, <1>7, InstancesTabled
<1>10. IsVector(Ordered(other.objects))
  BY <1>4, <1>6, OrderedVector
<1>11. AsDrawn(DerivedEncode(c, one)) = AsDrawn(DerivedEncode(c, other))
  <2>1. AsDrawn(DerivedEncodeOf(c, Ordered(other.objects), Instances(one)))
          = AsDrawn(DerivedEncodeOf(c, Ordered(other.objects), Instances(other)))
    BY <1>8, <1>9, <1>10, DrawingsAgree
  <2>. QED  BY <1>1, <1>6, <2>1 DEF DerivedEncode
<1>12. DerivedRefused(one) <=> DerivedRefused(other)
  <2>1. GoalAtoms(one.goals) = GoalAtoms(other.goals)
    BY <1>1, GoalAtomsAgree
  <2>. QED  BY <1>1, <1>6, <2>1 DEF DerivedRefused, GoalAtoms
<1>13. DerivedOutcome(one) = DerivedOutcome(other)
  BY <1>11, <1>12 DEF DerivedOutcome
<1>. QED  BY <1>13 DEF one, other

-----------------------------------------------------------------------------
(***************************************************************************)
(* The input that a session encodes.                                       *)
(***************************************************************************)
PlannedInput(in) ==
  /\ DOMAIN in = OwnedFields /\ IsOwnedInput(in) /\ in.objects = Start.objects
  /\ in.facts \subseteq GroundAtoms /\ IsPast(in.history) /\ AreOffered(in.actions)

LEMMA GroundAtomsAre ==
  ASSUME NEW atom \in GroundAtoms
  PROVE  /\ IsAtom(atom) /\ atom.predicate \in Predicates
         /\ Len(atom.arguments) = Arity[atom.predicate]
         /\ ToSet(atom.arguments) \subseteq Start.objects
<1>1. PICK p \in Predicates : \E arguments \in [1..Arity[p] -> Start.objects] : atom = Atom(p, arguments)
  BY DEF GroundAtoms
<1>2. PICK arguments \in [1..Arity[p] -> Start.objects] : atom = Atom(p, arguments)
  BY <1>1
<1>3. atom.predicate = p /\ atom.arguments = arguments
  BY <1>2 DEF Atom
<1>4. Arity[p] \in Nat
  BY SchemaAssumption
<1>5. arguments \in Seq(Start.objects) /\ Len(arguments) = Arity[p]
  BY <1>2, <1>4, SeqOfLength
<1>6. IsVector(arguments) /\ ToSet(arguments) \subseteq Start.objects
  BY <1>5, IntoVector
<1>. QED  BY <1>2, <1>3, <1>5, <1>6 DEF IsAtom

LEMMA PlannedPast ==
  ASSUME NEW in, PlannedInput(in)
  PROVE  PastIsValid(in)
<1>1. in.objects = Start.objects /\ IsPast(in.history)
  BY DEF PlannedInput
<1>2. \A atom \in GroundAtoms : ValidAtom(in, atom)
  BY <1>1, GroundAtomsAre DEF ValidAtom
<1>. QED  BY <1>1, <1>2 DEF PastIsValid, IsPast

LEMMA StartPlanned == PlannedInput(Start)
BY PlannerGiven, InputsOwned DEF PlannedInput

LEMMA EffectsAre ==
  ASSUME NEW before, NEW after, before \subseteq GroundAtoms, after \subseteq GroundAtoms,
         IsFiniteSet(before), IsFiniteSet(after)
  PROVE  /\ AreLiterals(EffectsOf(before, after))
         /\ \A literal \in ToSet(EffectsOf(before, after)) : literal.atom \in GroundAtoms
<1>. DEFINE P == Dynamic(after) \ Dynamic(before)
            Q == Dynamic(before) \ Dynamic(after)
            added == Ordered(P)
            removed == Ordered(Q)
            a == [k \in DOMAIN added |-> Literal(added[k], TRUE)]
            b == [k \in DOMAIN removed |-> Literal(removed[k], FALSE)]
<1>1. P \subseteq GroundAtoms /\ Q \subseteq GroundAtoms
  BY DEF Dynamic
<1>2. P \subseteq after /\ Q \subseteq before
  BY DEF Dynamic
<1>3. IsFiniteSet(P) /\ IsFiniteSet(Q)
  BY <1>2, FS_Subset
<1>. HIDE DEF P, Q
<1>4. /\ IsVector(added) /\ ToSet(added) = P
      /\ IsVector(removed) /\ ToSet(removed) = Q
  BY <1>3, OrderedVector
<1>. HIDE DEF added, removed
<1>5. /\ \A k \in DOMAIN added : added[k] \in P
      /\ \A k \in DOMAIN removed : removed[k] \in Q
  BY <1>4, VectorFacts
<1>6. DOMAIN a = DOMAIN added /\ a = [k \in DOMAIN a |-> a[k]]
      /\ \A k \in DOMAIN a : a[k] = Literal(added[k], TRUE)
  OBVIOUS
<1>7. DOMAIN b = DOMAIN removed /\ b = [k \in DOMAIN b |-> b[k]]
      /\ \A k \in DOMAIN b : b[k] = Literal(removed[k], FALSE)
  OBVIOUS
<1>8. EffectsOf(before, after) = a \o b
  BY DEF EffectsOf, added, removed, P, Q
<1>. HIDE DEF a, b
<1>9. IsVector(a) /\ IsVector(b)
  BY <1>4, <1>6, <1>7, MappedVector
<1>10. IsVector(a \o b) /\ ToSet(a \o b) = ToSet(a) \cup ToSet(b)
  BY <1>9, JoinedVectors
<1>11. \A atom \in GroundAtoms : \A positive \in BOOLEAN :
         IsLiteral(Literal(atom, positive)) /\ Literal(atom, positive).atom = atom
  BY GroundAtomsAre DEF IsLiteral, Literal
<1>12. \A literal \in ToSet(a) \cup ToSet(b) :
         \E atom \in GroundAtoms : \E positive \in BOOLEAN : literal = Literal(atom, positive)
  <2>1. \A literal \in ToSet(a) : \E k \in DOMAIN a : literal = Literal(added[k], TRUE)
    BY <1>6 DEF ToSet
  <2>2. \A literal \in ToSet(b) : \E k \in DOMAIN b : literal = Literal(removed[k], FALSE)
    BY <1>7 DEF ToSet
  <2>3. /\ \A k \in DOMAIN a : added[k] \in GroundAtoms
        /\ \A k \in DOMAIN b : removed[k] \in GroundAtoms
    BY <1>1, <1>5, <1>6, <1>7
  <2>4. \A literal \in ToSet(a) :
          \E atom \in GroundAtoms : literal = Literal(atom, TRUE)
    BY <2>1, <2>3
  <2>5. \A literal \in ToSet(b) :
          \E atom \in GroundAtoms : literal = Literal(atom, FALSE)
    BY <2>2, <2>3
  <2>. QED  BY ONLY <2>4, <2>5
<1>13. \A literal \in ToSet(a) \cup ToSet(b) : IsLiteral(literal) /\ literal.atom \in GroundAtoms
  BY <1>11, <1>12
<1>. QED  BY <1>8, <1>10, <1>13 DEF AreLiterals

LEMMA AgedIs ==
  ASSUME NEW history, IsHistory(history), IsPast(history)
  PROVE  IsHistory(Aged(history)) /\ IsPast(Aged(history))
<1>. DEFINE t == Aged(history)
<1>1. IsVector(history) /\ \A i \in DOMAIN history : history[i] \in ToSet(history)
  BY VectorFacts DEF IsHistory
<1>2. DOMAIN t = DOMAIN history /\ t = [i \in DOMAIN t |-> t[i]]
      /\ \A i \in DOMAIN history : t[i] = [history[i] EXCEPT !.dt = @ - 1]
  BY DEF Aged
<1>. HIDE DEF t
<1>3. IsVector(t)
  BY <1>1, <1>2, MappedVector
<1>4. ASSUME NEW i \in DOMAIN history
      PROVE  /\ IsEntry(t[i]) /\ t[i].dt < 0
             /\ \A literal \in ToSet(t[i].literals) : literal.atom \in GroundAtoms
  <2>. DEFINE e == history[i]
  <2>1. IsEntry(e) /\ e.dt < 0 /\ \A literal \in ToSet(e.literals) : literal.atom \in GroundAtoms
    BY <1>1 DEF IsHistory, IsPast
  <2>2. t[i] = [e EXCEPT !.dt = e.dt - 1]
    BY <1>2
  <2>3. e = [dt |-> e.dt, literals |-> e.literals] /\ e.dt \in Int /\ AreLiterals(e.literals)
    BY <2>1 DEF IsEntry
  <2>. HIDE DEF e
  <2>4. t[i] = [dt |-> e.dt - 1, literals |-> e.literals]
    BY <2>2, <2>3
  <2>5. t[i].dt = e.dt - 1 /\ t[i].literals = e.literals
    BY <2>4
  <2>6. e.dt - 1 \in Int /\ e.dt - 1 < 0
    BY <2>1, <2>3
  <2>. QED  BY <2>1, <2>3, <2>4, <2>5, <2>6 DEF IsEntry
<1>5. \A entry \in ToSet(t) : \E i \in DOMAIN history : entry = t[i]
  BY <1>2 DEF ToSet
<1>6. IsHistory(t)
  BY <1>3, <1>4, <1>5 DEF IsHistory
<1>7. IsPast(t)
  BY <1>4, <1>5 DEF IsPast
<1>. QED  BY <1>6, <1>7 DEF t

LEMMA LaterHistory ==
  ASSUME NEW history, IsHistory(history), IsPast(history),
         NEW literals, AreLiterals(literals),
         \A literal \in ToSet(literals) : literal.atom \in GroundAtoms
  PROVE  /\ IsHistory(Append(history, [dt |-> -1, literals |-> literals]))
         /\ IsPast(Append(history, [dt |-> -1, literals |-> literals]))
<1>. DEFINE e == [dt |-> -1, literals |-> literals]
            t == Append(history, e)
<1>1. IsEntry(e) /\ e.dt < 0 /\ e.literals = literals
  BY DEF IsEntry
<1>. HIDE DEF e
<1>2. IsVector(history) /\ history \in Seq(ToSet(history))
  BY VectorFacts DEF IsHistory
<1>3. IsVector(<<e>>) /\ ToSet(<<e>>) = {e}
  BY OneVector
<1>4. t = history \o <<e>>
  <2>1. history \in Seq(ToSet(history) \cup {e}) /\ e \in ToSet(history) \cup {e}
    BY <1>2, VectorIn
  <2>. QED  BY <2>1, AppendIsConcat
<1>. HIDE DEF t
<1>5. IsVector(t) /\ ToSet(t) = ToSet(history) \cup {e}
  BY <1>2, <1>3, <1>4, JoinedVectors
<1>6. IsHistory(t)
  BY <1>1, <1>5 DEF IsHistory
<1>7. IsPast(t)
  BY <1>1, <1>5 DEF IsPast
<1>. QED  BY <1>6, <1>7 DEF t, e

LEMMA ActPlanned ==
  ASSUME PlannedInput(root), NEW action \in Moves, Act(action)
  PROVE  PlannedInput(root')
<1>. DEFINE after == Result(root.facts, action)
            e == [dt |-> -1, literals |-> EffectsOf(root.facts, after)]
            later == Append(Aged(root.history), e)
<1>1. /\ DOMAIN root = OwnedFields /\ IsOwnedInput(root) /\ root.objects = Start.objects
      /\ root.facts \subseteq GroundAtoms /\ IsPast(root.history) /\ AreOffered(root.actions)
  BY DEF PlannedInput
<1>2. root' = [root EXCEPT !.facts = after, !.history = later]
  BY DEF Act
<1>3. after \subseteq GroundAtoms /\ IsFiniteSet(after)
  BY <1>1, PlannerGiven
<1>4. AreFacts(after)
  BY <1>3, GroundAtomsAre DEF AreFacts
<1>5. IsFiniteSet(root.facts) /\ IsHistory(root.history)
  BY <1>1 DEF IsOwnedInput, AreFacts
<1>6. /\ AreLiterals(EffectsOf(root.facts, after))
      /\ \A literal \in ToSet(EffectsOf(root.facts, after)) : literal.atom \in GroundAtoms
  <2>. HIDE DEF after
  <2>. QED  BY <1>1, <1>3, <1>5, EffectsAre
<1>7. IsHistory(Aged(root.history)) /\ IsPast(Aged(root.history))
  BY <1>1, <1>5, AgedIs
<1>8. IsHistory(later) /\ IsPast(later)
  BY <1>6, <1>7, LaterHistory
<1>. HIDE DEF after, e, later
<1>9. /\ DOMAIN root' = DOMAIN root
      /\ root'.facts = after /\ root'.history = later
      /\ root'.objects = root.objects /\ root'.static = root.static /\ root'.layers = root.layers
      /\ root'.default_goals = root.default_goals /\ root'.actions = root.actions
  BY <1>1, <1>2 DEF OwnedFields
<1>10. IsOwnedInput(root')
  BY <1>1, <1>4, <1>8, <1>9 DEF IsOwnedInput
<1>. QED  BY <1>1, <1>3, <1>8, <1>9, <1>10 DEF PlannedInput

LEMMA SubgoalsPlanned ==
  ASSUME PlannedInput(root), NEW layers \in Subgoals, SetSubgoals(layers)
  PROVE  PlannedInput(root')
<1>1. /\ DOMAIN root = OwnedFields /\ IsOwnedInput(root) /\ root.objects = Start.objects
      /\ root.facts \subseteq GroundAtoms /\ IsPast(root.history) /\ AreOffered(root.actions)
  BY DEF PlannedInput
<1>2. root' = [root EXCEPT !.layers = layers]
  BY DEF SetSubgoals
<1>3. AreLayers(layers)
  BY PlannerGiven
<1>4. /\ DOMAIN root' = DOMAIN root
      /\ root'.facts = root.facts /\ root'.history = root.history
      /\ root'.objects = root.objects /\ root'.static = root.static /\ root'.layers = layers
      /\ root'.default_goals = root.default_goals /\ root'.actions = root.actions
  BY <1>1, <1>2 DEF OwnedFields
<1>5. IsOwnedInput(root')
  BY <1>1, <1>3, <1>4 DEF IsOwnedInput
<1>. QED  BY <1>1, <1>4, <1>5 DEF PlannedInput

LEMMA OffersPlanned ==
  ASSUME PlannedInput(root), NEW actions \in Offers, OfferActions(actions)
  PROVE  PlannedInput(root')
<1>1. /\ DOMAIN root = OwnedFields /\ IsOwnedInput(root) /\ root.objects = Start.objects
      /\ root.facts \subseteq GroundAtoms /\ IsPast(root.history) /\ AreOffered(root.actions)
  BY DEF PlannedInput
<1>2. root' = [root EXCEPT !.actions = actions]
  BY DEF OfferActions
<1>3. AreOffered(actions) /\ AreActions(actions)
  BY PlannerGiven DEF AreOffered
<1>4. /\ DOMAIN root' = DOMAIN root
      /\ root'.facts = root.facts /\ root'.history = root.history
      /\ root'.objects = root.objects /\ root'.static = root.static /\ root'.layers = root.layers
      /\ root'.default_goals = root.default_goals /\ root'.actions = actions
  BY <1>1, <1>2 DEF OwnedFields
<1>5. IsOwnedInput(root')
  BY <1>1, <1>3, <1>4 DEF IsOwnedInput
<1>. QED  BY <1>1, <1>3, <1>4, <1>5 DEF PlannedInput

LEMMA PlannedNext ==
  ASSUME PlannedInput(root), [Next]_vars
  PROVE  PlannedInput(root')
<1>1. ASSUME NEW action \in Moves, Act(action)
      PROVE  PlannedInput(root')
  BY <1>1, ActPlanned
<1>2. ASSUME NEW layers \in Subgoals, SetSubgoals(layers)
      PROVE  PlannedInput(root')
  BY <1>2, SubgoalsPlanned
<1>3. ASSUME NEW actions \in Offers, OfferActions(actions)
      PROVE  PlannedInput(root')
  BY <1>3, OffersPlanned
<1>4. CASE UNCHANGED root
  BY <1>4
<1>5. \/ \E action \in Moves : Act(action)
      \/ \E layers \in Subgoals : SetSubgoals(layers)
      \/ \E actions \in Offers : OfferActions(actions)
      \/ UNCHANGED root
  BY DEF vars, Next, Expand, AppendReturns, AppendRaises, UpdateRelations, Flush, AddComponent,
         Compile, AddRecord, Give, SetAttribute, ReadTargetNames
<1>. QED  BY <1>1, <1>2, <1>3, <1>4, <1>5

LEMMA PlannedTells == PlannedInput(root) => ViewsEncodeLikeOwned
<1>. SUFFICES ASSUME PlannedInput(root), caller = "encoding"
              PROVE  ViewsEncodeLikeOwned
  BY DEF ViewsEncodeLikeOwned
<1>1. IsOwnedInput(root) /\ PastIsValid(root)
  BY PlannedPast DEF PlannedInput
<1>2. DerivedOutcome(OwnedOccurrences(root)) = DerivedOutcome(ViewOccurrences(Preparation(root)))
  BY <1>1, DerivedOutcomesAgree
<1>3. ColorOutcome(OwnedOccurrences(root)) = ColorOutcome(ViewOccurrences(Preparation(root)))
  BY <1>1, ColorOutcomesAgree
<1>4. HeteroOutcome(Owned) = HeteroOutcome(Viewed) /\ FlatOutcome(Owned) = FlatOutcome(Viewed)
  BY <1>1, PlainOutcomesAgree DEF Owned, Viewed
<1>5. \A action \in Moves :
        SuccessorOutcome(Owned, OwnedLanes(Successor(action)))
          = SuccessorOutcome(Viewed, ViewLanes(StatePreparation(Successor(action))))
  BY <1>1, SuccessorsAgree DEF Owned, Viewed
<1>. QED  BY <1>2, <1>3, <1>4, <1>5 DEF ViewsEncodeLikeOwned

\* Whatever planners do and callers ask for, views of a state, and the owned
\* input of it, are refused or encoded alike by every encoder (prepare_goals and
\* the pools of semantic_preparation.hpp).
THEOREM ViewsAlwaysEncodeLikeOwned == Spec => []ViewsEncodeLikeOwned
<1>1. Init => PlannedInput(root)
  BY StartPlanned DEF Init
<1>2. PlannedInput(root) /\ [Next]_vars => PlannedInput(root')
  BY PlannedNext
<1>3. PlannedInput(root) => ViewsEncodeLikeOwned
  BY PlannedTells
<1>. DEFINE Inv == PlannedInput(root)
<1>4. Init => Inv
  BY <1>1
<1>5. Inv /\ [Next]_vars => Inv'
  BY <1>2 DEF PlannedInput
<1>6. Inv => ViewsEncodeLikeOwned
  BY <1>3
<1>. HIDE DEF Inv
<1>. QED  BY <1>4, <1>5, <1>6, PTL DEF Spec

-----------------------------------------------------------------------------
(***************************************************************************)
(* How far one reaches over the rows of a table, step by step.             *)
(***************************************************************************)
IsNear(g, rows, o, n) ==
  g = [i \in 0..n |-> IF i = 0 THEN {o} ELSE OneFurther(rows, g[i - 1])]

LEMMA NearExists ==
  ASSUME NEW rows, NEW o, NEW n \in Nat
  PROVE  \E g : IsNear(g, rows, o, n)
<1>. DEFINE Made == {m \in Nat : \E g : IsNear(g, rows, o, m)}
<1>1. 0 \in Made
  <2>. DEFINE g == [i \in 0..0 |-> {o}]
  <2>1. g = [i \in 0..0 |-> IF i = 0 THEN {o} ELSE OneFurther(rows, g[i - 1])]
    OBVIOUS
  <2>. QED  BY <2>1 DEF IsNear
<1>2. ASSUME NEW m \in Nat, m \in Made
      PROVE  m + 1 \in Made
  <2>1. PICK g : IsNear(g, rows, o, m)
    BY <1>2
  <2>. DEFINE h == [i \in 0..(m + 1) |-> IF i <= m THEN g[i] ELSE OneFurther(rows, g[m])]
  <2>2. \A i \in 0..m : g[i] = IF i = 0 THEN {o} ELSE OneFurther(rows, g[i - 1])
    BY <2>1 DEF IsNear
  <2>3. ASSUME NEW i \in 0..(m + 1)
        PROVE  h[i] = IF i = 0 THEN {o} ELSE OneFurther(rows, h[i - 1])
    <3>1. CASE i = m + 1
      <4>1. h[i] = OneFurther(rows, g[m]) /\ i # 0 /\ h[i - 1] = g[m]
        BY <3>1
      <4>. QED  BY <4>1
    <3>2. CASE i # m + 1
      <4>1. i \in 0..m /\ h[i] = g[i] /\ (i # 0 => h[i - 1] = g[i - 1])
        BY <3>2
      <4>. QED  BY <2>2, <4>1
    <3>. QED  BY <3>1, <3>2
  <2>4. h = [i \in 0..(m + 1) |-> IF i = 0 THEN {o} ELSE OneFurther(rows, h[i - 1])]
    <3>. DEFINE r == [i \in 0..(m + 1) |-> IF i = 0 THEN {o} ELSE OneFurther(rows, h[i - 1])]
    <3>1. \A i \in 0..(m + 1) : h[i] = r[i]
      BY <2>3
    <3>2. h = r
      BY <3>1
    <3>. QED  BY <3>2
  <2>. HIDE DEF h
  <2>5. IsNear(h, rows, o, m + 1)
    BY <2>4 DEF IsNear
  <2>. QED  BY <2>5
<1>. HIDE DEF Made
<1>3. n \in Made
  BY <1>1, <1>2, AllReached
<1>. QED  BY <1>3 DEF Made

\* Rows that two objects are both in.
Neighbours(rows, x, y) == \E args \in rows : x \in args /\ y \in args

\* One starts where one is, and each round goes one row further.
Reaching(rows, x, n) ==
  LET near == Nearby(rows, x, n)
  IN  /\ DOMAIN near = 0..n /\ near[0] = {x}
      /\ \A k \in 0..(n - 1) : \A y :
           y \in near[k + 1] <=> y \in near[k] \/ \E z \in near[k] : Neighbours(rows, z, y)

LEMMA NearbySteps ==
  ASSUME NEW rows, NEW x, NEW n \in Nat
  PROVE  Reaching(rows, x, n)
<1>. DEFINE near == Nearby(rows, x, n)
<1>1. near = CHOOSE g : g = [i \in 0..n |-> IF i = 0 THEN {x} ELSE OneFurther(rows, g[i - 1])]
  BY DEF Nearby
<1>2. near = CHOOSE g : IsNear(g, rows, x, n)
  BY <1>1 DEF IsNear
<1>3. IsNear(near, rows, x, n)
  BY <1>2, NearExists
<1>. HIDE DEF near
<1>4. /\ DOMAIN near = 0..n
      /\ \A i \in 0..n : near[i] = IF i = 0 THEN {x} ELSE OneFurther(rows, near[i - 1])
  BY <1>3 DEF IsNear
<1>5. near[0] = {x}
  BY <1>4
<1>6. ASSUME NEW k \in 0..(n - 1), NEW y
      PROVE  y \in near[k + 1] <=> y \in near[k] \/ \E z \in near[k] : Neighbours(rows, z, y)
  <2>1. k + 1 \in 0..n /\ k + 1 # 0 /\ (k + 1) - 1 = k
    OBVIOUS
  <2>2. near[k + 1] = OneFurther(rows, near[k])
    BY <1>4, <2>1
  <2>3. y \in OneFurther(rows, near[k])
          <=> y \in near[k] \/ \E args \in rows : args \cap near[k] # {} /\ y \in args
    BY DEF OneFurther
  <2>. QED  BY <2>2, <2>3 DEF Neighbours
<1>. QED  BY <1>4, <1>5, <1>6 DEF Reaching, near

\* y can be reached from x in k of n rounds.
InRounds(rows, n, k, x, y) == y \in Nearby(rows, x, n)[k]

LEMMA NoRounds ==
  ASSUME NEW rows, NEW n \in Nat, NEW x, NEW y
  PROVE  InRounds(rows, n, 0, x, y) <=> x = y
BY NearbySteps DEF Reaching, InRounds

LEMMA OneRoundMore ==
  ASSUME NEW rows, NEW n \in Nat, NEW k \in 0..(n - 1), NEW x, NEW y
  PROVE  InRounds(rows, n, k + 1, x, y)
           <=> \/ InRounds(rows, n, k, x, y)
               \/ \E z : InRounds(rows, n, k, x, z) /\ Neighbours(rows, z, y)
<1>1. Reaching(rows, x, n)
  BY NearbySteps
<1>. QED  BY <1>1 DEF Reaching, InRounds

LEMMA RoundsStep ==
  ASSUME NEW rows, NEW n \in Nat
  PROVE  /\ \A x, y : InRounds(rows, n, 0, x, y) <=> x = y
         /\ \A k \in 0..(n - 1) : \A x, y :
              InRounds(rows, n, k + 1, x, y)
                <=> \/ InRounds(rows, n, k, x, y)
                    \/ \E z : InRounds(rows, n, k, x, z) /\ Neighbours(rows, z, y)
<1>1. ASSUME NEW x, NEW y PROVE InRounds(rows, n, 0, x, y) <=> x = y
  BY NoRounds
<1>2. ASSUME NEW k \in 0..(n - 1), NEW x, NEW y
      PROVE  InRounds(rows, n, k + 1, x, y)
                <=> \/ InRounds(rows, n, k, x, y)
                    \/ \E z : InRounds(rows, n, k, x, z) /\ Neighbours(rows, z, y)
  BY OneRoundMore
<1>. QED  BY <1>1, <1>2

\* The first step may as well be the new one.
FirstStep(rows, n, k) ==
  \A x, y : InRounds(rows, n, k + 1, x, y)
              <=> \/ InRounds(rows, n, k, x, y)
                  \/ \E z : Neighbours(rows, x, z) /\ InRounds(rows, n, k, z, y)

LEMMA FirstSteps ==
  ASSUME NEW rows, NEW n \in Nat
  PROVE  \A k \in Nat : k < n => FirstStep(rows, n, k)
<1>. DEFINE Good == {k \in Nat : k < n => FirstStep(rows, n, k)}
<1>0. /\ \A x, y : InRounds(rows, n, 0, x, y) <=> x = y
      /\ \A k \in 0..(n - 1) : \A x, y :
              InRounds(rows, n, k + 1, x, y)
                <=> \/ InRounds(rows, n, k, x, y)
                    \/ \E z : InRounds(rows, n, k, x, z) /\ Neighbours(rows, z, y)
  BY RoundsStep
<1>1. 0 \in Good
  <2>1. SUFFICES ASSUME 0 < n PROVE FirstStep(rows, n, 0)
    OBVIOUS
  <2>2. 0 \in 0..(n - 1)
    BY <2>1
  <2>3. \A x, y : InRounds(rows, n, 1, x, y) <=> x = y \/ Neighbours(rows, x, y)
    BY <1>0, <2>2
  <2>. QED  BY <1>0, <2>3 DEF FirstStep
<1>2. ASSUME NEW k \in Nat, k \in Good
      PROVE  k + 1 \in Good
  <2>1. SUFFICES ASSUME k + 1 < n PROVE FirstStep(rows, n, k + 1)
    OBVIOUS
  <2>2. FirstStep(rows, n, k)
    BY <1>2, <2>1
  <2>3. k \in 0..(n - 1) /\ k + 1 \in 0..(n - 1)
    BY <2>1
  <2>4. \A x, y : InRounds(rows, n, k + 1, x, y)
                <=> \/ InRounds(rows, n, k, x, y)
                    \/ \E z : InRounds(rows, n, k, x, z) /\ Neighbours(rows, z, y)
    BY <1>0, <2>3
  <2>5. \A x, y : InRounds(rows, n, (k + 1) + 1, x, y)
                <=> \/ InRounds(rows, n, k + 1, x, y)
                    \/ \E z : InRounds(rows, n, k + 1, x, z) /\ Neighbours(rows, z, y)
    BY <1>0, <2>3
  <2>6. ASSUME NEW x, NEW y, InRounds(rows, n, (k + 1) + 1, x, y), ~InRounds(rows, n, k + 1, x, y)
        PROVE  \E z : Neighbours(rows, x, z) /\ InRounds(rows, n, k + 1, z, y)
    <3>1. PICK w : InRounds(rows, n, k + 1, x, w) /\ Neighbours(rows, w, y)
      BY <2>5, <2>6
    <3>2. ~InRounds(rows, n, k, x, w)
      BY <2>4, <2>6, <3>1
    <3>3. PICK z : Neighbours(rows, x, z) /\ InRounds(rows, n, k, z, w)
      BY <2>2, <3>1, <3>2 DEF FirstStep
    <3>4. InRounds(rows, n, k + 1, z, y)
      BY <2>4, <3>1, <3>3
    <3>. QED  BY <3>3, <3>4
  <2>7. ASSUME NEW x, NEW y, NEW z, Neighbours(rows, x, z), InRounds(rows, n, k + 1, z, y)
        PROVE  InRounds(rows, n, (k + 1) + 1, x, y)
    <3>1. CASE InRounds(rows, n, k, z, y)
      BY <2>2, <2>5, <2>7, <3>1 DEF FirstStep
    <3>2. CASE ~InRounds(rows, n, k, z, y)
      <4>1. PICK w : InRounds(rows, n, k, z, w) /\ Neighbours(rows, w, y)
        BY <2>4, <2>7, <3>2
      <4>2. InRounds(rows, n, k + 1, x, w)
        BY <2>2, <2>7, <4>1 DEF FirstStep
      <4>. QED  BY <2>5, <4>1, <4>2
    <3>. QED  BY <3>1, <3>2
  <2>. QED  BY <2>5, <2>6, <2>7 DEF FirstStep
<1>. HIDE DEF Good
<1>3. \A k \in Nat : k \in Good
  BY <1>1, <1>2, AllReached
<1>. QED  BY <1>3 DEF Good

\* As far as there, as far back.
BothReach(rows, n, k) ==
  \A x, y : InRounds(rows, n, k, x, y) <=> InRounds(rows, n, k, y, x)

LEMMA WithinSymmetric ==
  ASSUME NEW rows, NEW n \in Nat
  PROVE  \A k \in Nat : k <= n => BothReach(rows, n, k)
<1>. DEFINE Good == {k \in Nat : k <= n => BothReach(rows, n, k)}
<1>1. 0 \in Good
  <2>1. \A x, y : InRounds(rows, n, 0, x, y) <=> x = y
    BY RoundsStep
  <2>. QED  BY <2>1 DEF BothReach
<1>2. ASSUME NEW k \in Nat, k \in Good
      PROVE  k + 1 \in Good
  <2>1. SUFFICES ASSUME k + 1 <= n PROVE BothReach(rows, n, k + 1)
    OBVIOUS
  <2>2. BothReach(rows, n, k)
    BY <1>2, <2>1
  <2>3. k \in 0..(n - 1) /\ k < n
    BY <2>1
  <2>4. \A x, y : InRounds(rows, n, k + 1, x, y)
                <=> \/ InRounds(rows, n, k, x, y)
                    \/ \E z : InRounds(rows, n, k, x, z) /\ Neighbours(rows, z, y)
    BY <2>3, RoundsStep
  <2>5. FirstStep(rows, n, k)
    BY <2>3, FirstSteps
  <2>6. \A x, y : Neighbours(rows, x, y) <=> Neighbours(rows, y, x)
    BY DEF Neighbours
  <2>. QED  BY <2>2, <2>4, <2>5, <2>6 DEF FirstStep, BothReach
<1>. HIDE DEF Good
<1>3. \A k \in Nat : k \in Good
  BY <1>1, <1>2, AllReached
<1>. QED  BY <1>3 DEF Good

\* More rounds reach what fewer do.
LEMMA WithinGrows ==
  ASSUME NEW rows, NEW n \in Nat, NEW x, NEW y, NEW j \in 0..n, InRounds(rows, n, j, x, y)
  PROVE  \A k \in 0..n : j <= k => InRounds(rows, n, k, x, y)
<1>. DEFINE Good == {k \in Nat : k <= n /\ j <= k => InRounds(rows, n, k, x, y)}
<1>1. 0 \in Good
  BY Z3
<1>2. ASSUME NEW k \in Nat, k \in Good
      PROVE  k + 1 \in Good
  <2>1. SUFFICES ASSUME k + 1 <= n, j <= k + 1 PROVE InRounds(rows, n, k + 1, x, y)
    OBVIOUS
  <2>2. CASE j = k + 1
    BY <2>2
  <2>3. CASE j # k + 1
    <3>1. j <= k /\ k \in 0..(n - 1)
      BY <2>1, <2>3
    <3>2. InRounds(rows, n, k, x, y)
      BY <1>2, <2>1, <3>1
    <3>. QED  BY <3>1, <3>2, OneRoundMore
  <2>. QED  BY <2>2, <2>3
<1>. HIDE DEF Good
<1>3. \A k \in Nat : k \in Good
  BY <1>1, <1>2, AllReached
<1>. QED  BY <1>3 DEF Good

(***************************************************************************)
(* Distances.                                                              *)
(***************************************************************************)
RoundsTo(rows, n, x, y) == {k \in 0..n : InRounds(rows, n, k, x, y)}

LEMMA FewestRounds ==
  ASSUME NEW rows, NEW n \in Nat, NEW x, NEW y, RoundsTo(rows, n, x, y) # {}
  PROVE  /\ Min(RoundsTo(rows, n, x, y)) \in RoundsTo(rows, n, x, y)
         /\ Min(RoundsTo(rows, n, x, y)) \in 0..n
         /\ \A k \in RoundsTo(rows, n, x, y) : Min(RoundsTo(rows, n, x, y)) <= k
<1>. DEFINE S == RoundsTo(rows, n, x, y)
<1>1. S \subseteq Nat /\ S # {} /\ S \subseteq 0..n
  BY DEF RoundsTo
<1>. HIDE DEF S
<1>2. \E k \in S : \A l \in S : k <= l
  BY <1>1, NatLeast
<1>3. Min(S) \in S /\ \A l \in S : Min(S) <= l
  BY <1>2 DEF Min
<1>. QED  BY <1>1, <1>3 DEF S

LEMMA RoundsBothWays ==
  ASSUME NEW rows, NEW n \in Nat, NEW x, NEW y
  PROVE  RoundsTo(rows, n, x, y) = RoundsTo(rows, n, y, x)
<1>1. \A k \in 0..n : BothReach(rows, n, k)
  BY WithinSymmetric
<1>2. \A k \in 0..n : InRounds(rows, n, k, x, y) <=> InRounds(rows, n, k, y, x)
  BY <1>1 DEF BothReach
<1>. QED  BY <1>2 DEF RoundsTo

\* What is said of the distance between two objects: there and back each round.
SaidOf(rows, n, x, y) ==
  IF RoundsTo(rows, n, x, y) = {} THEN {} ELSE {2 * Min(RoundsTo(rows, n, x, y))}

\* Lengths of the ways to y whose last step is from a neighbour.
WayBy(rows, n, x, y, l) ==
  \E z : /\ z # y /\ Neighbours(rows, z, y) /\ RoundsTo(rows, n, x, z) # {}
        /\ l = 2 + 2 * Min(RoundsTo(rows, n, x, z))

\* A way by a neighbour takes no fewer rounds, if it is looked at.
LEMMA WaysAreLong ==
  ASSUME NEW rows, NEW n \in Nat, NEW x, NEW y, NEW l, WayBy(rows, n, x, y, l), l <= 2 * n + 1
  PROVE  /\ RoundsTo(rows, n, x, y) # {}
         /\ l \in Nat /\ 2 * Min(RoundsTo(rows, n, x, y)) <= l
<1>1. PICK z : /\ z # y /\ Neighbours(rows, z, y) /\ RoundsTo(rows, n, x, z) # {}
               /\ l = 2 + 2 * Min(RoundsTo(rows, n, x, z))
  BY DEF WayBy
<1>. DEFINE k == Min(RoundsTo(rows, n, x, z))
<1>2. k \in RoundsTo(rows, n, x, z) /\ k \in 0..n
  BY <1>1, FewestRounds
<1>. HIDE DEF k
<1>3. l = 2 + 2 * k
  BY <1>1 DEF k
<1>4. k \in 0..(n - 1) /\ k + 1 \in 0..n
  BY <1>2, <1>3
<1>5. InRounds(rows, n, k, x, z)
  BY <1>2 DEF RoundsTo
<1>6. InRounds(rows, n, k + 1, x, y)
  BY <1>1, <1>4, <1>5, OneRoundMore
<1>7. k + 1 \in RoundsTo(rows, n, x, y)
  BY <1>4, <1>6 DEF RoundsTo
<1>. DEFINE m == Min(RoundsTo(rows, n, x, y))
<1>8. m <= k + 1 /\ m \in 0..n
  BY <1>7, FewestRounds
<1>. HIDE DEF m
<1>9. 2 * m <= l /\ l \in Nat
  BY <1>3, <1>4, <1>8
<1>. QED  BY <1>7, <1>9 DEF m

\* And a neighbour lies on a shortest way.
LEMMA NeighbourOnTheWay ==
  ASSUME NEW rows, NEW n \in Nat, NEW x, NEW y, x # y, RoundsTo(rows, n, x, y) # {}
  PROVE  WayBy(rows, n, x, y, 2 * Min(RoundsTo(rows, n, x, y)))
<1>. DEFINE m == Min(RoundsTo(rows, n, x, y))
<1>1. /\ m \in RoundsTo(rows, n, x, y) /\ m \in 0..n
      /\ \A k \in RoundsTo(rows, n, x, y) : m <= k
  BY FewestRounds
<1>. HIDE DEF m
<1>2. InRounds(rows, n, m, x, y)
  BY <1>1 DEF RoundsTo
<1>3. m # 0
  BY <1>2, NoRounds
<1>4. m - 1 \in 0..(n - 1) /\ m - 1 \in 0..n /\ (m - 1) + 1 = m
  BY <1>1, <1>3
<1>5. ~InRounds(rows, n, m - 1, x, y)
  <2>1. SUFFICES ASSUME InRounds(rows, n, m - 1, x, y) PROVE FALSE
    OBVIOUS
  <2>2. m - 1 \in RoundsTo(rows, n, x, y)
    BY <1>4, <2>1 DEF RoundsTo
  <2>3. m <= m - 1
    BY <1>1, <2>2
  <2>. QED  BY <1>1, <2>3
<1>6. InRounds(rows, n, (m - 1) + 1, x, y)
  BY <1>2, <1>4
<1>7. PICK z : InRounds(rows, n, m - 1, x, z) /\ Neighbours(rows, z, y)
  <2>1. \A k \in 0..(n - 1) : InRounds(rows, n, k + 1, x, y) =>
          InRounds(rows, n, k, x, y) \/ \E z : InRounds(rows, n, k, x, z) /\ Neighbours(rows, z, y)
    BY OneRoundMore
  <2>. QED  BY <1>4, <1>5, <1>6, <2>1
<1>8. z # y
  BY <1>5, <1>7
<1>9. m - 1 \in RoundsTo(rows, n, x, z)
  BY <1>4, <1>7 DEF RoundsTo
<1>. DEFINE k == Min(RoundsTo(rows, n, x, z))
<1>10. k \in 0..n /\ k <= m - 1
  BY <1>9, FewestRounds
<1>11. WayBy(rows, n, x, y, 2 + 2 * k)
  BY <1>7, <1>8, <1>9 DEF WayBy
<1>. HIDE DEF k
<1>12. 2 + 2 * k <= 2 * n + 1
  BY <1>1, <1>10
<1>13. 2 * m <= 2 + 2 * k
  BY <1>11, <1>12, WaysAreLong DEF m
<1>14. 2 + 2 * k = 2 * m
  BY <1>1, <1>10, <1>13
<1>. QED  BY <1>11, <1>14 DEF m

AreWays(lengths, rows, n, x, y) == \A l : l \in lengths <=> WayBy(rows, n, x, y, l)

Shortest(lengths, bound) == {l \in lengths : l <= bound /\ \A m \in lengths : l <= m}

\* What is said is the shortest of the ways, as far as one looks.
LEMMA SaidIsNearest ==
  ASSUME NEW rows, NEW H \in Nat, NEW n \in Nat, H \in {2 * n, 2 * n + 1}, NEW x, NEW y, x # y,
         NEW lengths, AreWays(lengths, rows, n, x, y)
  PROVE  SaidOf(rows, n, x, y) = Shortest(lengths, H)
<1>. DEFINE S == RoundsTo(rows, n, x, y)
            near == Shortest(lengths, H)
<1>0. \A l : l \in lengths <=> WayBy(rows, n, x, y, l)
  BY DEF AreWays
<1>1. \A l \in lengths : l \in Nat
  <2>1. SUFFICES ASSUME NEW l \in lengths PROVE l \in Nat
    OBVIOUS
  <2>2. PICK z : /\ RoundsTo(rows, n, x, z) # {}
                 /\ l = 2 + 2 * Min(RoundsTo(rows, n, x, z))
    BY <1>0 DEF WayBy
  <2>3. Min(RoundsTo(rows, n, x, z)) \in 0..n
    BY <2>2, FewestRounds
  <2>. QED  BY <2>2, <2>3
<1>2. \A l \in lengths : l <= H => S # {} /\ 2 * Min(S) <= l
  <2>1. SUFFICES ASSUME NEW l \in lengths, l <= H PROVE S # {} /\ 2 * Min(S) <= l
    OBVIOUS
  <2>2. l <= 2 * n + 1 /\ WayBy(rows, n, x, y, l)
    BY <1>0, <1>1, <2>1
  <2>. QED  BY <2>2, WaysAreLong
<1>. HIDE DEF near
<1>3. CASE S = {}
  <2>1. near = {}
    BY <1>2, <1>3 DEF near, Shortest
  <2>. QED  BY <1>3, <2>1 DEF SaidOf, near
<1>4. CASE S # {}
  <2>. DEFINE m == Min(S)
  <2>1. m \in 0..n
    BY <1>4, FewestRounds
  <2>2. 2 * m \in lengths
    BY <1>0, <1>4, NeighbourOnTheWay
  <2>. HIDE DEF m, S
  <2>3. 2 * m <= H
    BY <2>1
  <2>4. \A l \in lengths : 2 * m <= l
    <3>1. SUFFICES ASSUME NEW l \in lengths PROVE 2 * m <= l
      OBVIOUS
    <3>2. CASE l <= H
      BY <1>2, <3>2 DEF m
    <3>3. CASE ~(l <= H)
      BY <1>1, <2>1, <2>3, <3>3
    <3>. QED  BY <3>2, <3>3
  <2>5. 2 * m \in near
    BY <2>2, <2>3, <2>4 DEF near, Shortest
  <2>6. \A l \in near : l = 2 * m
    <3>1. SUFFICES ASSUME NEW l \in near PROVE l = 2 * m
      OBVIOUS
    <3>2. l \in lengths /\ l <= 2 * m /\ 2 * m <= l /\ l \in Nat
      BY <1>1, <2>2, <2>4 DEF near, Shortest
    <3>. QED  BY <2>1, <3>2
  <2>7. near = {2 * m}
    BY <2>5, <2>6
  <2>. QED  BY <1>4, <2>7 DEF SaidOf, near, S, m
<1>. QED  BY <1>3, <1>4

\* The pairs of positions, the smaller one first.
LEMMA PairsUp ==
  ASSUME NEW n \in Nat
  PROVE  /\ IsVector(PositionPairs(n))
         /\ \A p \in ToSet(PositionPairs(n)) :
              p = <<p[1], p[2]>> /\ p[1] \in 1..n /\ p[2] \in 1..n /\ p[1] < p[2]
         /\ \A i, j \in 1..n : i < j => <<i, j>> \in ToSet(PositionPairs(n))
<1>. DEFINE t == [i \in 1..n |-> PairsFrom(i, n)]
<1>1. \A i \in 1..n : IsVector(PairsFrom(i, n))
  BY PairsFromFit DEF PairsFit
<1>2. DOMAIN t = 1..n /\ t = [i \in 1..n |-> t[i]] /\ \A i \in 1..n : t[i] = PairsFrom(i, n)
  OBVIOUS
<1>. HIDE DEF t
<1>3. ToSet(FlattenSeq(t)) = UNION {ToSet(t[i]) : i \in 1..n}
  BY <1>1, <1>2, FlattenedVectors
<1>4. PositionPairs(n) = FlattenSeq(t)
  BY DEF PositionPairs, t
<1>5. ASSUME NEW p \in ToSet(PositionPairs(n))
      PROVE  p = <<p[1], p[2]>> /\ p[1] < p[2]
  <2>1. PICK i \in 1..n : p \in ToSet(t[i])
    BY <1>3, <1>4, <1>5
  <2>2. p \in ToSet(PairsFrom(i, n))
    BY <1>2, <2>1
  <2>3. DOMAIN PairsFrom(i, n) = 1..(n - i)
        /\ \A k \in 1..(n - i) : PairsFrom(i, n)[k] = <<i, i + k>>
    BY DEF PairsFrom
  <2>4. PICK k \in 1..(n - i) : p = <<i, i + k>>
    BY <2>2, <2>3 DEF ToSet
  <2>. QED  BY <2>4
<1>. QED  BY <1>5, PairsAre

-----------------------------------------------------------------------------
(***************************************************************************)
(* The rows that say how far objects are apart.                            *)
(***************************************************************************)
DistanceRow(rows, n, x, y) ==
  [src |-> ObjectNode(x), dst |-> ObjectNode(y), dist |-> 2 * Min(RoundsTo(rows, n, x, y))]

LEMMA ReachedAre ==
  ASSUME NEW objects, NEW rows, NEW n \in Nat, NEW i \in DOMAIN objects, NEW y
  PROVE  DistanceIn(ReachedFrom(objects, rows, n)[i], y) = RoundsTo(rows, n, objects[i], y)
<1>1. ReachedFrom(objects, rows, n)[i] = Nearby(rows, objects[i], n)
  BY DEF ReachedFrom
<1>2. DOMAIN Nearby(rows, objects[i], n) = 0..n
  BY NearbySteps DEF Reaching
<1>. QED  BY <1>1, <1>2 DEF DistanceIn, RoundsTo, InRounds

IsDistanceRow(objects, rows, n, row) ==
  \E i, j \in DOMAIN objects :
    /\ i < j /\ RoundsTo(rows, n, objects[i], objects[j]) # {}
    /\ row = DistanceRow(rows, n, objects[i], objects[j])

LEMMA DistanceRowsAre ==
  ASSUME NEW objects, IsVector(objects), NEW rows, NEW n \in Nat
  PROVE  \A row : row \in ToSet(DistancesAlong(objects, ReachedFrom(objects, rows, n)))
                   <=> IsDistanceRow(objects, rows, n, row)
<1>. DEFINE reached == ReachedFrom(objects, rows, n)
            len == Len(objects)
            pairs == PositionPairs(len)
            places == {k \in DOMAIN pairs :
                         DistanceIn(reached[pairs[k][1]], objects[pairs[k][2]]) # {}}
            near == Chosen(pairs, places)
            said == [k \in DOMAIN near |->
                       [src  |-> ObjectNode(objects[near[k][1]]),
                        dst  |-> ObjectNode(objects[near[k][2]]),
                        dist |-> 2 * Min(DistanceIn(reached[near[k][1]], objects[near[k][2]]))]]
<1>1. len \in Nat /\ DOMAIN objects = 1..len
  BY VectorFacts
<1>2. DistancesAlong(objects, reached) = said
  BY DEF DistancesAlong, InReach, PairDistances
<1>3. \A i \in 1..len : \A y : DistanceIn(reached[i], y) = RoundsTo(rows, n, objects[i], y)
  BY <1>1, ReachedAre
<1>. HIDE DEF reached, len
<1>4. /\ IsVector(pairs)
      /\ \A p \in ToSet(pairs) :
              p = <<p[1], p[2]>> /\ p[1] \in 1..len /\ p[2] \in 1..len /\ p[1] < p[2]
      /\ \A i, j \in 1..len : i < j => <<i, j>> \in ToSet(pairs)
  BY <1>1, PairsUp
<1>5. \A k \in DOMAIN pairs : pairs[k] \in ToSet(pairs)
  BY <1>4, VectorFacts
<1>6. places \in SUBSET DOMAIN pairs
  OBVIOUS
<1>7. \A k \in DOMAIN pairs : k \in places <=>
        RoundsTo(rows, n, objects[pairs[k][1]], objects[pairs[k][2]]) # {}
  BY <1>3, <1>4, <1>5
<1>. HIDE DEF pairs, places
<1>8. ToSet(near) = {pairs[k] : k \in places}
  BY <1>4, <1>6, ChosenVector
<1>9. \A p : p \in ToSet(near) <=>
        p \in ToSet(pairs) /\ RoundsTo(rows, n, objects[p[1]], objects[p[2]]) # {}
  <2>1. \A p \in ToSet(pairs) : \E k \in DOMAIN pairs : p = pairs[k]
    BY DEF ToSet
  <2>2. \A p \in ToSet(near) : \E k \in places : p = pairs[k]
    BY <1>8
  <2>. QED  BY <1>5, <1>6, <1>7, <1>8, <2>1, <2>2
<1>. HIDE DEF near
<1>10. \A row : row \in ToSet(said) <=> \E p \in ToSet(near) :
         row = [src  |-> ObjectNode(objects[p[1]]), dst  |-> ObjectNode(objects[p[2]]),
                dist |-> 2 * Min(DistanceIn(reached[p[1]], objects[p[2]]))]
  BY DEF ToSet
<1>11. \A p \in ToSet(near) :
         [src  |-> ObjectNode(objects[p[1]]), dst  |-> ObjectNode(objects[p[2]]),
          dist |-> 2 * Min(DistanceIn(reached[p[1]], objects[p[2]]))]
           = DistanceRow(rows, n, objects[p[1]], objects[p[2]])
  BY <1>3, <1>4, <1>9 DEF DistanceRow
<1>. HIDE DEF said
<1>12. \A row : row \in ToSet(said) <=> \E p \in ToSet(near) :
         row = DistanceRow(rows, n, objects[p[1]], objects[p[2]])
  BY <1>10, <1>11
<1>13. ASSUME NEW row, row \in ToSet(said)
       PROVE  IsDistanceRow(objects, rows, n, row)
  <2>1. PICK p \in ToSet(near) : row = DistanceRow(rows, n, objects[p[1]], objects[p[2]])
    BY <1>12, <1>13
  <2>. QED  BY <1>1, <1>4, <1>9, <2>1 DEF IsDistanceRow
<1>14. ASSUME NEW row, IsDistanceRow(objects, rows, n, row)
       PROVE  row \in ToSet(said)
  <2>1. PICK i \in 1..len, j \in 1..len :
          /\ i < j /\ RoundsTo(rows, n, objects[i], objects[j]) # {}
          /\ row = DistanceRow(rows, n, objects[i], objects[j])
    BY <1>1, <1>14 DEF IsDistanceRow
  <2>2. <<i, j>> \in ToSet(near)
    BY <1>4, <1>9, <2>1
  <2>. QED  BY <1>12, <2>1, <2>2
<1>. QED  BY <1>2, <1>13, <1>14 DEF reached

\* Of two objects there is one row at most, whatever way round one asks.
LEMMA DistancesSay ==
  ASSUME NEW objects, IsVector(objects), Apart(objects), NEW rows, NEW n \in Nat,
         NEW said, \A row : row \in said <=> IsDistanceRow(objects, rows, n, row),
         NEW x \in ToSet(objects), NEW y \in ToSet(objects)
  PROVE  DistanceSaid(said, ObjectNode(x), ObjectNode(y)) = SaidOf(rows, n, x, y)
<1>1. DOMAIN objects = 1..Len(objects) /\ Len(objects) \in Nat
  BY VectorFacts
<1>2. \A o, p : ObjectNode(o) = ObjectNode(p) => o = p
  BY DEF ObjectNode
<1>3. ASSUME NEW row \in said, {row.src, row.dst} = {ObjectNode(x), ObjectNode(y)}
      PROVE  x # y /\ RoundsTo(rows, n, x, y) # {} /\ row.dist = 2 * Min(RoundsTo(rows, n, x, y))
  <2>1. PICK i \in DOMAIN objects, j \in DOMAIN objects :
          /\ i < j /\ RoundsTo(rows, n, objects[i], objects[j]) # {}
          /\ row = DistanceRow(rows, n, objects[i], objects[j])
    BY DEF IsDistanceRow
  <2>2. i # j
    BY <1>1, <2>1
  <2>3. objects[i] # objects[j]
    BY <2>2 DEF Apart
  <2>4. /\ row.src = ObjectNode(objects[i]) /\ row.dst = ObjectNode(objects[j])
        /\ row.dist = 2 * Min(RoundsTo(rows, n, objects[i], objects[j]))
    BY <2>1 DEF DistanceRow
  <2>5. RoundsTo(rows, n, objects[i], objects[j]) = RoundsTo(rows, n, objects[j], objects[i])
    BY RoundsBothWays
  <2>6. {ObjectNode(objects[i]), ObjectNode(objects[j])} = {ObjectNode(x), ObjectNode(y)}
    BY <1>3, <2>4
  <2>7. \/ x = objects[i] /\ y = objects[j]
        \/ x = objects[j] /\ y = objects[i]
    BY <1>2, <2>3, <2>6
  <2>. QED  BY <2>1, <2>3, <2>4, <2>5, <2>7
<1>4. ASSUME x # y, RoundsTo(rows, n, x, y) # {}
      PROVE  \E row \in said : /\ {row.src, row.dst} = {ObjectNode(x), ObjectNode(y)}
                               /\ row.dist = 2 * Min(RoundsTo(rows, n, x, y))
  <2>1. PICK i \in DOMAIN objects, j \in DOMAIN objects : x = objects[i] /\ y = objects[j]
    BY DEF ToSet
  <2>2. RoundsTo(rows, n, x, y) = RoundsTo(rows, n, y, x)
    BY RoundsBothWays
  <2>3. i < j \/ j < i
    BY <1>1, <1>4, <2>1
  <2>4. CASE i < j
    <3>1. DistanceRow(rows, n, x, y) \in said
      BY <1>4, <2>1, <2>4 DEF IsDistanceRow
    <3>. QED  BY <3>1 DEF DistanceRow
  <2>5. CASE j < i
    <3>1. DistanceRow(rows, n, y, x) \in said
      BY <1>4, <2>1, <2>2, <2>5 DEF IsDistanceRow
    <3>. QED  BY <2>2, <3>1 DEF DistanceRow
  <2>. QED  BY <2>3, <2>4, <2>5
<1>. DEFINE rowsOf == {r \in said : {r.src, r.dst} = {ObjectNode(x), ObjectNode(y)}}
            dists == {row.dist : row \in rowsOf}
<1>5. DistanceSaid(said, ObjectNode(x), ObjectNode(y))
        = (IF x = y THEN {0} ELSE {}) \cup dists
  BY <1>2 DEF DistanceSaid
<1>6. CASE x = y
  <2>1. dists = {}
    BY <1>3, <1>6
  <2>2. 0 \in RoundsTo(rows, n, x, y)
    BY <1>6, NoRounds DEF RoundsTo
  <2>. DEFINE m == Min(RoundsTo(rows, n, x, y))
  <2>3. m <= 0 /\ m \in 0..n
    BY <2>2, FewestRounds
  <2>. HIDE DEF m, dists
  <2>4. 2 * m = 0
    BY <2>3
  <2>. QED  BY <1>5, <1>6, <2>1, <2>2, <2>4 DEF SaidOf, m
<1>7. CASE x # y /\ RoundsTo(rows, n, x, y) = {}
  <2>1. dists = {}
    BY <1>3, <1>7
  <2>. HIDE DEF dists
  <2>. QED  BY <1>5, <1>7, <2>1 DEF SaidOf
<1>8. CASE x # y /\ RoundsTo(rows, n, x, y) # {}
  <2>1. \A row \in rowsOf : row.dist = 2 * Min(RoundsTo(rows, n, x, y))
    BY <1>3
  <2>2. \E row \in rowsOf : row.dist = 2 * Min(RoundsTo(rows, n, x, y))
    BY <1>4, <1>8
  <2>. HIDE DEF rowsOf
  <2>3. dists = {2 * Min(RoundsTo(rows, n, x, y))}
    BY <2>1, <2>2
  <2>. HIDE DEF dists
  <2>. QED  BY <1>5, <1>8, <2>3 DEF SaidOf
<1>. QED  BY <1>6, <1>7, <1>8

-----------------------------------------------------------------------------
(***************************************************************************)
(* The edges that draw a row.                                              *)
(***************************************************************************)
FwdEdge(from, to, kind, channels) ==
  DerivedEdge(from[1], to[1], <<kind, "fwd">>, <<from[2], to[2]>>, channels)

BwdEdge(from, to, kind, channels) ==
  DerivedEdge(to[1], from[1], <<kind, "bwd">>, <<to[2], from[2]>>, channels)

LEMMA BothWaysAre ==
  ASSUME NEW d, NEW from, NEW to, NEW kind, NEW channels
  PROVE  /\ IsVector(BothWays(d, from, to, kind, channels))
         /\ ToSet(BothWays(d, from, to, kind, channels))
              = {FwdEdge(from, to, kind, channels)}
                  \cup (IF d.include_reverse_edges THEN {BwdEdge(from, to, kind, channels)} ELSE {})
<1>. DEFINE one == <<FwdEdge(from, to, kind, channels)>>
            other == IF d.include_reverse_edges THEN <<BwdEdge(from, to, kind, channels)>> ELSE <<>>
<1>1. BothWays(d, from, to, kind, channels) = one \o other
  BY DEF BothWays, FwdEdge, BwdEdge
<1>2. IsVector(one) /\ ToSet(one) = {FwdEdge(from, to, kind, channels)}
  BY SingleVector
<1>3. /\ IsVector(other)
      /\ ToSet(other) = IF d.include_reverse_edges THEN {BwdEdge(from, to, kind, channels)} ELSE {}
  BY SingleVector, EmptyVector
<1>. HIDE DEF one, other
<1>4. IsVector(one \o other) /\ ToSet(one \o other) = ToSet(one) \cup ToSet(other)
  BY <1>2, <1>3, JoinedVectors
<1>. QED  BY ONLY <1>1, <1>2, <1>3, <1>4

RayOf(d, inst, kind, k) ==
  BothWays(d, <<InstanceNode(inst), k>>, <<ObjectNode(inst.arguments[k]), k>>, kind,
           ChannelsOf(inst))

PairOf(d, inst, p) ==
  BothWays(d, PositionOf(inst, p[1]), PositionOf(inst, p[2]), d.atom_expansion, ChannelsOf(inst))

LEMMA StarEdgesAre ==
  ASSUME NEW d, NEW inst, IsVector(inst.arguments), NEW kind
  PROVE  \A e : e \in ToSet(StarEdges(d, inst, kind))
                 <=> \E k \in DOMAIN inst.arguments : e \in ToSet(RayOf(d, inst, kind, k))
<1>. DEFINE n == Len(inst.arguments)
            t == [k \in DOMAIN inst.arguments |-> RayOf(d, inst, kind, k)]
<1>1. n \in Nat /\ DOMAIN inst.arguments = 1..n
  BY VectorFacts
<1>2. /\ DOMAIN t = 1..n /\ t = [i \in 1..n |-> t[i]]
      /\ \A k \in 1..n : t[k] = RayOf(d, inst, kind, k)
  BY <1>1
<1>3. StarEdges(d, inst, kind) = FlattenSeq(t)
  BY DEF StarEdges, RayOf
<1>. HIDE DEF t, n
<1>4. \A k \in 1..n : IsVector(t[k])
  BY <1>2, BothWaysAre DEF RayOf
<1>5. ToSet(FlattenSeq(t)) = UNION {ToSet(t[k]) : k \in 1..n}
  BY <1>1, <1>2, <1>4, FlattenedVectors
<1>. QED  BY <1>1, <1>2, <1>3, <1>5

LEMMA PairEdgesAre ==
  ASSUME NEW d, NEW inst, NEW pairs, IsVector(pairs)
  PROVE  \A e : e \in ToSet(PairEdges(d, inst, pairs))
                 <=> \E p \in ToSet(pairs) : e \in ToSet(PairOf(d, inst, p))
<1>. DEFINE n == Len(pairs)
            t == [k \in DOMAIN pairs |-> PairOf(d, inst, pairs[k])]
<1>1. n \in Nat /\ DOMAIN pairs = 1..n
  BY VectorFacts
<1>2. /\ DOMAIN t = 1..n /\ t = [i \in 1..n |-> t[i]]
      /\ \A k \in 1..n : t[k] = PairOf(d, inst, pairs[k])
  BY <1>1
<1>3. PairEdges(d, inst, pairs) = FlattenSeq(t)
  BY DEF PairEdges, PairOf
<1>. HIDE DEF t, n
<1>4. \A k \in 1..n : IsVector(t[k])
  BY <1>2, BothWaysAre DEF PairOf
<1>5. ToSet(FlattenSeq(t)) = UNION {ToSet(t[k]) : k \in 1..n}
  BY <1>1, <1>2, <1>4, FlattenedVectors
<1>6. /\ \A k \in 1..n : pairs[k] \in ToSet(pairs)
      /\ \A p \in ToSet(pairs) : \E k \in 1..n : p = pairs[k]
  BY <1>1 DEF ToSet
<1>. QED  BY <1>2, <1>3, <1>5, <1>6

\* What is drawn of a row is between its ends.
PlainlyDraw(edges, inst) == \A e \in edges : ~IsShortcut(e) /\ DrawsRow(e, inst)

LEMMA BothWaysDraw ==
  ASSUME NEW d, NEW inst, NEW from, NEW to, EndOf(inst, from[1], from[2]), EndOf(inst, to[1], to[2]),
         NEW kind, kind # "line_share"
  PROVE  PlainlyDraw(ToSet(BothWays(d, from, to, kind, ChannelsOf(inst))), inst)
<1>. DEFINE ch == ChannelsOf(inst)
            fwd == FwdEdge(from, to, kind, ch)
            bwd == BwdEdge(from, to, kind, ch)
<1>1. ToSet(BothWays(d, from, to, kind, ch)) \subseteq {fwd, bwd}
  BY BothWaysAre
<1>2. /\ fwd.src = from[1] /\ fwd.dst = to[1] /\ fwd.kind[1] = kind /\ fwd.channels = ch
      /\ fwd.positions[1] = from[2] /\ fwd.positions[2] = to[2]
  BY DEF FwdEdge, DerivedEdge
<1>3. /\ bwd.src = to[1] /\ bwd.dst = from[1] /\ bwd.kind[1] = kind /\ bwd.channels = ch
      /\ bwd.positions[1] = to[2] /\ bwd.positions[2] = from[2]
  BY DEF BwdEdge, DerivedEdge
<1>. HIDE DEF fwd, bwd
<1>4. ~IsShortcut(fwd) /\ DrawsRow(fwd, inst)
  BY <1>2 DEF IsShortcut, DrawsRow
<1>5. ~IsShortcut(bwd) /\ DrawsRow(bwd, inst)
  BY <1>3 DEF IsShortcut, DrawsRow
<1>. QED  BY <1>1, <1>4, <1>5 DEF PlainlyDraw

LEMMA LoopDraws ==
  ASSUME NEW inst, NEW node, EndOf(inst, node, 1), NEW kind, kind # "line_share"
  PROVE  /\ PlainlyDraw(ToSet(Loop(node, kind, inst)), inst)
         /\ \E e \in ToSet(Loop(node, kind, inst)) : e.src = node /\ e.positions[1] = 1
<1>. DEFINE e == DerivedEdge(node, node, <<kind, "self">>, <<1, 1>>, ChannelsOf(inst))
<1>1. ToSet(Loop(node, kind, inst)) = {e}
  BY SingleVector DEF Loop
<1>2. /\ e.src = node /\ e.dst = node /\ e.kind[1] = kind /\ e.channels = ChannelsOf(inst)
      /\ e.positions[1] = 1 /\ e.positions[2] = 1
  BY DEF DerivedEdge
<1>. HIDE DEF e
<1>3. ~IsShortcut(e) /\ DrawsRow(e, inst)
  BY <1>2 DEF IsShortcut, DrawsRow
<1>. QED  BY <1>1, <1>2, <1>3 DEF PlainlyDraw

LEMMA StarEdgesDraw ==
  ASSUME NEW d, NEW inst, IsVector(inst.arguments), NEW kind, kind # "line_share"
  PROVE  PlainlyDraw(ToSet(StarEdges(d, inst, kind)), inst)
<1>1. ASSUME NEW k \in DOMAIN inst.arguments
      PROVE  PlainlyDraw(ToSet(RayOf(d, inst, kind, k)), inst)
  <2>1. EndOf(inst, <<InstanceNode(inst), k>>[1], <<InstanceNode(inst), k>>[2])
    BY DEF EndOf
  <2>2. EndOf(inst, <<ObjectNode(inst.arguments[k]), k>>[1], <<ObjectNode(inst.arguments[k]), k>>[2])
    BY DEF EndOf
  <2>. QED  BY <2>1, <2>2, BothWaysDraw DEF RayOf
<1>. QED  BY <1>1, StarEdgesAre DEF PlainlyDraw

PairsWithin(inst, pairs) ==
  \A p \in ToSet(pairs) : p[1] \in DOMAIN inst.arguments /\ p[2] \in DOMAIN inst.arguments

LEMMA PairEdgesDraw ==
  ASSUME NEW d, d.atom_expansion # "line_share", NEW inst, NEW pairs, IsVector(pairs),
         PairsWithin(inst, pairs)
  PROVE  PlainlyDraw(ToSet(PairEdges(d, inst, pairs)), inst)
<1>1. ASSUME NEW p \in ToSet(pairs)
      PROVE  PlainlyDraw(ToSet(PairOf(d, inst, p)), inst)
  <2>1. \A k \in DOMAIN inst.arguments : EndOf(inst, PositionOf(inst, k)[1], PositionOf(inst, k)[2])
    BY DEF EndOf, PositionOf
  <2>2. /\ EndOf(inst, PositionOf(inst, p[1])[1], PositionOf(inst, p[1])[2])
        /\ EndOf(inst, PositionOf(inst, p[2])[1], PositionOf(inst, p[2])[2])
    BY <2>1 DEF PairsWithin
  <2>. QED  BY <2>2, BothWaysDraw DEF PairOf
<1>. QED  BY <1>1, PairEdgesAre DEF PlainlyDraw

\* The pairs that an expansion joins.
LEMMA ExpandedAre ==
  ASSUME NEW expansion, NEW inst, IsVector(inst.arguments)
  PROVE  LET pairs == Expanded(expansion, Len(inst.arguments))
         IN  /\ IsVector(pairs) /\ PairsWithin(inst, pairs)
             /\ \A i, j \in DOMAIN inst.arguments :
                  i < j /\ Expands(expansion, <<i, j>>) => <<i, j>> \in ToSet(pairs)
<1>. DEFINE n == Len(inst.arguments)
            all == PositionPairs(n)
            places == {k \in DOMAIN all : Expands(expansion, all[k])}
<1>1. n \in Nat /\ DOMAIN inst.arguments = 1..n
  BY VectorFacts
<1>2. Expanded(expansion, n) = Chosen(all, places)
  BY DEF Expanded
<1>. HIDE DEF n
<1>3. /\ IsVector(all)
      /\ \A p \in ToSet(all) : p[1] \in 1..n /\ p[2] \in 1..n
      /\ \A i, j \in 1..n : i < j => <<i, j>> \in ToSet(all)
  BY <1>1, PairsUp
<1>4. places \in SUBSET DOMAIN all
      /\ \A k \in DOMAIN all : Expands(expansion, all[k]) => k \in places
  OBVIOUS
<1>. HIDE DEF all, places
<1>5. IsVector(Chosen(all, places)) /\ ToSet(Chosen(all, places)) = {all[k] : k \in places}
  BY <1>3, <1>4, ChosenVector
<1>6. \A k \in DOMAIN all : all[k] \in ToSet(all)
  BY DEF ToSet
<1>7. \A p \in ToSet(all) : \E k \in DOMAIN all : p = all[k]
  BY DEF ToSet
<1>8. PairsWithin(inst, Chosen(all, places))
  BY <1>1, <1>3, <1>4, <1>5, <1>6 DEF PairsWithin
<1>9. \A i, j \in DOMAIN inst.arguments :
        i < j /\ Expands(expansion, <<i, j>>) => <<i, j>> \in ToSet(Chosen(all, places))
  BY <1>1, <1>3, <1>4, <1>5, <1>7
<1>. QED  BY <1>2, <1>5, <1>8, <1>9 DEF n

KindKnown(d) == d.atom_expansion \in Expansions /\ (d.atom_expansion = "star" => Reified(d))

LEMMA InstanceEdgesDraw ==
  ASSUME NEW d, KindKnown(d), NEW inst, IsVector(inst.arguments)
  PROVE  PlainlyDraw(ToSet(InstanceEdges(d, inst)), inst)
<1>1. CASE inst.role = "action"
  <2>1. InstanceEdges(d, inst) = StarEdges(d, inst, "action")
    BY <1>1 DEF InstanceEdges
  <2>. QED  BY <2>1, StarEdgesDraw
<1>2. CASE inst.role # "action" /\ ~Reified(d) /\ Len(inst.arguments) = 1
  <2>1. InstanceEdges(d, inst) = Loop(ObjectNode(inst.arguments[1]), "unary", inst)
    BY <1>2 DEF InstanceEdges, ProjectedEdges
  <2>2. 1 \in DOMAIN inst.arguments
    BY <1>2, VectorFacts
  <2>3. EndOf(inst, ObjectNode(inst.arguments[1]), 1)
    BY <2>2 DEF EndOf
  <2>. QED  BY <2>1, <2>3, LoopDraws
<1>3. CASE inst.role # "action" /\ ~Reified(d) /\ Len(inst.arguments) # 1
  <2>. DEFINE pairs == Expanded(d.atom_expansion, Len(inst.arguments))
  <2>1. InstanceEdges(d, inst) = PairEdges(d, inst, pairs)
    BY <1>3 DEF InstanceEdges, ProjectedEdges
  <2>2. IsVector(pairs) /\ PairsWithin(inst, pairs)
    BY ExpandedAre
  <2>3. d.atom_expansion # "line_share"
    BY DEF KindKnown, Expansions
  <2>. HIDE DEF pairs
  <2>. QED  BY <2>1, <2>2, <2>3, PairEdgesDraw
<1>4. CASE inst.role # "action" /\ Reified(d) /\ inst.arguments = <<>>
  <2>1. InstanceEdges(d, inst) = Loop(InstanceNode(inst), "nullary", inst)
    BY <1>4 DEF InstanceEdges
  <2>2. EndOf(inst, InstanceNode(inst), 1)
    BY DEF EndOf
  <2>. QED  BY <2>1, <2>2, LoopDraws
<1>5. CASE inst.role # "action" /\ Reified(d) /\ inst.arguments # <<>>
  <2>1. InstanceEdges(d, inst) = StarEdges(d, inst, "arg")
    BY <1>5 DEF InstanceEdges
  <2>. QED  BY <2>1, StarEdgesDraw
<1>. QED  BY <1>1, <1>2, <1>3, <1>4, <1>5

\* An edge that names an argument of a row.
Touches(e, inst, k) ==
  <<ObjectNode(inst.arguments[k]), k>> \in {<<e.src, e.positions[1]>>, <<e.dst, e.positions[2]>>}

LEMMA RayReaches ==
  ASSUME NEW d, NEW inst, IsVector(inst.arguments), NEW kind, NEW k \in DOMAIN inst.arguments
  PROVE  \E e \in ToSet(StarEdges(d, inst, kind)) :
           /\ Touches(e, inst, k)
           /\ e.src = InstanceNode(inst) /\ e.dst = ObjectNode(inst.arguments[k])
<1>. DEFINE from == <<InstanceNode(inst), k>>
            to == <<ObjectNode(inst.arguments[k]), k>>
            e == FwdEdge(from, to, kind, ChannelsOf(inst))
<1>1. e \in ToSet(RayOf(d, inst, kind, k))
  BY BothWaysAre DEF RayOf
<1>2. e \in ToSet(StarEdges(d, inst, kind))
  BY <1>1, StarEdgesAre
<1>3. e.src = InstanceNode(inst) /\ e.dst = ObjectNode(inst.arguments[k]) /\ e.positions[2] = k
  BY DEF FwdEdge, DerivedEdge
<1>. HIDE DEF e
<1>4. Touches(e, inst, k)
  BY <1>3 DEF Touches
<1>. QED  BY <1>2, <1>3, <1>4

LEMMA PairReaches ==
  ASSUME NEW d, NEW inst, NEW pairs, IsVector(pairs), NEW i, NEW j, <<i, j>> \in ToSet(pairs)
  PROVE  /\ \E e \in ToSet(PairEdges(d, inst, pairs)) :
              /\ Touches(e, inst, i) /\ Touches(e, inst, j)
              /\ e.src = ObjectNode(inst.arguments[i]) /\ e.dst = ObjectNode(inst.arguments[j])
         /\ d.include_reverse_edges =>
              \E e \in ToSet(PairEdges(d, inst, pairs)) :
                e.src = ObjectNode(inst.arguments[j]) /\ e.dst = ObjectNode(inst.arguments[i])
<1>. DEFINE from == PositionOf(inst, i)
            to == PositionOf(inst, j)
            e == FwdEdge(from, to, d.atom_expansion, ChannelsOf(inst))
            b == BwdEdge(from, to, d.atom_expansion, ChannelsOf(inst))
<1>1. PairOf(d, inst, <<i, j>>) = BothWays(d, from, to, d.atom_expansion, ChannelsOf(inst))
  BY DEF PairOf
<1>2. e \in ToSet(PairOf(d, inst, <<i, j>>))
      /\ (d.include_reverse_edges => b \in ToSet(PairOf(d, inst, <<i, j>>)))
  BY <1>1, BothWaysAre
<1>3. e \in ToSet(PairEdges(d, inst, pairs))
      /\ (d.include_reverse_edges => b \in ToSet(PairEdges(d, inst, pairs)))
  BY <1>2, PairEdgesAre
<1>4. /\ e.src = ObjectNode(inst.arguments[i]) /\ e.dst = ObjectNode(inst.arguments[j])
      /\ e.positions[1] = i /\ e.positions[2] = j
  BY DEF FwdEdge, DerivedEdge, PositionOf
<1>5. b.src = ObjectNode(inst.arguments[j]) /\ b.dst = ObjectNode(inst.arguments[i])
  BY DEF BwdEdge, DerivedEdge, PositionOf
<1>. HIDE DEF e, b
<1>6. Touches(e, inst, i) /\ Touches(e, inst, j)
  BY <1>4 DEF Touches
<1>. QED  BY <1>3, <1>4, <1>5, <1>6

LEMMA ExpandsWhat ==
  ASSUME NEW i, NEW j
  PROVE  /\ Expands("clique", <<i, j>>)
         /\ Expands("chain", <<i, j>>) <=> j = i + 1
         /\ Expands("star_first", <<i, j>>) <=> i = 1
<1>1. <<i, j>>[1] = i /\ <<i, j>>[2] = j
  OBVIOUS
<1>. QED  BY <1>1 DEF Expands

\* No argument is left without an edge.
LEMMA InstanceEdgesTouch ==
  ASSUME NEW d, KindKnown(d), NEW inst, IsVector(inst.arguments), NEW k \in DOMAIN inst.arguments
  PROVE  \E e \in ToSet(InstanceEdges(d, inst)) : Touches(e, inst, k)
<1>. DEFINE n == Len(inst.arguments)
<1>0. n \in Nat /\ DOMAIN inst.arguments = 1..n /\ inst.arguments # <<>>
  BY VectorFacts
<1>. HIDE DEF n
<1>1. CASE inst.role = "action"
  <2>1. InstanceEdges(d, inst) = StarEdges(d, inst, "action")
    BY <1>1 DEF InstanceEdges
  <2>. QED  BY <2>1, RayReaches
<1>2. CASE inst.role # "action" /\ Reified(d)
  <2>1. InstanceEdges(d, inst) = StarEdges(d, inst, "arg")
    BY <1>0, <1>2 DEF InstanceEdges
  <2>. QED  BY <2>1, RayReaches
<1>3. CASE inst.role # "action" /\ ~Reified(d) /\ n = 1
  <2>1. InstanceEdges(d, inst) = Loop(ObjectNode(inst.arguments[1]), "unary", inst)
    BY <1>3 DEF InstanceEdges, ProjectedEdges, n
  <2>2. k = 1
    BY <1>0, <1>3
  <2>3. EndOf(inst, ObjectNode(inst.arguments[1]), 1)
    BY <2>2 DEF EndOf
  <2>4. PICK e \in ToSet(InstanceEdges(d, inst)) :
          e.src = ObjectNode(inst.arguments[1]) /\ e.positions[1] = 1
    BY <2>1, <2>3, LoopDraws
  <2>. QED  BY <2>2, <2>4 DEF Touches
<1>4. CASE inst.role # "action" /\ ~Reified(d) /\ n # 1
  <2>. DEFINE pairs == Expanded(d.atom_expansion, n)
  <2>1. InstanceEdges(d, inst) = PairEdges(d, inst, pairs)
    BY <1>4 DEF InstanceEdges, ProjectedEdges, n
  <2>2. /\ IsVector(pairs)
        /\ \A i, j \in DOMAIN inst.arguments :
             i < j /\ Expands(d.atom_expansion, <<i, j>>) => <<i, j>> \in ToSet(pairs)
    BY ExpandedAre DEF n
  <2>. HIDE DEF pairs
  <2>3. n >= 2
    BY <1>0, <1>4
  <2>4. \E i, j \in DOMAIN inst.arguments :
          i < j /\ k \in {i, j} /\ Expands(d.atom_expansion, <<i, j>>)
    <3>1. d.atom_expansion \in {"clique", "chain", "star_first"}
      BY <1>4 DEF KindKnown, Expansions
    <3>2. CASE k = 1
      <4>1. 1 \in DOMAIN inst.arguments /\ 2 \in DOMAIN inst.arguments
        BY <1>0, <2>3
      <4>2. Expands(d.atom_expansion, <<1, 2>>)
        BY <3>1, ExpandsWhat
      <4>. QED  BY <3>2, <4>1, <4>2
    <3>3. CASE k # 1 /\ d.atom_expansion = "chain"
      <4>1. k - 1 \in DOMAIN inst.arguments /\ k - 1 < k /\ k = (k - 1) + 1
        BY <1>0, <3>3
      <4>2. Expands(d.atom_expansion, <<k - 1, k>>)
        BY <3>3, <4>1, ExpandsWhat
      <4>. QED  BY <4>1, <4>2
    <3>4. CASE k # 1 /\ d.atom_expansion # "chain"
      <4>1. 1 \in DOMAIN inst.arguments /\ 1 < k
        BY <1>0, <3>4
      <4>2. Expands(d.atom_expansion, <<1, k>>)
        BY <3>1, <3>4, ExpandsWhat
      <4>. QED  BY <4>1, <4>2
    <3>. QED  BY <3>2, <3>3, <3>4
  <2>5. PICK i \in DOMAIN inst.arguments, j \in DOMAIN inst.arguments :
          k \in {i, j} /\ <<i, j>> \in ToSet(pairs)
    BY <2>2, <2>4
  <2>6. PICK e \in ToSet(PairEdges(d, inst, pairs)) : Touches(e, inst, i) /\ Touches(e, inst, j)
    BY <2>2, <2>5, PairReaches
  <2>. QED  BY <2>1, <2>5, <2>6
<1>. QED  BY <1>1, <1>2, <1>3, <1>4

\* In a drawing of cliques both ways, arguments are joined by an edge or by a node.
LEMMA CliquesJoin ==
  ASSUME NEW d, d.atom_expansion = "clique", d.include_reverse_edges,
         NEW inst, IsVector(inst.arguments), ~HasNode(d, inst),
         NEW i \in DOMAIN inst.arguments, NEW j \in DOMAIN inst.arguments, i # j
  PROVE  \E e \in ToSet(InstanceEdges(d, inst)) :
           e.src = ObjectNode(inst.arguments[i]) /\ e.dst = ObjectNode(inst.arguments[j])
<1>. DEFINE n == Len(inst.arguments)
            pairs == Expanded("clique", n)
<1>0. n \in Nat /\ DOMAIN inst.arguments = 1..n
  BY VectorFacts
<1>. HIDE DEF n
<1>1. n # 1 /\ (i < j \/ j < i)
  <2>1. i \in 1..n /\ j \in 1..n
    BY <1>0
  <2>. QED  BY <1>0, <2>1
<1>2. InstanceEdges(d, inst) = PairEdges(d, inst, pairs)
  BY <1>1 DEF InstanceEdges, ProjectedEdges, HasNode, n
<1>3. /\ IsVector(pairs)
      /\ \A a, b \in DOMAIN inst.arguments :
           a < b /\ Expands("clique", <<a, b>>) => <<a, b>> \in ToSet(pairs)
  BY ExpandedAre DEF n
<1>. HIDE DEF pairs
<1>4. \A a, b : Expands("clique", <<a, b>>)
  BY ExpandsWhat
<1>5. <<i, j>> \in ToSet(pairs) \/ <<j, i>> \in ToSet(pairs)
  BY <1>1, <1>3, <1>4
<1>6. CASE <<i, j>> \in ToSet(pairs)
  BY <1>2, <1>3, <1>6, PairReaches
<1>7. CASE <<j, i>> \in ToSet(pairs)
  BY <1>2, <1>3, <1>7, PairReaches
<1>. QED  BY <1>5, <1>6, <1>7

LEMMA NodesJoin ==
  ASSUME NEW d, NEW inst, IsVector(inst.arguments), HasNode(d, inst),
         NEW i \in DOMAIN inst.arguments
  PROVE  \E e \in ToSet(InstanceEdges(d, inst)) :
           e.src = InstanceNode(inst) /\ e.dst = ObjectNode(inst.arguments[i])
<1>1. inst.arguments # <<>>
  BY VectorFacts
<1>2. PICK kind : InstanceEdges(d, inst) = StarEdges(d, inst, kind)
  BY <1>1 DEF InstanceEdges, HasNode
<1>. QED  BY <1>2, RayReaches

-----------------------------------------------------------------------------
(***************************************************************************)
(* What shortcuts run between.                                             *)
(***************************************************************************)
RunsBetween(e, one, other) ==
  /\ IsShortcut(e) /\ one[1] # other[1]
  /\ e.src = one[1] /\ e.dst = other[1] /\ e.positions[1] = one[2] /\ e.positions[2] = other[2]

LEMMA ShortcutRuns ==
  ASSUME NEW d, NEW one, NEW other
  PROVE  /\ IsVector(Shortcut(d, one, other))
         /\ \A e \in ToSet(Shortcut(d, one, other)) :
              RunsBetween(e, one, other) \/ RunsBetween(e, other, one)
<1>1. CASE one[1] = other[1]
  BY <1>1, EmptyVector DEF Shortcut
<1>2. CASE one[1] # other[1]
  <2>. DEFINE fwd == FwdEdge(one, other, "line_share", Unlabeled)
              bwd == BwdEdge(one, other, "line_share", Unlabeled)
              both == BothWays(d, one, other, "line_share", Unlabeled)
  <2>1. Shortcut(d, one, other) = both
    BY <1>2 DEF Shortcut
  <2>2. IsVector(both) /\ ToSet(both) \subseteq {fwd, bwd}
    BY BothWaysAre
  <2>3. /\ fwd.src = one[1] /\ fwd.dst = other[1] /\ fwd.kind[1] = "line_share"
        /\ fwd.positions[1] = one[2] /\ fwd.positions[2] = other[2]
    BY DEF FwdEdge, DerivedEdge
  <2>4. /\ bwd.src = other[1] /\ bwd.dst = one[1] /\ bwd.kind[1] = "line_share"
        /\ bwd.positions[1] = other[2] /\ bwd.positions[2] = one[2]
    BY DEF BwdEdge, DerivedEdge
  <2>. HIDE DEF fwd, bwd, both
  <2>5. RunsBetween(fwd, one, other) /\ RunsBetween(bwd, other, one)
    BY <1>2, <2>3, <2>4 DEF RunsBetween, IsShortcut
  <2>. QED  BY <2>1, <2>2, <2>5
<1>. QED  BY <1>1, <1>2

RunsWithin(e, S) == \E one, other \in S : RunsBetween(e, one, other)

LEMMA ShortcutsRun ==
  ASSUME NEW d, NEW incidents, IsVector(incidents)
  PROVE  /\ IsVector(ShortcutsBy(d, incidents))
         /\ \A e \in ToSet(ShortcutsBy(d, incidents)) : RunsWithin(e, ToSet(incidents))
<1>. DEFINE n == Len(incidents)
            pairs == PositionPairs(n)
            t == [k \in DOMAIN pairs |->
                    Shortcut(d, incidents[pairs[k][1]], incidents[pairs[k][2]])]
            S == ToSet(incidents)
<1>1. n \in Nat /\ DOMAIN incidents = 1..n /\ \A k \in 1..n : incidents[k] \in S
  BY VectorFacts
<1>2. /\ IsVector(pairs)
      /\ \A p \in ToSet(pairs) : p[1] \in 1..n /\ p[2] \in 1..n
  BY <1>1, PairsAre
<1>. HIDE DEF pairs
<1>3. /\ Len(pairs) \in Nat /\ DOMAIN pairs = 1..Len(pairs)
      /\ \A k \in DOMAIN pairs : pairs[k] \in ToSet(pairs)
  BY <1>2, VectorFacts
<1>4. DOMAIN t = 1..Len(pairs) /\ t = [k \in 1..Len(pairs) |-> t[k]]
      /\ \A k \in 1..Len(pairs) : t[k] = Shortcut(d, incidents[pairs[k][1]], incidents[pairs[k][2]])
  BY <1>3
<1>5. Shortcuts(d, incidents, pairs) = FlattenSeq(t)
  BY DEF Shortcuts
<1>. HIDE DEF t, n, S
<1>6. ASSUME NEW k \in 1..Len(pairs)
      PROVE  IsVector(t[k]) /\ \A e \in ToSet(t[k]) : RunsWithin(e, S)
  <2>. DEFINE one == incidents[pairs[k][1]]
              other == incidents[pairs[k][2]]
  <2>1. one \in S /\ other \in S
    BY <1>1, <1>2, <1>3
  <2>2. t[k] = Shortcut(d, one, other)
    BY <1>4
  <2>. HIDE DEF one, other
  <2>3. /\ IsVector(t[k])
        /\ \A e \in ToSet(t[k]) : RunsBetween(e, one, other) \/ RunsBetween(e, other, one)
    BY <2>2, ShortcutRuns
  <2>. QED  BY <2>1, <2>3 DEF RunsWithin
<1>7. \A k \in 1..Len(pairs) : IsVector(t[k])
  BY <1>6
<1>8. /\ IsVector(FlattenSeq(t))
      /\ ToSet(FlattenSeq(t)) = UNION {ToSet(t[i]) : i \in 1..Len(pairs)}
  BY <1>3, <1>4, <1>7, FlattenedVectors
<1>9. \A e \in ToSet(FlattenSeq(t)) : RunsWithin(e, S)
  BY <1>6, <1>8
<1>. QED  BY <1>5, <1>8, <1>9, EmptyVector DEF ShortcutsBy, n, S, pairs

\* A place at which literals meet is an argument of one of them.
LEMMA IncidentIs ==
  ASSUME NEW literals, Tabled(literals), NEW o, NEW x \in ToSet(Incidents(literals, o))
  PROVE  \E inst \in ToSet(literals) : x[1] = InstanceNode(inst) /\ inst.arguments[x[2]] = o
<1>1. PICK inst \in ToSet(literals) : x \in ToSet(PlacesOf(inst, o))
  BY IncidentsAre
<1>2. IsVector(inst.arguments)
  BY DEF Tabled
<1>. DEFINE at == {p \in DOMAIN inst.arguments : inst.arguments[p] = o}
            f == [p \in at |-> p]
            positions == PositionsAt(inst, o)
<1>3. /\ Len(inst.arguments) \in Nat /\ DOMAIN inst.arguments = 1..Len(inst.arguments)
      /\ IsFiniteSet(DOMAIN inst.arguments)
  BY <1>2, VectorFacts, VectorFinite
<1>4. IsFiniteSet(at) /\ at \in SUBSET Nat
  BY <1>3, FS_Subset
<1>5. \A p \in at : inst.arguments[p] = o
  OBVIOUS
<1>. HIDE DEF at
<1>6. DOMAIN f = at /\ f \in [at -> at]
  OBVIOUS
<1>7. positions = InOrder(f)
  BY DEF PositionsAt, at
<1>. HIDE DEF f
<1>8. InOrder(f) \in Seq(at)
  BY <1>4, <1>6, InOrderSet
<1>. HIDE DEF positions
<1>9. \A k \in DOMAIN positions : positions[k] \in at
  BY <1>7, <1>8
<1>10. PICK k \in DOMAIN positions : x = <<InstanceNode(inst), positions[k]>>
  <2>1. x \in ToSet(InstancePositions(inst, positions))
    BY <1>1 DEF PlacesOf, positions
  <2>2. DOMAIN InstancePositions(inst, positions) = DOMAIN positions
        /\ \A n \in DOMAIN positions :
             InstancePositions(inst, positions)[n] = <<InstanceNode(inst), positions[n]>>
    BY DEF InstancePositions
  <2>. QED  BY <2>1, <2>2 DEF ToSet
<1>11. x[1] = InstanceNode(inst) /\ inst.arguments[x[2]] = o
  BY <1>5, <1>9, <1>10
<1>. QED  BY <1>11

JoinsLiterals(e, rows) == IsShortcut(e) /\ \E one, other \in rows : Joins(e, one, other)

LEMMA LineEdgesJoin ==
  ASSUME NEW d, NEW objects, IsVector(objects), NEW literals, Tabled(literals),
         \A inst \in ToSet(literals) : inst.role # "action"
  PROVE  /\ IsVector(LineEdges(d, objects, literals))
         /\ \A e \in ToSet(LineEdges(d, objects, literals)) : JoinsLiterals(e, ToSet(literals))
<1>. DEFINE t == [k \in DOMAIN objects |-> ShortcutsBy(d, Incidents(literals, objects[k]))]
            n == Len(objects)
<1>1. n \in Nat /\ DOMAIN objects = 1..n
  BY VectorFacts
<1>2. DOMAIN t = 1..n /\ t = [k \in 1..n |-> t[k]]
      /\ \A k \in 1..n : t[k] = ShortcutsBy(d, Incidents(literals, objects[k]))
  BY <1>1
<1>3. LineEdges(d, objects, literals) = FlattenSeq(t)
  BY DEF LineEdges
<1>. HIDE DEF t, n
<1>4. ASSUME NEW k \in 1..n
      PROVE  IsVector(t[k]) /\ \A e \in ToSet(t[k]) : JoinsLiterals(e, ToSet(literals))
  <2>. DEFINE o == objects[k]
              incidents == Incidents(literals, o)
  <2>1. IsVector(incidents)
    BY IncidentsAre
  <2>2. IsVector(t[k]) /\ \A e \in ToSet(t[k]) : RunsWithin(e, ToSet(incidents))
    BY <1>2, <2>1, ShortcutsRun
  <2>. HIDE DEF o
  <2>3. ASSUME NEW e \in ToSet(t[k])
        PROVE  JoinsLiterals(e, ToSet(literals))
    <3>1. PICK x \in ToSet(incidents), y \in ToSet(incidents) : RunsBetween(e, x, y)
      BY <2>2 DEF RunsWithin
    <3>2. PICK one \in ToSet(literals) : x[1] = InstanceNode(one) /\ one.arguments[x[2]] = o
      BY IncidentIs
    <3>3. PICK other \in ToSet(literals) : y[1] = InstanceNode(other) /\ other.arguments[y[2]] = o
      BY IncidentIs
    <3>4. Joins(e, one, other)
      BY <3>1, <3>2, <3>3 DEF Joins, RunsBetween
    <3>5. IsShortcut(e)
      BY <3>1 DEF RunsBetween
    <3>. QED  BY <3>4, <3>5 DEF JoinsLiterals
  <2>. QED  BY <2>2, <2>3
<1>5. \A k \in 1..n : IsVector(t[k])
  BY <1>4
<1>6. IsVector(FlattenSeq(t)) /\ ToSet(FlattenSeq(t)) = UNION {ToSet(t[i]) : i \in 1..n}
  BY <1>1, <1>2, <1>5, FlattenedVectors
<1>. QED  BY <1>3, <1>4, <1>6

-----------------------------------------------------------------------------
(***************************************************************************)
(* All edges of a drawing.                                                 *)
(***************************************************************************)
DrawsRowsOnly(edges, rows) == \A e \in edges : EdgeOfTable(e, rows)

DrawsEachRow(d, edges, rows) ==
  \A inst \in rows :
    /\ ToSet(InstanceEdges(d, inst)) \subseteq edges
    /\ Waiting(d, inst) => ToSet(Loop(AnchorNode, "nullary", inst)) \subseteq edges

LEMMA DerivedEdgesAre ==
  ASSUME NEW d, KindKnown(d), NEW objects, IsVector(objects), NEW pool, Tabled(pool), Apart(pool)
  PROVE  LET edges == ToSet(DerivedEdges(d, objects, pool))
         IN  DrawsRowsOnly(edges, ToSet(pool)) /\ DrawsEachRow(d, edges, ToSet(pool))
<1>. DEFINE rows  == FlattenSeq([k \in DOMAIN pool |-> InstanceEdges(d, pool[k])])
            lines == IF d.include_line_graph
                     THEN LineEdges(d, objects, DrawnLiterals(pool)) ELSE <<>>
            loops == AnchorLoops(d, pool)
            R == ToSet(pool)
<1>1. IsVector(pool) /\ \A inst \in R : IsVector(inst.arguments)
  BY DEF Tabled
<1>2. IsVector(rows) /\ ToSet(rows) = UNION {ToSet(InstanceEdges(d, x)) : x \in R}
  BY RowEdgesAre
<1>3. /\ IsVector(loops)
      /\ ToSet(loops) = UNION {ToSet(Loop(AnchorNode, "nullary", x)) : x \in {y \in R : Waiting(d, y)}}
  BY <1>1, AnchorLoopsAre
<1>4. IsVector(lines) /\ \A e \in ToSet(lines) : JoinsLiterals(e, R)
  <2>. DEFINE p == DrawnLiterals(pool)
  <2>1. Tabled(p) /\ ToSet(p) = {x \in R : x.role # "action"}
    BY DrawnLiteralsAre
  <2>2. lines = (IF d.include_line_graph THEN LineEdges(d, objects, p) ELSE <<>>)
    OBVIOUS
  <2>3. ToSet(p) \subseteq R /\ \A inst \in ToSet(p) : inst.role # "action"
    BY <2>1
  <2>. HIDE DEF p, lines, R
  <2>4. /\ IsVector(LineEdges(d, objects, p))
        /\ \A e \in ToSet(LineEdges(d, objects, p)) : JoinsLiterals(e, ToSet(p))
    BY <2>1, <2>3, LineEdgesJoin
  <2>5. \A e : JoinsLiterals(e, ToSet(p)) => JoinsLiterals(e, R)
    BY <2>3 DEF JoinsLiterals
  <2>. QED  BY <2>2, <2>4, <2>5, EmptyVector
<1>5. DerivedEdges(d, objects, pool) = (rows \o lines) \o loops
  BY DEF DerivedEdges
<1>. HIDE DEF rows, lines, loops, R
<1>6. IsVector(rows \o lines) /\ ToSet(rows \o lines) = ToSet(rows) \cup ToSet(lines)
  BY <1>2, <1>4, JoinedVectors
<1>7. ToSet((rows \o lines) \o loops) = ToSet(rows \o lines) \cup ToSet(loops)
  BY <1>3, <1>6, JoinedVectors
<1>. DEFINE edges == ToSet(DerivedEdges(d, objects, pool))
<1>8. edges = (ToSet(rows) \cup ToSet(lines)) \cup ToSet(loops)
  BY <1>5, <1>6, <1>7
<1>9. \A e \in ToSet(rows) : EdgeOfTable(e, R)
  <2>1. SUFFICES ASSUME NEW e \in ToSet(rows) PROVE EdgeOfTable(e, R)
    OBVIOUS
  <2>2. PICK inst \in R : e \in ToSet(InstanceEdges(d, inst))
    BY <1>2
  <2>3. ~IsShortcut(e) /\ DrawsRow(e, inst)
    BY <1>1, <2>2, InstanceEdgesDraw DEF PlainlyDraw
  <2>. QED  BY <2>3 DEF EdgeOfTable
<1>10. \A e \in ToSet(lines) : EdgeOfTable(e, R)
  BY <1>4 DEF JoinsLiterals, EdgeOfTable
<1>11. \A e \in ToSet(loops) : EdgeOfTable(e, R)
  <2>1. SUFFICES ASSUME NEW e \in ToSet(loops) PROVE EdgeOfTable(e, R)
    OBVIOUS
  <2>2. PICK inst \in R : Waiting(d, inst) /\ e \in ToSet(Loop(AnchorNode, "nullary", inst))
    BY <1>3
  <2>3. EndOf(inst, AnchorNode, 1)
    BY <2>2 DEF EndOf, Waiting
  <2>4. ~IsShortcut(e) /\ DrawsRow(e, inst)
    BY <2>2, <2>3, LoopDraws DEF PlainlyDraw
  <2>. QED  BY <2>4 DEF EdgeOfTable
<1>12. DrawsRowsOnly(edges, R)
  BY <1>8, <1>9, <1>10, <1>11 DEF DrawsRowsOnly
<1>13. ASSUME NEW inst \in R
       PROVE  /\ ToSet(InstanceEdges(d, inst)) \subseteq edges
              /\ Waiting(d, inst) => ToSet(Loop(AnchorNode, "nullary", inst)) \subseteq edges
  <2>1. ToSet(InstanceEdges(d, inst)) \subseteq ToSet(rows)
    BY <1>2
  <2>2. Waiting(d, inst) => ToSet(Loop(AnchorNode, "nullary", inst)) \subseteq ToSet(loops)
    BY <1>3
  <2>. QED  BY ONLY <1>8, <2>1, <2>2
<1>14. DrawsEachRow(d, edges, R)
  BY <1>13 DEF DrawsEachRow
<1>. QED  BY <1>12, <1>14 DEF R

(***************************************************************************)
(* No node is drawn twice.                                                 *)
(***************************************************************************)
LEMMA NodesDrawnOnce ==
  ASSUME NEW d, NEW objects, IsVector(objects), Apart(objects),
         NEW drawn, IsVector(drawn), Apart(drawn)
  PROVE  IsInjective(DerivedNodes(d, objects, drawn))
<1>. DEFINE a == [k \in DOMAIN objects |-> ObjectNode(objects[k])]
            b == [k \in DOMAIN drawn |-> InstanceNode(drawn[k])]
            z == IF HasAnchorNode(d) THEN <<AnchorNode>> ELSE <<>>
            s == a \o b \o z
<1>1. /\ DOMAIN a = DOMAIN objects /\ a = [k \in DOMAIN a |-> a[k]]
      /\ \A k \in DOMAIN a : a[k] = ObjectNode(objects[k])
  OBVIOUS
<1>2. /\ DOMAIN b = DOMAIN drawn /\ b = [k \in DOMAIN b |-> b[k]]
      /\ \A k \in DOMAIN b : b[k] = InstanceNode(drawn[k])
  OBVIOUS
<1>3. DerivedNodes(d, objects, drawn) = s
  BY DEF DerivedNodes
<1>4. IsVector(z) /\ (z = <<>> \/ z = <<AnchorNode>>)
  BY SingleVector, EmptyVector
<1>5. \A k \in 1..Len(z) : k = 1 /\ z[k] = AnchorNode
  <2>1. CASE z = <<>>
    BY <2>1, EmptyVector
  <2>2. CASE z = <<AnchorNode>>
    <3>1. Len(z) = 1 /\ z[1] = AnchorNode
      BY <2>2
    <3>. QED  BY <3>1
  <2>. QED  BY <1>4, <2>1, <2>2
<1>. HIDE DEF a, b, z
<1>6. IsVector(a) /\ IsVector(b)
  BY <1>1, <1>2, MappedVector
<1>7. DOMAIN a = 1..Len(a) /\ DOMAIN b = 1..Len(b)
  BY <1>6, VectorFacts
<1>8. InThree(a, b, z, s)
  BY <1>4, <1>6, ThreeParts
<1>. DEFINE m == Len(a)
            n == Len(b)
<1>9. /\ m \in Nat /\ n \in Nat /\ Len(z) \in Nat /\ Len(s) = m + n + Len(z)
      /\ \A k \in 1..Len(s) :
           s[k] = IF k <= m THEN a[k] ELSE IF k <= m + n THEN b[k - m] ELSE z[k - m - n]
  BY <1>8 DEF InThree
<1>10. DOMAIN s = 1..Len(s)
  BY <1>8, VectorFacts DEF InThree
<1>. HIDE DEF s, m, n
<1>11. ASSUME NEW i \in 1..Len(s), NEW j \in 1..Len(s), s[i] = s[j]
       PROVE  i = j
  <2>1. ASSUME NEW k \in 1..Len(s), k <= m
        PROVE  k \in DOMAIN objects /\ s[k] = ObjectNode(objects[k])
    BY <1>1, <1>7, <1>9, <2>1 DEF m
  <2>2. ASSUME NEW k \in 1..Len(s), ~(k <= m), k <= m + n
        PROVE  k - m \in DOMAIN drawn /\ s[k] = InstanceNode(drawn[k - m])
    <3>1. k - m \in 1..n
      BY <1>9, <2>2
    <3>. QED  BY <1>2, <1>7, <1>9, <2>2, <3>1 DEF n
  <2>3. ASSUME NEW k \in 1..Len(s), ~(k <= m), ~(k <= m + n)
        PROVE  k = m + n + 1 /\ s[k] = AnchorNode
    <3>1. k - m - n \in 1..Len(z) /\ s[k] = z[k - m - n]
      BY <1>9, <2>3
    <3>2. k - m - n = 1 /\ s[k] = AnchorNode
      BY <1>5, <3>1
    <3>. QED  BY <1>9, <3>2
  <2>4. /\ \A o, x : ObjectNode(o) # InstanceNode(x) /\ ObjectNode(o) # AnchorNode
                     /\ InstanceNode(x) # AnchorNode
        /\ \A o, x : ObjectNode(o) = ObjectNode(x) => o = x
        /\ \A o, x : InstanceNode(o) = InstanceNode(x) => o = x
    BY DEF ObjectNode, InstanceNode, AnchorNode
  <2>5. CASE i <= m
    <3>1. i \in DOMAIN objects /\ s[i] = ObjectNode(objects[i])
      BY <2>1, <2>5
    <3>2. j <= m
      BY <1>11, <2>2, <2>3, <2>4, <3>1
    <3>3. j \in DOMAIN objects /\ s[j] = ObjectNode(objects[j])
      BY <2>1, <3>2
    <3>. QED  BY <1>11, <2>4, <3>1, <3>3 DEF Apart
  <2>6. CASE ~(i <= m) /\ i <= m + n
    <3>1. i - m \in DOMAIN drawn /\ s[i] = InstanceNode(drawn[i - m])
      BY <2>2, <2>6
    <3>2. ~(j <= m) /\ j <= m + n
      BY <1>11, <2>1, <2>3, <2>4, <3>1
    <3>3. j - m \in DOMAIN drawn /\ s[j] = InstanceNode(drawn[j - m])
      BY <2>2, <3>2
    <3>4. i - m = j - m
      BY <1>11, <2>4, <3>1, <3>3 DEF Apart
    <3>. QED  BY <1>9, <3>4
  <2>7. CASE ~(i <= m) /\ ~(i <= m + n)
    <3>1. i = m + n + 1 /\ s[i] = AnchorNode
      BY <2>3, <2>7
    <3>2. ~(j <= m) /\ ~(j <= m + n)
      BY <1>11, <2>1, <2>2, <2>4, <3>1
    <3>. QED  BY <2>3, <3>1, <3>2
  <2>. QED  BY <2>5, <2>6, <2>7
<1>. QED  BY <1>3, <1>10, <1>11 DEF IsInjective

-----------------------------------------------------------------------------
(***************************************************************************)
(* Objects meet in a drawing of cliques when a row has both.               *)
(***************************************************************************)
LEMMA EndsAre ==
  ASSUME NEW inst, NEW node, NEW position, EndOf(inst, node, position)
  PROVE  /\ node[1] = "object" =>
              /\ position \in DOMAIN inst.arguments
              /\ node = ObjectNode(inst.arguments[position])
         /\ node[1] = "instance" => node = InstanceNode(inst)
<1>1. \A o : ObjectNode(o)[1] = "object"
  BY DEF ObjectNode
<1>2. InstanceNode(inst)[1] = "instance" /\ AnchorNode[1] = "anchor"
  BY DEF InstanceNode, AnchorNode
<1>. QED  BY <1>1, <1>2 DEF EndOf

HasBoth(inst, x, y) ==
  \E i, j \in DOMAIN inst.arguments : x = inst.arguments[i] /\ y = inst.arguments[j]

LEMMA ObjectsBetween ==
  ASSUME NEW edges, NEW rows, DrawsRowsOnly(edges, rows), NEW q \in Between(edges, "object")
  PROVE  \E inst \in rows : \E x, y : HasBoth(inst, x, y) /\ q = <<ObjectNode(x), ObjectNode(y)>>
<1>1. PICK e \in edges : /\ ~IsShortcut(e) /\ e.src[1] = "object" /\ e.dst[1] = "object"
                         /\ q = <<e.src, e.dst>>
  BY DEF Between
<1>2. PICK inst \in rows : DrawsRow(e, inst)
  BY <1>1 DEF DrawsRowsOnly, EdgeOfTable
<1>. DEFINE i == e.positions[1]
            j == e.positions[2]
<1>3. EndOf(inst, e.src, i) /\ EndOf(inst, e.dst, j)
  BY <1>2 DEF DrawsRow
<1>. HIDE DEF i, j
<1>4. i \in DOMAIN inst.arguments /\ e.src = ObjectNode(inst.arguments[i])
  BY <1>1, <1>3, EndsAre
<1>5. j \in DOMAIN inst.arguments /\ e.dst = ObjectNode(inst.arguments[j])
  BY <1>1, <1>3, EndsAre
<1>. QED  BY <1>1, <1>4, <1>5 DEF HasBoth

LEMMA RaysBetween ==
  ASSUME NEW edges, NEW rows, DrawsRowsOnly(edges, rows), NEW q \in Between(edges, "instance")
  PROVE  \E inst \in rows : \E i \in DOMAIN inst.arguments :
           q = <<InstanceNode(inst), ObjectNode(inst.arguments[i])>>
<1>1. PICK e \in edges : /\ ~IsShortcut(e) /\ e.src[1] = "instance" /\ e.dst[1] = "object"
                         /\ q = <<e.src, e.dst>>
  BY DEF Between
<1>2. PICK inst \in rows : DrawsRow(e, inst)
  BY <1>1 DEF DrawsRowsOnly, EdgeOfTable
<1>. DEFINE j == e.positions[2]
<1>3. EndOf(inst, e.src, e.positions[1]) /\ EndOf(inst, e.dst, j)
  BY <1>2 DEF DrawsRow
<1>. HIDE DEF j
<1>4. e.src = InstanceNode(inst)
  BY <1>1, <1>3, EndsAre
<1>5. j \in DOMAIN inst.arguments /\ e.dst = ObjectNode(inst.arguments[j])
  BY <1>1, <1>3, EndsAre
<1>. QED  BY <1>1, <1>4, <1>5

LEMMA MeetInRow ==
  ASSUME NEW edges, NEW rows, DrawsRowsOnly(edges, rows), NEW q \in Meeting(edges)
  PROVE  \E inst \in rows : \E x, y : HasBoth(inst, x, y) /\ q = <<ObjectNode(x), ObjectNode(y)>>
<1>1. CASE q \in Between(edges, "object")
  BY <1>1, ObjectsBetween
<1>2. CASE q \notin Between(edges, "object")
  <2>. DEFINE star == Between(edges, "instance")
  <2>1. q \in MeetingAt(star)
    BY <1>2 DEF Meeting
  <2>. HIDE DEF star
  <2>2. PICK one \in star, other \in star : other[1] = one[1] /\ q = <<one[2], other[2]>>
    BY <2>1 DEF MeetingAt
  <2>3. PICK inst \in rows : \E i \in DOMAIN inst.arguments :
          one = <<InstanceNode(inst), ObjectNode(inst.arguments[i])>>
    BY RaysBetween DEF star
  <2>4. PICK i \in DOMAIN inst.arguments : one = <<InstanceNode(inst), ObjectNode(inst.arguments[i])>>
    BY <2>3
  <2>5. PICK x \in rows : \E j \in DOMAIN x.arguments :
          other = <<InstanceNode(x), ObjectNode(x.arguments[j])>>
    BY RaysBetween DEF star
  <2>6. PICK j \in DOMAIN x.arguments : other = <<InstanceNode(x), ObjectNode(x.arguments[j])>>
    BY <2>5
  <2>7. one[1] = InstanceNode(inst) /\ other[1] = InstanceNode(x)
        /\ one[2] = ObjectNode(inst.arguments[i]) /\ other[2] = ObjectNode(x.arguments[j])
    BY <2>4, <2>6
  <2>8. x = inst
    BY <2>2, <2>7 DEF InstanceNode
  <2>9. HasBoth(inst, inst.arguments[i], inst.arguments[j])
    BY <2>8 DEF HasBoth
  <2>. QED  BY <2>2, <2>7, <2>8, <2>9
<1>. QED  BY <1>1, <1>2

LEMMA RowsMeet ==
  ASSUME NEW d, d.atom_expansion = "clique", d.include_reverse_edges,
         NEW edges, NEW inst, IsVector(inst.arguments), ToSet(InstanceEdges(d, inst)) \subseteq edges,
         NEW x, NEW y, x # y, HasBoth(inst, x, y)
  PROVE  <<ObjectNode(x), ObjectNode(y)>> \in Meeting(edges)
<1>1. PICK i \in DOMAIN inst.arguments, j \in DOMAIN inst.arguments :
        x = inst.arguments[i] /\ y = inst.arguments[j]
  BY DEF HasBoth
<1>2. i # j
  BY <1>1
<1>3. KindKnown(d)
  BY DEF KindKnown, Expansions
<1>4. \A e \in ToSet(InstanceEdges(d, inst)) : ~IsShortcut(e) /\ e \in edges
  BY <1>3, InstanceEdgesDraw DEF PlainlyDraw
<1>5. /\ \A o : ObjectNode(o)[1] = "object"
      /\ InstanceNode(inst)[1] = "instance"
  BY DEF ObjectNode, InstanceNode
<1>6. CASE HasNode(d, inst)
  <2>. DEFINE star == Between(edges, "instance")
  <2>1. ASSUME NEW k \in DOMAIN inst.arguments
        PROVE  <<InstanceNode(inst), ObjectNode(inst.arguments[k])>> \in star
    <3>1. PICK e \in ToSet(InstanceEdges(d, inst)) :
            e.src = InstanceNode(inst) /\ e.dst = ObjectNode(inst.arguments[k])
      BY <1>6, NodesJoin
    <3>. QED  BY <1>4, <1>5, <3>1 DEF Between
  <2>. HIDE DEF star
  <2>. DEFINE one == <<InstanceNode(inst), ObjectNode(x)>>
              other == <<InstanceNode(inst), ObjectNode(y)>>
  <2>2. one \in star /\ other \in star
    BY <1>1, <2>1
  <2>3. one[1] = other[1] /\ one[2] = ObjectNode(x) /\ other[2] = ObjectNode(y)
    OBVIOUS
  <2>. HIDE DEF one, other
  <2>4. <<ObjectNode(x), ObjectNode(y)>> \in {one[2]} \X {q[2] : q \in {r \in star : r[1] = one[1]}}
    BY <2>2, <2>3
  <2>5. <<ObjectNode(x), ObjectNode(y)>> \in MeetingAt(star)
    BY <2>2, <2>4 DEF MeetingAt
  <2>. QED  BY <2>5 DEF Meeting, star
<1>7. CASE ~HasNode(d, inst)
  <2>1. PICK e \in ToSet(InstanceEdges(d, inst)) : e.src = ObjectNode(x) /\ e.dst = ObjectNode(y)
    BY <1>1, <1>2, <1>7, CliquesJoin
  <2>2. <<ObjectNode(x), ObjectNode(y)>> \in Between(edges, "object")
    BY <1>4, <1>5, <2>1 DEF Between
  <2>. QED  BY <2>2 DEF Meeting
<1>. QED  BY <1>6, <1>7

ArgumentSets(rows) == {ToSet(inst.arguments) : inst \in rows}

MeetAsNeighbours(meeting, sets) ==
  /\ \A x, y : x # y => (<<ObjectNode(x), ObjectNode(y)>> \in meeting <=> Neighbours(sets, x, y))
  /\ \A q \in meeting : \E x, y : Neighbours(sets, x, y) /\ q = <<ObjectNode(x), ObjectNode(y)>>

LEMMA MeetingIs ==
  ASSUME NEW d, d.atom_expansion = "clique", d.include_reverse_edges, NEW objects, IsVector(objects),
         NEW pool, Tabled(pool), Apart(pool)
  PROVE  MeetAsNeighbours(Meeting(ToSet(DerivedEdges(d, objects, pool))), ArgumentSets(ToSet(pool)))
<1>. DEFINE edges == ToSet(DerivedEdges(d, objects, pool))
            rows == ToSet(pool)
            sets == ArgumentSets(rows)
<1>1. KindKnown(d)
  BY DEF KindKnown, Expansions
<1>2. DrawsRowsOnly(edges, rows) /\ DrawsEachRow(d, edges, rows)
  BY <1>1, DerivedEdgesAre
<1>3. \A inst \in rows : IsVector(inst.arguments)
  BY DEF Tabled
<1>. HIDE DEF edges, rows
<1>4. ASSUME NEW x, NEW y
      PROVE  Neighbours(sets, x, y) <=> \E inst \in rows : HasBoth(inst, x, y)
  <2>1. \A inst : HasBoth(inst, x, y) <=> x \in ToSet(inst.arguments) /\ y \in ToSet(inst.arguments)
    BY DEF HasBoth, ToSet
  <2>2. Neighbours(sets, x, y)
          <=> \E inst \in rows : x \in ToSet(inst.arguments) /\ y \in ToSet(inst.arguments)
    BY DEF Neighbours, ArgumentSets
  <2>. QED  BY <2>1, <2>2
<1>. HIDE DEF sets
<1>5. ASSUME NEW x, NEW y, x # y, Neighbours(sets, x, y)
      PROVE  <<ObjectNode(x), ObjectNode(y)>> \in Meeting(edges)
  <2>1. PICK inst \in rows : HasBoth(inst, x, y)
    BY <1>4, <1>5
  <2>2. ToSet(InstanceEdges(d, inst)) \subseteq edges
    BY <1>2 DEF DrawsEachRow
  <2>. QED  BY <1>3, <1>5, <2>1, <2>2, RowsMeet
<1>6. ASSUME NEW q \in Meeting(edges)
      PROVE  \E x, y : Neighbours(sets, x, y) /\ q = <<ObjectNode(x), ObjectNode(y)>>
  <2>1. \E inst \in rows : \E x, y : HasBoth(inst, x, y) /\ q = <<ObjectNode(x), ObjectNode(y)>>
    BY <1>2, MeetInRow
  <2>. QED  BY <1>4, <2>1
<1>7. ASSUME NEW x, NEW y, <<ObjectNode(x), ObjectNode(y)>> \in Meeting(edges)
      PROVE  Neighbours(sets, x, y)
  <2>1. PICK a, b : Neighbours(sets, a, b)
                    /\ <<ObjectNode(x), ObjectNode(y)>> = <<ObjectNode(a), ObjectNode(b)>>
    BY <1>6, <1>7
  <2>2. ObjectNode(x) = ObjectNode(a) /\ ObjectNode(y) = ObjectNode(b)
    BY <2>1
  <2>3. x = a /\ y = b
    BY <2>2 DEF ObjectNode
  <2>. QED  BY <2>1, <2>3
<1>. QED  BY <1>5, <1>6, <1>7 DEF MeetAsNeighbours, edges, sets, rows

-----------------------------------------------------------------------------
(***************************************************************************)
(* What the distances say, against the drawing of cliques.                 *)
(***************************************************************************)
LEMMA DistancesFollow ==
  ASSUME c.spd_max_hops \in Nat, NEW objects, IsVector(objects), Apart(objects),
         NEW sets, \A args \in sets : args \subseteq ToSet(objects),
         NEW n, n = Rounds(c.spd_max_hops),
         NEW said, \A row : row \in said <=> IsDistanceRow(objects, sets, n, row),
         NEW meeting, MeetAsNeighbours(meeting, sets)
  PROVE  DistancesAre(said, meeting, {ObjectNode(o) : o \in ToSet(objects)})
<1>. DEFINE H == c.spd_max_hops
<1>1. H \in Nat /\ n = H \div 2
  BY DEF Rounds
<1>. HIDE DEF H
<1>2. n \in Nat /\ H \in {2 * n, 2 * n + 1}
  BY <1>1
<1>3. \A x, y \in ToSet(objects) :
        DistanceSaid(said, ObjectNode(x), ObjectNode(y)) = SaidOf(sets, n, x, y)
  BY <1>2, DistancesSay
<1>4. ASSUME NEW x \in ToSet(objects), NEW y \in ToSet(objects), x # y
      PROVE  DistanceSaid(said, ObjectNode(x), ObjectNode(y))
               = Nearest(ByWayOf(said, meeting, ObjectNode(x), ObjectNode(y)))
  <2>. DEFINE o == ObjectNode(x)
              p == ObjectNode(y)
              lengths == ByWayOf(said, meeting, o, p)
  <2>1. \A l : l \in lengths <=> \E q \in meeting : /\ q[2] = p /\ q[1] # p
                                                   /\ \E k \in DistanceSaid(said, o, q[1]) : l = 2 + k
    BY DEF ByWayOf
  <2>. HIDE DEF lengths
  <2>2. ASSUME NEW l, l \in lengths
        PROVE  WayBy(sets, n, x, y, l)
    <3>1. PICK q \in meeting : /\ q[2] = p /\ q[1] # p
                              /\ \E k \in DistanceSaid(said, o, q[1]) : l = 2 + k
      BY <2>1, <2>2
    <3>2. PICK z, b : Neighbours(sets, z, b) /\ q = <<ObjectNode(z), ObjectNode(b)>>
      BY DEF MeetAsNeighbours
    <3>3. q[1] = ObjectNode(z) /\ q[2] = ObjectNode(b)
      BY <3>2
    <3>4. b = y /\ z # y
      BY <3>1, <3>3 DEF ObjectNode
    <3>5. z \in ToSet(objects)
      BY <3>2 DEF Neighbours
    <3>6. DistanceSaid(said, o, q[1]) = SaidOf(sets, n, x, z)
      BY <1>3, <3>3, <3>5
    <3>7. PICK k \in SaidOf(sets, n, x, z) : l = 2 + k
      BY <3>1, <3>6
    <3>8. RoundsTo(sets, n, x, z) # {} /\ k = 2 * Min(RoundsTo(sets, n, x, z))
      BY <3>7 DEF SaidOf
    <3>. QED  BY <3>2, <3>4, <3>7, <3>8 DEF WayBy
  <2>3. ASSUME NEW l, WayBy(sets, n, x, y, l)
        PROVE  l \in lengths
    <3>1. PICK z : /\ z # y /\ Neighbours(sets, z, y) /\ RoundsTo(sets, n, x, z) # {}
                   /\ l = 2 + 2 * Min(RoundsTo(sets, n, x, z))
      BY <2>3 DEF WayBy
    <3>. DEFINE q == <<ObjectNode(z), p>>
    <3>2. q \in meeting
      BY <3>1 DEF MeetAsNeighbours
    <3>3. q[1] = ObjectNode(z) /\ q[2] = p
      OBVIOUS
    <3>. HIDE DEF q
    <3>4. q[1] # p
      BY <3>1, <3>3 DEF ObjectNode
    <3>5. z \in ToSet(objects)
      BY <3>1 DEF Neighbours
    <3>6. 2 * Min(RoundsTo(sets, n, x, z)) \in SaidOf(sets, n, x, z)
      BY <3>1 DEF SaidOf
    <3>7. 2 * Min(RoundsTo(sets, n, x, z)) \in DistanceSaid(said, o, q[1])
      BY <1>3, <3>3, <3>5, <3>6
    <3>8. \E k \in DistanceSaid(said, o, q[1]) : l = 2 + k
      BY <3>1, <3>7
    <3>. QED  BY <2>1, <3>2, <3>3, <3>4, <3>8
  <2>4. AreWays(lengths, sets, n, x, y)
    BY <2>2, <2>3 DEF AreWays
  <2>5. SaidOf(sets, n, x, y) = Shortest(lengths, H)
    BY <1>1, <1>2, <1>4, <2>4, SaidIsNearest
  <2>6. Nearest(lengths) = Shortest(lengths, H)
    BY DEF Nearest, Shortest, H
  <2>7. DistanceSaid(said, o, p) = SaidOf(sets, n, x, y)
    BY <1>3
  <2>. QED  BY <2>5, <2>6, <2>7 DEF lengths
<1>. QED  BY <1>4 DEF DistancesAre

-----------------------------------------------------------------------------
(***************************************************************************)
(* A drawing has each row, and its distances are those between the rows.   *)
(***************************************************************************)
\* What the constructor and the types of the code say of the configuration.
DrawsWell ==
  /\ KindKnown(c) /\ c.spd_max_hops \in Nat /\ (c.include_line_graph => Reified(c))
  /\ {"atom_expansion", "include_reverse_edges"} \subseteq DOMAIN c

LEMMA CliquesAre ==
  ASSUME DrawsWell
  PROVE  WithCliques.atom_expansion = "clique" /\ WithCliques.include_reverse_edges
BY DEF DrawsWell, WithCliques

LEMMA RowIsInGraph ==
  ASSUME DrawsWell, NEW rows, NEW edges, DrawsEachRow(c, edges, rows),
         NEW inst \in rows, IsVector(inst.arguments),
         NEW nodes, HasNode(c, inst) => InstanceNode(inst) \in nodes,
         HasAnchorNode(c) => AnchorNode \in nodes
  PROVE  RowInGraph(inst, edges, nodes)
<1>1. KindKnown(c)
  BY DEF DrawsWell
<1>2. PlainlyDraw(ToSet(InstanceEdges(c, inst)), inst)
  BY <1>1, InstanceEdgesDraw
<1>3. /\ ToSet(InstanceEdges(c, inst)) \subseteq edges
      /\ Waiting(c, inst) => ToSet(Loop(AnchorNode, "nullary", inst)) \subseteq edges
  BY DEF DrawsEachRow
<1>4. NodeOfInstance(c, inst) \in nodes \cup {NoNode}
  BY DEF NodeOfInstance, HasNode, HasAnchorNode
<1>5. ASSUME inst.arguments = <<>>, inst.role # "action"
      PROVE  \E e \in edges : DrawsRow(e, inst)
  <2>1. CASE HasNode(c, inst)
    <3>1. InstanceEdges(c, inst) = Loop(InstanceNode(inst), "nullary", inst)
      BY <1>5, <2>1 DEF InstanceEdges, HasNode
    <3>2. EndOf(inst, InstanceNode(inst), 1)
      BY DEF EndOf
    <3>3. \E e \in ToSet(InstanceEdges(c, inst)) : e.src = InstanceNode(inst)
      BY <3>1, <3>2, LoopDraws
    <3>. QED  BY <1>2, <1>3, <3>3 DEF PlainlyDraw
  <2>2. CASE ~HasNode(c, inst)
    <3>1. EndOf(inst, AnchorNode, 1)
      BY <1>5 DEF EndOf
    <3>2. /\ PlainlyDraw(ToSet(Loop(AnchorNode, "nullary", inst)), inst)
          /\ \E e \in ToSet(Loop(AnchorNode, "nullary", inst)) : e.src = AnchorNode
      BY <3>1, LoopDraws
    <3>3. ToSet(Loop(AnchorNode, "nullary", inst)) \subseteq edges
      BY <1>3, <1>5, <2>2 DEF Waiting
    <3>. QED  BY <3>2, <3>3 DEF PlainlyDraw
  <2>. QED  BY <2>1, <2>2
<1>6. ASSUME NEW k \in DOMAIN inst.arguments
      PROVE  \E e \in edges :
               /\ ~IsShortcut(e) /\ DrawsRow(e, inst)
               /\ <<ObjectNode(inst.arguments[k]), k>> \in
                    {<<e.src, e.positions[1]>>, <<e.dst, e.positions[2]>>}
  <2>1. PICK e \in ToSet(InstanceEdges(c, inst)) : Touches(e, inst, k)
    BY <1>1, InstanceEdgesTouch
  <2>. QED  BY <1>2, <1>3, <2>1 DEF PlainlyDraw, Touches
<1>. QED  BY <1>4, <1>5, <1>6 DEF RowInGraph

LEMMA TableDistances ==
  ASSUME DrawsWell, NEW objects, IsVector(objects), Apart(objects),
         NEW instances, IsVector(instances), NEW pool, Tabled(pool), Apart(pool),
         ToSet(pool) = ToSet(instances),
         \A inst \in ToSet(instances) : ToSet(inst.arguments) \subseteq ToSet(objects)
  PROVE  DistancesAre(ToSet(Distances(c, objects, instances)),
                      Meeting(ToSet(DerivedEdges(WithCliques, objects, pool))),
                      {ObjectNode(o) : o \in ToSet(objects)})
<1>. DEFINE sets == ArgumentSets(ToSet(instances))
            n == Rounds(c.spd_max_hops)
            said == ToSet(Distances(c, objects, instances))
            meeting == Meeting(ToSet(DerivedEdges(WithCliques, objects, pool)))
<1>1. MeetAsNeighbours(meeting, sets)
  <2>1. MeetAsNeighbours(meeting, ArgumentSets(ToSet(pool)))
    BY CliquesAre, MeetingIs
  <2>. QED  BY <2>1
<1>2. Distances(c, objects, instances) = DistancesAlong(objects, ReachedFrom(objects, sets, n))
  BY DEF Distances, ArgumentSets
<1>3. c.spd_max_hops \in Nat
  BY DEF DrawsWell
<1>4. n \in Nat
  BY <1>3 DEF Rounds
<1>. HIDE DEF n, meeting
<1>5. \A args \in sets : args \subseteq ToSet(objects)
  BY DEF ArgumentSets
<1>. HIDE DEF sets
<1>6. \A row : row \in said <=> IsDistanceRow(objects, sets, n, row)
  BY <1>2, <1>4, DistanceRowsAre
<1>. HIDE DEF said
<1>7. DistancesAre(said, meeting, {ObjectNode(o) : o \in ToSet(objects)})
  BY <1>1, <1>3, <1>5, <1>6, DistancesFollow DEF n
<1>. QED  BY <1>7 DEF said, meeting

LEMMA TableIsDrawn ==
  ASSUME DrawsWell, NEW lanes, LanesDrawable(lanes)
  PROVE  DrawsItsTable(DerivedEncode(c, lanes))
<1>. DEFINE objects == Ordered(lanes.objects)
            instances == Instances(lanes)
            pool == PoolOf(instances)
            drawn == Drawn(c, pool)
            graph == DerivedEncode(c, lanes)
            nodes == DerivedNodes(c, objects, drawn)
            edges == DerivedEdges(c, objects, pool)
            R == ToSet(instances)
<1>1. /\ graph.objects = objects /\ graph.nodes = nodes /\ graph.edges = edges
      /\ graph.instances = instances
      /\ c.include_spd => graph.distances = Distances(c, objects, instances)
  BY DEF DerivedEncode, DerivedEncodeOf, DerivedGraphOf
<1>2. /\ IsVector(objects) /\ ToSet(objects) = lanes.objects /\ Apart(objects)
  BY OrderedVector DEF LanesDrawable, Apart
<1>3. InstanceTable(lanes.objects, instances)
  BY InstancesAre
<1>4. DrawingFits(c, graph)
  BY EncodedDrawing DEF DrawsWell
<1>. HIDE DEF objects, instances, graph
<1>5. /\ IsVector(instances)
      /\ \A inst \in R : IsVector(inst.arguments) /\ ToSet(inst.arguments) \subseteq ToSet(objects)
  BY <1>2, <1>3 DEF InstanceTable, ArgumentsKnown
<1>6. /\ IsVector(pool) /\ ToSet(pool) = R /\ Apart(pool)
  BY <1>5, PoolVector, PoolApart
<1>7. Tabled(pool)
  BY <1>5, <1>6 DEF Tabled
<1>. HIDE DEF pool
<1>8. IsVector(drawn) /\ Apart(drawn) /\ ToSet(drawn) = {x \in R : HasNode(c, x)}
  <2>. DEFINE places == {k \in DOMAIN pool : HasNode(c, pool[k])}
  <2>1. drawn = Chosen(pool, places) /\ places \in SUBSET DOMAIN pool
    BY DEF Drawn
  <2>2. \A p, q \in places : pool[p] = pool[q] => p = q
    BY <1>6 DEF Apart
  <2>3. IsVector(drawn) /\ ToSet(drawn) = {x \in R : HasNode(c, x)}
    BY <1>6, DrawnRowsAre
  <2>. HIDE DEF places, drawn
  <2>4. Apart(Chosen(pool, places))
    BY <1>6, <2>1, <2>2, ChosenApart
  <2>. QED  BY <2>1, <2>3, <2>4
<1>. HIDE DEF drawn
<1>9. IsInjective(nodes)
  BY <1>2, <1>8, NodesDrawnOnce
<1>10. ToSet(nodes) = DerivedNodeSet(c, ToSet(objects), ToSet(drawn))
  BY <1>2, <1>8, NodeSetIs
<1>. HIDE DEF nodes
<1>11. \A inst \in R : HasNode(c, inst) => InstanceNode(inst) \in ToSet(nodes)
  BY <1>8, <1>10 DEF DerivedNodeSet
<1>12. HasAnchorNode(c) => AnchorNode \in ToSet(nodes)
  BY <1>10 DEF DerivedNodeSet
<1>13. KindKnown(c)
  BY DEF DrawsWell
<1>14. DrawsRowsOnly(ToSet(edges), R) /\ DrawsEachRow(c, ToSet(edges), R)
  BY <1>2, <1>6, <1>7, <1>13, DerivedEdgesAre
<1>15. \A e \in ToSet(edges) : {e.src, e.dst} \subseteq ToSet(nodes)
  BY <1>1, <1>4 DEF DrawingFits, EndsFit
<1>. HIDE DEF edges, R
<1>16. ASSUME NEW inst \in R
       PROVE  RowInGraph(inst, ToSet(edges), ToSet(nodes))
  BY <1>5, <1>11, <1>12, <1>14, RowIsInGraph
<1>17. c.include_spd =>
         DistancesAre(ToSet(graph.distances),
                      Meeting(ToSet(DerivedEdges(WithCliques, graph.objects, PoolOf(graph.instances)))),
                      {ObjectNode(o) : o \in ToSet(graph.objects)})
  BY <1>1, <1>2, <1>5, <1>6, <1>7, TableDistances DEF pool, R
<1>18. \A e \in ToSet(graph.edges) :
         {e.src, e.dst} \subseteq ToSet(graph.nodes) /\ EdgeOfTable(e, ToSet(graph.instances))
  BY <1>1, <1>14, <1>15 DEF DrawsRowsOnly, R
<1>19. \A inst \in ToSet(graph.instances) :
         RowInGraph(inst, ToSet(graph.edges), ToSet(graph.nodes))
  BY <1>1, <1>16 DEF R
<1>20. IsInjective(graph.nodes)
  BY <1>1, <1>9
<1>21. DrawsItsTable(graph)
  BY ONLY <1>17, <1>18, <1>19, <1>20 DEF DrawsItsTable, DrawsTable
<1>. QED  BY <1>21 DEF graph

\* What a planner may have is drawn, once its facts and goals are of its objects.
LEMMA PlannedDrawable ==
  ASSUME NEW in, PlannedInput(in), ~DerivedRefused(OwnedOccurrences(in))
  PROVE  LanesDrawable(OwnedOccurrences(in))
<1>. DEFINE lanes == OwnedOccurrences(in)
            recent == OrderedHistory(in.history, in.max_steps)
<1>1. /\ IsOwnedInput(in) /\ in.objects = Start.objects
      /\ IsPast(in.history) /\ AreOffered(in.actions)
  BY DEF PlannedInput
<1>2. /\ lanes.objects = in.objects /\ lanes.actions = in.actions
      /\ lanes.history = in.history
  BY DEF OwnedOccurrences, OwnedLanes
<1>. HIDE DEF lanes
<1>3. \A action \in ToSet(lanes.actions) : ToSet(action.arguments) \subseteq lanes.objects
  BY <1>1, <1>2 DEF AreOffered
<1>4. \A entry \in ToSet(lanes.history) : \A literal \in ToSet(entry.literals) :
        ToSet(literal.atom.arguments) \subseteq lanes.objects
  BY <1>1, <1>2, GroundAtomsAre DEF IsPast
<1>5. Draws(lanes)
  BY <1>3, <1>4 DEF Draws, Grounded, lanes
<1>. QED  BY <1>1, <1>5, OccurrencesDrawable DEF lanes

DrawingConfig == caller = "encoding" => c \in Drawable(EncodingConfigs)

LEMMA DrawingConfigInit == Init => DrawingConfig
<1>1. ASSUME Init, caller = "encoding"
      PROVE  c \in Drawable(EncodingConfigs)
  <2>1. PICK session \in Sessions : caller = session[1] /\ c = session[2]
    BY <1>1 DEF Init
  <2>2. session[1] = "encoding"
    BY <1>1, <2>1
  <2>3. PICK config \in Drawable(EncodingConfigs) : session = <<"encoding", config>>
    BY <2>2 DEF Sessions
  <2>. QED  BY <2>1, <2>3
<1>. QED  BY <1>1 DEF DrawingConfig

LEMMA EncodersDrawWell ==
  ASSUME DrawingConfig, caller = "encoding"
  PROVE  DrawsWell
<1>1. c \in EncodingConfigs /\ DerivedConfigAccepted(c)
  BY DEF DrawingConfig, Drawable
<1>2. /\ {"atom_expansion", "include_reverse_edges"} \subseteq DOMAIN c
      /\ c.atom_expansion \in Expansions /\ c.spd_max_hops \in Nat
  BY <1>1, EncodersMade
<1>. QED  BY <1>1, <1>2 DEF DrawsWell, KindKnown, DerivedConfigAccepted

\* Whatever planners do and callers ask for, a graph draws the table of what the
\* state says and nothing else: no node twice, every edge of a row or between two
\* literals that share an argument, every row and argument in the graph, and as
\* distances those of the shortest ways over rows, as far as spd_max_hops lets them
\* be asked for (emit_spd_fields and the edges that encode_impl emits).
THEOREM DerivedGraphAlwaysDrawsTheTable == Spec => []DerivedGraphDrawsTheTable
<1>. DEFINE Inv == PlannedInput(root) /\ DrawingConfig
<1>1. Init => Inv
  BY StartPlanned, DrawingConfigInit DEF Init
<1>2. Inv /\ [Next]_vars => Inv'
  <2>. SUFFICES ASSUME PlannedInput(root), DrawingConfig, [Next]_vars
                PROVE  Inv'
    OBVIOUS
  <2>1. PlannedInput(root')
    BY PlannedNext
  <2>2. DrawingConfig'
    BY SameEncoder DEF DrawingConfig
  <2>. QED  BY <2>1, <2>2 DEF PlannedInput
<1>3. Inv => DerivedGraphDrawsTheTable
  <2>. SUFFICES ASSUME PlannedInput(root), DrawingConfig, caller = "encoding",
                       ~DerivedRefused(OwnedOccurrences(root))
                PROVE  DrawsItsTable(DerivedEncode(c, OwnedOccurrences(root)))
    BY DEF DerivedGraphDrawsTheTable
  <2>1. DrawsWell
    BY EncodersDrawWell
  <2>2. LanesDrawable(OwnedOccurrences(root))
    BY PlannedDrawable
  <2>. QED  BY <2>1, <2>2, TableIsDrawn
<1>. HIDE DEF Inv
<1>. QED  BY <1>1, <1>2, <1>3, PTL DEF Spec
=============================================================================
