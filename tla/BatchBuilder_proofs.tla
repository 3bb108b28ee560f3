------------------------ MODULE BatchBuilder_proofs ------------------------
(***************************************************************************)
(* A batch builder, for any node and edge types, any graph fields, callers *)
(* and single-graph encodings: boundaries and edges first, graph fields    *)
(* behind them.                                                            *)
(*                                                                         *)
(* Each way of extending a batch is one lemma about layouts; the actions   *)
(* of the builder are compositions of them.                                *)
(***************************************************************************)
EXTENDS BatchBuilderProperties, IdOrder_proofs

LayoutType(b) ==
  /\ b.ptrs \in [NodeTypes -> Seq(Nat)]
  /\ b.offsets \in [NodeTypes -> Nat]
  /\ b.counts \in [NodeTypes -> Nat]
  /\ b.keys \subseteq NodeTypes
  /\ b.edge_index \in [EdgeTypes -> Seq(Edge)]
  /\ b.num_graphs \in Nat

\* Nodes of the open graph are counted under a key, which commits them.
CountsHaveKeys(b) == \A t \in NodeTypes : t \notin b.keys => b.counts[t] = 0

Good(b) ==
  /\ LayoutType(b)
  /\ CountsHaveKeys(b)
  /\ WellBounded(b)
  /\ Spanned(b)
  /\ EdgesWithinGraphs(b)

-----------------------------------------------------------------------------
(* Left padding.                                                           *)

LEMMA PaddedEntries ==
  ASSUME NEW ptr \in Seq(Nat), ptr # <<>>, NEW m \in Nat, Len(ptr) =< m
  PROVE  /\ LeftPadded(ptr, m) \in Seq(Nat)
         /\ LeftPadded(ptr, m) # <<>>
         /\ Len(LeftPadded(ptr, m)) = m
         /\ Last(LeftPadded(ptr, m)) = Last(ptr)
         /\ \A i \in 1..m : LeftPadded(ptr, m)[i] =
              IF i =< m - Len(ptr) THEN ptr[1] ELSE ptr[i - (m - Len(ptr))]
<1>1. Len(ptr) \in Nat /\ Len(ptr) >= 1
  BY EmptySeq, LenProperties
<1>2. LeftPadded(ptr, m) =
        [i \in 1..m |-> IF i =< m - Len(ptr) THEN ptr[1] ELSE ptr[i - (m - Len(ptr))]]
  BY DEF LeftPadded
<1>3. \A i \in 1..m :
        (IF i =< m - Len(ptr) THEN ptr[1] ELSE ptr[i - (m - Len(ptr))]) \in Nat
  BY <1>1
<1>4. LeftPadded(ptr, m) \in Seq(Nat) /\ Len(LeftPadded(ptr, m)) = m
  BY <1>2, <1>3, IsASeq
<1>5. LeftPadded(ptr, m) # <<>>
  BY <1>1, <1>4, EmptySeq
<1>6. \A i \in 1..m : LeftPadded(ptr, m)[i] =
        IF i =< m - Len(ptr) THEN ptr[1] ELSE ptr[i - (m - Len(ptr))]
  BY <1>2
<1>7. LeftPadded(ptr, m)[m] = ptr[Len(ptr)]
  <2>1. m \in 1..m /\ ~(m =< m - Len(ptr)) /\ m - (m - Len(ptr)) = Len(ptr)
    BY <1>1
  <2>. QED  BY <1>6, <2>1
<1>8. Last(LeftPadded(ptr, m)) = Last(ptr)
  BY <1>4, <1>7 DEF Last
<1>. QED  BY <1>4, <1>5, <1>6, <1>8

\* Padding keeps a boundary vector rising from 0.
LEMMA PaddedBoundary ==
  ASSUME NEW ptr \in Seq(Nat), ptr # <<>>, IsBoundary(ptr), NEW m \in Nat, Len(ptr) =< m
  PROVE  IsBoundary(LeftPadded(ptr, m))
<1>. DEFINE padded == LeftPadded(ptr, m)
<1>1. Len(ptr) \in Nat /\ Len(ptr) >= 1
  BY EmptySeq, LenProperties
<1>3. /\ padded \in Seq(Nat) /\ Len(padded) = m
      /\ \A i \in 1..m : padded[i] =
           IF i =< m - Len(ptr) THEN ptr[1] ELSE ptr[i - (m - Len(ptr))]
  BY PaddedEntries
<1>. HIDE DEF padded
<1>4. padded[1] = 0
  <2>1. ptr[1] = 0
    BY DEF IsBoundary
  <2>2. 1 \in 1..m /\ (1 =< m - Len(ptr) \/ 1 - (m - Len(ptr)) = 1)
    BY <1>1
  <2>. QED  BY <1>3, <2>1, <2>2
<1>5. ASSUME NEW i \in 1..(Len(padded) - 1)
      PROVE  padded[i] <= padded[i + 1]
  <2>1. i \in 1..m /\ i + 1 \in 1..m
    BY <1>1, <1>3
  <2>2. padded[i + 1] \in Nat
    BY <1>3, <2>1
  <2>3. CASE i + 1 =< m - Len(ptr)
    <3>1. i =< m - Len(ptr)
      BY <1>1, <2>1, <2>3
    <3>2. padded[i] = ptr[1] /\ padded[i + 1] = ptr[1]
      BY <1>3, <2>1, <2>3, <3>1
    <3>. QED  BY <2>2, <3>2
  <2>4. CASE i = m - Len(ptr)
    <3>1. padded[i] = ptr[1] /\ ptr[1] = 0
      BY <1>1, <1>3, <2>1, <2>4 DEF IsBoundary
    <3>. QED  BY <2>2, <3>1
  <2>5. CASE i > m - Len(ptr)
    <3>0. i \in 1..(m - 1)
      BY <1>3
    <3>1. PICK j \in 1..(Len(ptr) - 1) :
                  i - (m - Len(ptr)) = j /\ (i + 1) - (m - Len(ptr)) = j + 1
      <4>1. i - (m - Len(ptr)) \in 1..(Len(ptr) - 1)
        BY <1>1, <2>5, <3>0
      <4>2. (i + 1) - (m - Len(ptr)) = (i - (m - Len(ptr))) + 1
        BY <1>1, <3>0
      <4>. QED  BY <4>1, <4>2
    <3>2. ~(i =< m - Len(ptr)) /\ ~(i + 1 =< m - Len(ptr))
      BY <1>1, <2>1, <2>5
    <3>3. padded[i] = ptr[j] /\ padded[i + 1] = ptr[j + 1]
      BY <1>3, <2>1, <3>1, <3>2
    <3>4. ptr[j] <= ptr[j + 1]
      BY <1>1, <3>1 DEF IsBoundary
    <3>. QED  BY <3>3, <3>4
  <2>6. i + 1 =< m - Len(ptr) \/ i = m - Len(ptr) \/ i > m - Len(ptr)
    <3>1. m \in Nat /\ Len(ptr) \in Nat /\ i \in Nat
      BY <1>1, <2>1
    <3>. QED  BY <3>1
  <2>. QED  BY <2>3, <2>4, <2>5, <2>6
<1>. QED  BY <1>4, <1>5 DEF IsBoundary, padded

\* Padding to one graph more after appending a boundary leaves every earlier
\* boundary where it was.
LEMMA PaddedAppend ==
  ASSUME NEW ptr \in Seq(Nat), ptr # <<>>, NEW m \in Nat, Len(ptr) =< m, NEW x \in Nat
  PROVE  /\ \A k \in 1..m : LeftPadded(Append(ptr, x), m + 1)[k] = LeftPadded(ptr, m)[k]
         /\ LeftPadded(Append(ptr, x), m + 1)[m + 1] = x
<1>. DEFINE longer == Append(ptr, x)
<1>1. Len(ptr) \in Nat /\ Len(ptr) >= 1
  BY EmptySeq, LenProperties
<1>2. /\ longer \in Seq(Nat) /\ longer # <<>> /\ Len(longer) = Len(ptr) + 1
      /\ \A i \in 1..Len(ptr) : longer[i] = ptr[i]
      /\ longer[Len(ptr) + 1] = x
  BY AppendProperties
<1>. HIDE DEF longer
<1>3. \A k \in 1..(m + 1) : LeftPadded(longer, m + 1)[k] =
        IF k =< m - Len(ptr) THEN longer[1] ELSE longer[k - (m - Len(ptr))]
  <2>1. (m + 1) - Len(longer) = m - Len(ptr) /\ m + 1 \in Nat /\ Len(longer) =< m + 1
    BY <1>1, <1>2
  <2>2. \A k \in 1..(m + 1) : LeftPadded(longer, m + 1)[k] =
          IF k =< (m + 1) - Len(longer) THEN longer[1] ELSE longer[k - ((m + 1) - Len(longer))]
    BY <1>2, <2>1, PaddedEntries
  <2>. QED  BY <2>1, <2>2
<1>4. \A k \in 1..m : LeftPadded(ptr, m)[k] =
        IF k =< m - Len(ptr) THEN ptr[1] ELSE ptr[k - (m - Len(ptr))]
  BY PaddedEntries
<1>5. ASSUME NEW k \in 1..m
      PROVE  LeftPadded(longer, m + 1)[k] = LeftPadded(ptr, m)[k]
  <2>1. LeftPadded(longer, m + 1)[k] =
          IF k =< m - Len(ptr) THEN longer[1] ELSE longer[k - (m - Len(ptr))]
    BY <1>3
  <2>2. CASE k =< m - Len(ptr)
    <3>1. longer[1] = ptr[1]
      BY <1>1, <1>2
    <3>. QED  BY <1>4, <2>1, <2>2, <3>1
  <2>3. CASE ~(k =< m - Len(ptr))
    <3>1. k - (m - Len(ptr)) \in 1..Len(ptr)
      BY <1>1, <2>3
    <3>. QED  BY <1>2, <1>4, <2>1, <2>3, <3>1
  <2>. QED  BY <2>2, <2>3
<1>6. LeftPadded(longer, m + 1)[m + 1] = x
  <2>1. m + 1 \in 1..(m + 1) /\ ~(m + 1 =< m - Len(ptr)) /\ (m + 1) - (m - Len(ptr)) = Len(ptr) + 1
    BY <1>1
  <2>2. LeftPadded(longer, m + 1)[m + 1] = longer[(m + 1) - (m - Len(ptr))]
    BY <1>3, <2>1
  <2>3. longer[(m + 1) - (m - Len(ptr))] = longer[Len(ptr) + 1]
    BY <2>1
  <2>. QED  BY <1>2, <2>2, <2>3
<1>. QED  BY <1>5, <1>6 DEF longer

-----------------------------------------------------------------------------
(* Where graphs start.                                                     *)

LEMMA StartFacts ==
  ASSUME NEW b, LayoutType(b), WellBounded(b), NEW t \in NodeTypes
  PROVE  /\ \A k \in 1..(b.num_graphs + 2) : Start(b, t, k) \in Nat
         /\ Start(b, t, b.num_graphs + 1) = b.offsets[t]
         /\ Start(b, t, b.num_graphs + 2) = b.offsets[t] + b.counts[t]
<1>. DEFINE n == b.num_graphs
<1>1. n \in Nat /\ b.ptrs[t] \in Seq(Nat) /\ b.offsets[t] \in Nat /\ b.counts[t] \in Nat
  BY DEF LayoutType
<1>2. CASE b.ptrs[t] = <<>>
  <2>1. b.offsets[t] = 0
    BY <1>2 DEF WellBounded
  <2>. QED  BY <1>1, <1>2, <2>1 DEF Start
<1>3. CASE b.ptrs[t] # <<>>
  <2>1. Len(b.ptrs[t]) =< n + 1 /\ Last(b.ptrs[t]) = b.offsets[t]
    BY <1>1, <1>3 DEF WellBounded
  <2>2. /\ LeftPadded(b.ptrs[t], n + 1) \in Seq(Nat)
        /\ Len(LeftPadded(b.ptrs[t], n + 1)) = n + 1
        /\ Last(LeftPadded(b.ptrs[t], n + 1)) = b.offsets[t]
    <3>. DEFINE ptr == b.ptrs[t]  m == n + 1
    <3>1. ptr \in Seq(Nat) /\ ptr # <<>> /\ m \in Nat /\ Len(ptr) =< m
      BY <1>1, <1>3, <2>1
    <3>. HIDE DEF ptr, m
    <3>2. /\ LeftPadded(ptr, m) \in Seq(Nat)
          /\ Len(LeftPadded(ptr, m)) = m
          /\ Last(LeftPadded(ptr, m)) = Last(ptr)
      BY <3>1, PaddedEntries
    <3>. QED  BY <2>1, <3>2 DEF ptr, m
  <2>3. \A k \in 1..(n + 1) : LeftPadded(b.ptrs[t], n + 1)[k] \in Nat
    BY <1>1, <2>2
  <2>4. LeftPadded(b.ptrs[t], n + 1)[n + 1] = b.offsets[t]
    BY <2>2 DEF Last
  <2>5. \A k \in 1..(n + 1) : Start(b, t, k) = LeftPadded(b.ptrs[t], n + 1)[k]
    BY <1>1, <1>3 DEF Start
  <2>6. Start(b, t, n + 2) = b.offsets[t] + b.counts[t]
    BY DEF Start
  <2>7. ASSUME NEW k \in 1..(n + 2)
        PROVE  Start(b, t, k) \in Nat
    <3>1. CASE k = n + 2
      BY <1>1, <2>6, <3>1
    <3>2. CASE k # n + 2
      <4>1. k \in 1..(n + 1)
        BY <1>1, <3>2
      <4>. QED  BY <2>3, <2>5, <4>1
    <3>. QED  BY <3>1, <3>2
  <2>8. n + 1 \in 1..(n + 1)
    BY <1>1
  <2>9. Start(b, t, n + 1) = b.offsets[t]
    BY <2>4, <2>5, <2>8
  <2>. QED  BY <2>6, <2>7, <2>9
<1>. QED  BY <1>2, <1>3

-----------------------------------------------------------------------------
(* The ways of extending a batch.                                          *)

\* add_nodes, and the counts of a merged encoding: the open graph grows, at
\* its end.
LEMMA GrownGood ==
  ASSUME NEW b, Good(b), NEW d, LayoutType(d), CountsHaveKeys(d),
         d.ptrs = b.ptrs, d.offsets = b.offsets, b.keys \subseteq d.keys,
         d.edge_index = b.edge_index, d.num_graphs = b.num_graphs,
         \A t \in NodeTypes : b.counts[t] =< d.counts[t]
  PROVE  Good(d)
<1>. DEFINE n == b.num_graphs
<1>1. n \in Nat /\ WellBounded(b) /\ LayoutType(b) /\ Spanned(b) /\ EdgesWithinGraphs(b)
  BY DEF Good, LayoutType
<1>2. WellBounded(d) /\ Spanned(d)
  BY <1>1 DEF WellBounded, Spanned
<1>3. ASSUME NEW t \in NodeTypes, NEW k \in 1..(n + 1), NEW v \in Nat, InGraph(b, t, k, v)
      PROVE  InGraph(d, t, k, v)
  <2>1. \A j \in 1..(n + 1) : Start(d, t, j) = Start(b, t, j)
    BY <1>1 DEF Start
  <2>2. /\ Start(b, t, n + 2) = b.offsets[t] + b.counts[t]
        /\ Start(d, t, n + 2) = b.offsets[t] + d.counts[t]
    BY <1>1 DEF Start
  <2>3. b.offsets[t] \in Nat /\ b.counts[t] \in Nat /\ d.counts[t] \in Nat
          /\ b.counts[t] =< d.counts[t]
    BY <1>1 DEF LayoutType
  <2>4. Start(b, t, k) =< v /\ v < Start(b, t, k + 1)
    BY <1>3 DEF InGraph
  <2>5. CASE k = n + 1
    <3>1. k + 1 = n + 2
      BY <1>1, <2>5
    <3>2. v < Start(d, t, k + 1)
      BY <2>2, <2>3, <2>4, <3>1
    <3>. QED  BY <2>1, <2>4, <3>2 DEF InGraph
  <2>6. CASE k # n + 1
    <3>1. k + 1 \in 1..(n + 1)
      BY <1>1, <2>6
    <3>. QED  BY <2>1, <2>4, <3>1 DEF InGraph
  <2>. QED  BY <2>5, <2>6
<1>4. ASSUME NEW r \in EdgeTypes, NEW i \in DOMAIN d.edge_index[r]
      PROVE  \E k \in 1..(d.num_graphs + 1) :
               /\ InGraph(d, SrcOf[r], k, d.edge_index[r][i][1])
               /\ InGraph(d, DstOf[r], k, d.edge_index[r][i][2])
  <2>1. PICK k \in 1..(n + 1) : /\ InGraph(b, SrcOf[r], k, b.edge_index[r][i][1])
                                /\ InGraph(b, DstOf[r], k, b.edge_index[r][i][2])
    BY <1>1, <1>4 DEF EdgesWithinGraphs
  <2>2. b.edge_index[r][i] \in Edge
    BY <1>1, <1>4 DEF LayoutType
  <2>3. b.edge_index[r][i][1] \in Nat /\ b.edge_index[r][i][2] \in Nat
    BY <2>2 DEF Edge
  <2>4. SrcOf[r] \in NodeTypes /\ DstOf[r] \in NodeTypes
    BY EdgeEnds
  <2>. QED  BY <1>3, <2>1, <2>3, <2>4
<1>5. EdgesWithinGraphs(d)
  BY <1>4 DEF EdgesWithinGraphs
<1>. QED  BY <1>2, <1>5 DEF Good

\* add_edge, and the edges of a merged encoding: new edges join nodes of the
\* open graph.
LEMMA EdgesAddedGood ==
  ASSUME NEW b, Good(b), NEW d, LayoutType(d),
         d.ptrs = b.ptrs, d.offsets = b.offsets, d.counts = b.counts, d.keys = b.keys,
         d.num_graphs = b.num_graphs,
         \A r \in EdgeTypes : \A i \in DOMAIN d.edge_index[r] :
           \/ i \in DOMAIN b.edge_index[r] /\ d.edge_index[r][i] = b.edge_index[r][i]
           \/ /\ InGraph(b, SrcOf[r], b.num_graphs + 1, d.edge_index[r][i][1])
              /\ InGraph(b, DstOf[r], b.num_graphs + 1, d.edge_index[r][i][2])
  PROVE  Good(d)
<1>1. b.num_graphs \in Nat /\ EdgesWithinGraphs(b)
  BY DEF Good, LayoutType
<1>2. WellBounded(d) /\ Spanned(d) /\ CountsHaveKeys(d)
  BY DEF Good, WellBounded, Spanned, CountsHaveKeys
<1>3. ASSUME NEW t, NEW k, NEW v
      PROVE  InGraph(d, t, k, v) <=> InGraph(b, t, k, v)
  BY DEF InGraph, Start
<1>4. ASSUME NEW r \in EdgeTypes, NEW i \in DOMAIN d.edge_index[r]
      PROVE  \E k \in 1..(d.num_graphs + 1) :
               /\ InGraph(d, SrcOf[r], k, d.edge_index[r][i][1])
               /\ InGraph(d, DstOf[r], k, d.edge_index[r][i][2])
  <2>1. CASE i \in DOMAIN b.edge_index[r] /\ d.edge_index[r][i] = b.edge_index[r][i]
    <3>1. PICK k \in 1..(b.num_graphs + 1) :
                 /\ InGraph(b, SrcOf[r], k, b.edge_index[r][i][1])
                 /\ InGraph(b, DstOf[r], k, b.edge_index[r][i][2])
      BY <1>1, <2>1 DEF EdgesWithinGraphs
    <3>. QED  BY <1>3, <2>1, <3>1
  <2>2. CASE /\ InGraph(b, SrcOf[r], b.num_graphs + 1, d.edge_index[r][i][1])
             /\ InGraph(b, DstOf[r], b.num_graphs + 1, d.edge_index[r][i][2])
    <3>1. b.num_graphs + 1 \in 1..(d.num_graphs + 1)
      BY <1>1
    <3>. QED  BY <1>3, <2>2, <3>1
  <2>. QED  BY <2>1, <2>2
<1>5. EdgesWithinGraphs(d)
  BY <1>4 DEF EdgesWithinGraphs
<1>. QED  BY <1>2, <1>5 DEF Good

\* One boundary more, for the type that the open graph is committed with.
LEMMA BoundaryAdded ==
  ASSUME NEW ptr \in Seq(Nat), ptr # <<>> => IsBoundary(ptr),
         NEW x \in Nat, ptr # <<>> => Last(ptr) =< x,
         NEW longer, longer = Append(Opened(ptr), x)
  PROVE  /\ longer \in Seq(Nat) /\ longer # <<>>
         /\ IsBoundary(longer) /\ Last(longer) = x
         /\ Len(longer) = (IF ptr = <<>> THEN 2 ELSE Len(ptr) + 1)
<1>. DEFINE start == Opened(ptr)
<1>1. /\ start \in Seq(Nat) /\ Len(start) \in Nat /\ Len(start) >= 1
      /\ start[1] = 0 /\ Last(start) =< x
      /\ Len(start) = (IF ptr = <<>> THEN 1 ELSE Len(ptr))
      /\ \A i \in 1..(Len(start) - 1) : start[i] <= start[i + 1]
  <2>1. CASE ptr = <<>>
    <3>1. start = <<0>>
      BY <2>1 DEF Opened
    <3>. HIDE DEF start
    <3>2. Len(start) = 1 /\ start[1] = 0 /\ start \in Seq(Nat)
      BY <3>1
    <3>. QED  BY <2>1, <3>2 DEF Last
  <2>2. CASE ptr # <<>>
    <3>1. start = ptr
      BY <2>2 DEF Opened
    <3>2. Len(ptr) \in Nat /\ Len(ptr) >= 1
      BY <2>2, EmptySeq, LenProperties
    <3>. QED  BY <2>2, <3>1, <3>2 DEF IsBoundary
  <2>. QED  BY <2>1, <2>2
<1>. HIDE DEF start
<1>2. /\ longer \in Seq(Nat) /\ longer # <<>> /\ Len(longer) = Len(start) + 1
      /\ \A i \in 1..Len(start) : longer[i] = start[i]
      /\ longer[Len(start) + 1] = x
  <2>1. start \in Seq(Nat) /\ longer = Append(start, x)
    BY <1>1 DEF start
  <2>. QED  BY <2>1, AppendProperties, SMTT(30)
<1>3. Last(longer) = x
  BY <1>2 DEF Last
<1>4. ASSUME NEW i \in 1..(Len(longer) - 1)
      PROVE  longer[i] <= longer[i + 1]
  <2>1. i \in 1..Len(start) /\ longer[i] = start[i]
    BY <1>1, <1>2
  <2>2. CASE i = Len(start)
    BY <1>1, <1>2, <2>1, <2>2 DEF Last
  <2>3. CASE i # Len(start)
    <3>1. i \in 1..(Len(start) - 1) /\ i + 1 \in 1..Len(start)
      BY <1>1, <2>1, <2>3
    <3>. QED  BY <1>1, <1>2, <2>1, <3>1
  <2>. QED  BY <2>2, <2>3
<1>5. longer[1] = 0
  BY <1>1, <1>2
<1>6. IsBoundary(longer)
  BY <1>4, <1>5 DEF IsBoundary
<1>. QED  BY <1>1, <1>2, <1>3, <1>6

Committed(b) ==
  [ptrs |-> [t \in NodeTypes |->
     IF t \in b.keys THEN Append(Opened(b.ptrs[t]), b.offsets[t] + b.counts[t])
     ELSE b.ptrs[t]],
   offsets |-> [t \in NodeTypes |-> b.offsets[t] + b.counts[t]],
   counts |-> NoNodes, keys |-> b.keys, edge_index |-> b.edge_index,
   num_graphs |-> b.num_graphs + 1]

\* next_graph, and the end of append_batch_encoding: the open graph becomes
\* graph num_graphs + 1, and every graph keeps its node ranges.
LEMMA CommittedGood ==
  ASSUME NEW b, Good(b), b.keys # {}, NEW d, d = Committed(b)
  PROVE  /\ Good(d)
         /\ \A t \in NodeTypes : \A k \in 1..(b.num_graphs + 2) : Start(d, t, k) = Start(b, t, k)
<1>. DEFINE n == b.num_graphs
<1>1. /\ n \in Nat /\ LayoutType(b) /\ WellBounded(b) /\ Spanned(b)
      /\ EdgesWithinGraphs(b) /\ CountsHaveKeys(b)
  BY DEF Good, LayoutType
<1>0. /\ d.counts = NoNodes /\ d.keys = b.keys /\ d.edge_index = b.edge_index
      /\ d.num_graphs = n + 1
      /\ d.ptrs = [t \in NodeTypes |-> d.ptrs[t]]
      /\ d.offsets = [t \in NodeTypes |-> d.offsets[t]]
  BY DEF Committed
<1>2. ASSUME NEW t \in NodeTypes
      PROVE  /\ b.ptrs[t] \in Seq(Nat) /\ b.offsets[t] \in Nat /\ b.counts[t] \in Nat
             /\ b.ptrs[t] # <<>> => t \in b.keys /\ IsBoundary(b.ptrs[t])
                  /\ Last(b.ptrs[t]) = b.offsets[t] /\ Len(b.ptrs[t]) \in 2..(n + 1)
             /\ b.ptrs[t] = <<>> => b.offsets[t] = 0
             /\ t \notin b.keys => b.counts[t] = 0
  BY <1>1 DEF LayoutType, WellBounded, CountsHaveKeys
<1>3. ASSUME NEW t \in NodeTypes, t \in b.keys
      PROVE  /\ d.ptrs[t] = Append(Opened(b.ptrs[t]), d.offsets[t])
             /\ d.ptrs[t] \in Seq(Nat) /\ d.ptrs[t] # <<>>
             /\ IsBoundary(d.ptrs[t]) /\ Last(d.ptrs[t]) = d.offsets[t]
             /\ Len(d.ptrs[t]) = (IF b.ptrs[t] = <<>> THEN 2 ELSE Len(b.ptrs[t]) + 1)
  <2>1. d.offsets[t] = b.offsets[t] + b.counts[t] /\ d.offsets[t] \in Nat
          /\ b.offsets[t] =< d.offsets[t]
    BY <1>2 DEF Committed
  <2>2. d.ptrs[t] = Append(Opened(b.ptrs[t]), d.offsets[t])
    BY <1>3 DEF Committed
  <2>3. /\ b.ptrs[t] \in Seq(Nat)
        /\ b.ptrs[t] # <<>> => IsBoundary(b.ptrs[t])
        /\ b.ptrs[t] # <<>> => Last(b.ptrs[t]) =< d.offsets[t]
    BY <1>2, <2>1
  <2>4. d.offsets[t] \in Nat
    BY <2>1
  <2>5. /\ d.ptrs[t] \in Seq(Nat) /\ d.ptrs[t] # <<>>
        /\ IsBoundary(d.ptrs[t]) /\ Last(d.ptrs[t]) = d.offsets[t]
        /\ Len(d.ptrs[t]) = (IF b.ptrs[t] = <<>> THEN 2 ELSE Len(b.ptrs[t]) + 1)
    BY <2>2, <2>3, <2>4, BoundaryAdded
  <2>. QED  BY <2>2, <2>5
<1>4. ASSUME NEW t \in NodeTypes, t \notin b.keys
      PROVE  d.ptrs[t] = <<>> /\ b.ptrs[t] = <<>> /\ d.offsets[t] = 0 /\ b.counts[t] = 0
  <2>1. b.ptrs[t] = <<>> /\ b.offsets[t] = 0 /\ b.counts[t] = 0
    BY <1>2, <1>4
  <2>2. d.ptrs[t] = b.ptrs[t] /\ d.offsets[t] = b.offsets[t] + b.counts[t]
    BY <1>4 DEF Committed
  <2>. QED  BY <2>1, <2>2
<1>5. LayoutType(d) /\ CountsHaveKeys(d)
  <2>1. \A t \in NodeTypes : d.ptrs[t] \in Seq(Nat) /\ d.offsets[t] \in Nat
    BY <1>2, <1>3, <1>4, SMTT(30)
  <2>2. d.ptrs \in [NodeTypes -> Seq(Nat)] /\ d.offsets \in [NodeTypes -> Nat]
    BY <1>0, <2>1
  <2>3. d.counts \in [NodeTypes -> Nat]
    BY <1>0 DEF NoNodes
  <2>. QED  BY <1>0, <1>1, <2>2, <2>3 DEF LayoutType, CountsHaveKeys, NoNodes
<1>6. WellBounded(d)
  <2>1. ASSUME NEW t \in NodeTypes, t \in b.keys
        PROVE  Len(d.ptrs[t]) \in 2..(d.num_graphs + 1)
    <3>1. CASE b.ptrs[t] = <<>>
      <4>1. Len(d.ptrs[t]) = 2
        BY <1>3, <2>1, <3>1
      <4>2. n \in Nat /\ d.num_graphs + 1 = n + 2
        BY <1>0, <1>1
      <4>3. 2 \in 2..(n + 2)
        BY <4>2
      <4>. QED  BY <4>1, <4>2, <4>3
    <3>2. CASE b.ptrs[t] # <<>>
      <4>1. Len(d.ptrs[t]) = Len(b.ptrs[t]) + 1
        BY <1>3, <2>1, <3>2
      <4>2. Len(b.ptrs[t]) \in 2..(n + 1)
        BY <1>2, <3>2
      <4>3. d.num_graphs + 1 = n + 2
        BY <1>0, <1>1
      <4>4. Len(b.ptrs[t]) + 1 \in 2..(n + 2)
        BY <1>1, <4>2
      <4>5. Len(d.ptrs[t]) \in 2..(n + 2)
        BY <4>1, <4>4
      <4>. QED  BY <4>3, <4>5
    <3>. QED  BY <3>1, <3>2
  <2>. QED  BY <1>0, <1>3, <1>4, <2>1 DEF WellBounded
<1>7. Spanned(d)
  <2>1. CASE n = 0
    <3>1. PICK t \in NodeTypes : t \in b.keys
      BY <1>1 DEF LayoutType
    <3>2. b.ptrs[t] = <<>>
      BY <1>2, <2>1
    <3>3. Len(d.ptrs[t]) = 2
      BY <1>3, <3>1, <3>2
    <3>4. d.num_graphs + 1 = 2
      BY <1>0, <2>1
    <3>. QED  BY <3>3, <3>4 DEF Spanned
  <2>2. CASE n # 0
    <3>1. PICK t \in NodeTypes : Len(b.ptrs[t]) = n + 1
      BY <1>1, <2>2 DEF Spanned
    <3>2. b.ptrs[t] # <<>>
      BY <1>1, <2>2, <3>1, EmptySeq
    <3>3. Len(d.ptrs[t]) = Len(b.ptrs[t]) + 1
      BY <1>2, <1>3, <3>2
    <3>4. Len(d.ptrs[t]) = d.num_graphs + 1
      BY <1>0, <1>1, <3>1, <3>3
    <3>. QED  BY <3>4 DEF Spanned
  <2>. QED  BY <2>1, <2>2
<1>8. ASSUME NEW t \in NodeTypes, NEW k \in 1..(n + 2)
      PROVE  Start(d, t, k) = Start(b, t, k)
  <2>1. /\ Start(b, t, k) = IF k = n + 2 THEN d.offsets[t]
                            ELSE IF b.ptrs[t] = <<>> THEN 0 ELSE LeftPadded(b.ptrs[t], n + 1)[k]
        /\ Start(d, t, k) = IF d.ptrs[t] = <<>> THEN 0 ELSE LeftPadded(d.ptrs[t], n + 2)[k]
    <3>1. k # d.num_graphs + 2 /\ d.num_graphs + 1 = n + 2
      BY <1>0, <1>1
    <3>2. Start(b, t, n + 2) = d.offsets[t]
      BY <1>1, <1>2 DEF Start, Committed
    <3>. QED  BY <3>1, <3>2 DEF Start
  <2>2. CASE t \notin b.keys
    BY <1>4, <2>1, <2>2
  <2>3. CASE t \in b.keys
    <3>. DEFINE start == Opened(b.ptrs[t])
    <3>0. d.ptrs[t] = Append(start, d.offsets[t]) /\ d.offsets[t] \in Nat
      BY <1>3, <1>5, <2>3 DEF LayoutType
    <3>1. start \in Seq(Nat) /\ start # <<>> /\ Len(start) =< n + 1
      <4>1. CASE b.ptrs[t] = <<>>
        <5>1. start = <<0>>
          BY <4>1 DEF Opened
        <5>2. start \in Seq(Nat) /\ start # <<>> /\ Len(start) = 1
          BY <5>1
        <5>. QED  BY <1>1, <5>2
      <4>2. CASE b.ptrs[t] # <<>>
        <5>1. start = b.ptrs[t]
          BY <4>2 DEF Opened
        <5>. QED  BY <1>1, <1>2, <4>2, <5>1
      <4>. QED  BY <4>1, <4>2
    <3>. HIDE DEF start
    <3>2. n + 1 \in Nat /\ (n + 1) + 1 = n + 2
      BY <1>1
    <3>3. /\ \A j \in 1..(n + 1) : LeftPadded(d.ptrs[t], n + 2)[j] = LeftPadded(start, n + 1)[j]
          /\ LeftPadded(d.ptrs[t], n + 2)[n + 2] = d.offsets[t]
      <4>. DEFINE m == n + 1
      <4>1. m \in Nat /\ Len(start) =< m
        BY <3>1, <3>2
      <4>. HIDE DEF m
      <4>2. /\ \A j \in 1..m : LeftPadded(d.ptrs[t], m + 1)[j] = LeftPadded(start, m)[j]
            /\ LeftPadded(d.ptrs[t], m + 1)[m + 1] = d.offsets[t]
        BY <3>0, <3>1, <4>1, PaddedAppend, SMTT(30)
      <4>. QED  BY <3>2, <4>2 DEF m
    <3>4. d.ptrs[t] # <<>>
      BY <1>3, <2>3
    <3>5. CASE k = n + 2
      BY <2>1, <3>3, <3>4, <3>5
    <3>6. CASE k # n + 2
      <4>1. k \in 1..(n + 1)
        BY <1>1, <3>6
      <4>2. CASE b.ptrs[t] = <<>>
        <5>1. start = <<0>>
          BY <4>2 DEF start, Opened
        <5>2. start[1] = 0 /\ Len(start) = 1
          BY <5>1
        <5>3. LeftPadded(start, n + 1)[k] =
                IF k =< (n + 1) - Len(start) THEN start[1] ELSE start[k - ((n + 1) - Len(start))]
          BY <3>1, <3>2, <4>1, PaddedEntries
        <5>4. k - ((n + 1) - 1) = 1 \/ k =< (n + 1) - 1
          BY <1>1, <4>1
        <5>5. LeftPadded(start, n + 1)[k] = 0
          BY <5>2, <5>3, <5>4
        <5>. QED  BY <2>1, <3>3, <3>4, <3>6, <4>1, <4>2, <5>5
      <4>3. CASE b.ptrs[t] # <<>>
        <5>1. start = b.ptrs[t]
          BY <4>3 DEF start, Opened
        <5>. QED  BY <2>1, <3>3, <3>4, <3>6, <4>1, <4>3, <5>1
      <4>. QED  BY <4>2, <4>3
    <3>. QED  BY <3>5, <3>6
  <2>. QED  BY <2>2, <2>3
<1>9. EdgesWithinGraphs(d)
  <2>1. ASSUME NEW r \in EdgeTypes, NEW i \in DOMAIN d.edge_index[r]
        PROVE  \E k \in 1..(d.num_graphs + 1) :
                 /\ InGraph(d, SrcOf[r], k, d.edge_index[r][i][1])
                 /\ InGraph(d, DstOf[r], k, d.edge_index[r][i][2])
    <3>1. PICK k \in 1..(n + 1) : /\ InGraph(b, SrcOf[r], k, b.edge_index[r][i][1])
                                  /\ InGraph(b, DstOf[r], k, b.edge_index[r][i][2])
      BY <1>0, <1>1, <2>1 DEF EdgesWithinGraphs
    <3>2. k \in 1..(n + 2) /\ k + 1 \in 1..(n + 2) /\ k \in 1..(d.num_graphs + 1)
      BY <1>0, <1>1, <3>1
    <3>3. SrcOf[r] \in NodeTypes /\ DstOf[r] \in NodeTypes
      BY EdgeEnds
    <3>4. \A t \in NodeTypes : Start(d, t, k) = Start(b, t, k)
                                 /\ Start(d, t, k + 1) = Start(b, t, k + 1)
      BY <1>8, <3>2
    <3>. QED  BY <1>0, <3>1, <3>2, <3>3, <3>4 DEF InGraph
  <2>. QED  BY <2>1 DEF EdgesWithinGraphs
<1>. QED  BY <1>5, <1>6, <1>7, <1>8, <1>9 DEF Good

\* build(), and its inverse load_from_batch_encoding: padding the boundaries to
\* the same length moves no graph.
LEMMA SealedGood ==
  ASSUME NEW b, Good(b), \A t \in NodeTypes : b.counts[t] = 0,
         NEW e, e.ptrs = [t \in NodeTypes |-> LeftPadded(b.ptrs[t], b.num_graphs + 1)],
         e.edge_index = b.edge_index, e.num_graphs = b.num_graphs
  PROVE  /\ Good(LayoutOf(e))
         /\ \A t \in KeysOf(e) : Len(e.ptrs[t]) = e.num_graphs + 1
<1>. DEFINE n == b.num_graphs
            d == LayoutOf(e)
<1>1. /\ n \in Nat /\ LayoutType(b) /\ WellBounded(b) /\ Spanned(b) /\ EdgesWithinGraphs(b)
  BY DEF Good, LayoutType
<1>2. /\ d.edge_index = b.edge_index /\ d.num_graphs = n /\ d.keys = KeysOf(e)
      /\ d.counts = NoNodes /\ d.ptrs = e.ptrs
      /\ d.offsets = [t \in NodeTypes |-> CountOf(e, t)]
  BY DEF LayoutOf
<1>3. \A t \in NodeTypes : d.ptrs[t] = LeftPadded(b.ptrs[t], n + 1)
  BY <1>2
<1>. HIDE DEF d
<1>4. ASSUME NEW t \in NodeTypes, b.ptrs[t] = <<>>
      PROVE  d.ptrs[t] = <<>> /\ d.offsets[t] = 0 /\ b.offsets[t] = 0
  <2>1. d.ptrs[t] = <<>> /\ e.ptrs[t] = <<>>
    BY <1>2, <1>3, <1>4 DEF LeftPadded
  <2>2. b.offsets[t] = 0
    BY <1>1, <1>4 DEF WellBounded
  <2>. QED  BY <1>2, <2>1, <2>2 DEF CountOf
<1>5. ASSUME NEW t \in NodeTypes, b.ptrs[t] # <<>>
      PROVE  /\ d.ptrs[t] \in Seq(Nat) /\ d.ptrs[t] # <<>> /\ Len(d.ptrs[t]) = n + 1
             /\ n + 1 >= 2 /\ d.offsets[t] = b.offsets[t]
             /\ Last(d.ptrs[t]) = d.offsets[t] /\ IsBoundary(d.ptrs[t]) /\ t \in d.keys
             /\ \A k \in 1..(n + 1) : LeftPadded(d.ptrs[t], n + 1)[k] = d.ptrs[t][k]
  <2>. DEFINE ptr == b.ptrs[t]
              m == n + 1
              padded == d.ptrs[t]
  <2>1. /\ ptr \in Seq(Nat) /\ ptr # <<>> /\ m \in Nat /\ Len(ptr) \in 2..m
        /\ IsBoundary(ptr) /\ Last(ptr) = b.offsets[t]
    BY <1>1, <1>5 DEF LayoutType, WellBounded
  <2>2. padded = LeftPadded(ptr, m)
    BY <1>3
  <2>. HIDE DEF padded, ptr, m
  <2>3. /\ padded \in Seq(Nat) /\ padded # <<>> /\ Len(padded) = m
        /\ Last(padded) = Last(ptr)
        /\ \A i \in 1..m : padded[i] =
             IF i =< m - Len(ptr) THEN ptr[1] ELSE ptr[i - (m - Len(ptr))]
    <3>1. Len(ptr) =< m
      BY <2>1
    <3>. QED  BY <2>1, <2>2, <3>1, PaddedEntries
  <2>6. \A k \in 1..m : LeftPadded(padded, m)[k] = padded[k]
    <3>1. \A k \in 1..m : LeftPadded(padded, m)[k] =
            IF k =< m - Len(padded) THEN padded[1] ELSE padded[k - (m - Len(padded))]
      <4>1. Len(padded) =< m
        BY <2>1, <2>3
      <4>. QED  BY <2>1, <2>3, <4>1, PaddedEntries
    <3>2. \A k \in 1..m : ~(k =< m - Len(padded)) /\ k - (m - Len(padded)) = k
      BY <2>1, <2>3
    <3>. QED  BY <3>1, <3>2
  <2>7. e.ptrs[t] # <<>> /\ Last(e.ptrs[t]) = b.offsets[t]
    BY <1>2, <2>1, <2>3 DEF padded
  <2>8. d.offsets[t] = b.offsets[t] /\ t \in d.keys
    BY <1>2, <2>7 DEF CountOf, KeysOf
  <2>9. n + 1 >= 2
    BY <1>1, <2>1 DEF m
  <2>10. IsBoundary(padded)
    <3>1. Len(ptr) =< m
      BY <2>1
    <3>. QED  BY <2>1, <2>2, <3>1, PaddedBoundary
  <2>. QED  BY <2>1, <2>3, <2>6, <2>8, <2>9, <2>10 DEF padded, m
<1>6. LayoutType(d) /\ CountsHaveKeys(d)
  <2>1. \A t \in NodeTypes : d.ptrs[t] \in Seq(Nat) /\ d.offsets[t] \in Nat
    BY <1>1, <1>4, <1>5 DEF LayoutType
  <2>2. d.ptrs \in [NodeTypes -> Seq(Nat)] /\ d.offsets \in [NodeTypes -> Nat]
    BY <1>2, <2>1
  <2>3. d.counts \in [NodeTypes -> Nat] /\ d.keys \subseteq NodeTypes
    BY <1>2 DEF NoNodes, KeysOf
  <2>. QED  BY <1>1, <1>2, <2>2, <2>3 DEF LayoutType, CountsHaveKeys, NoNodes
<1>7. WellBounded(d)
  <2>1. ASSUME NEW t \in NodeTypes, b.ptrs[t] # <<>>
        PROVE  Len(d.ptrs[t]) \in 2..(d.num_graphs + 1)
    <3>1. Len(d.ptrs[t]) = n + 1 /\ n + 1 >= 2 /\ d.num_graphs + 1 = n + 1
      BY <1>2, <1>5, <2>1
    <3>2. n + 1 \in 2..(n + 1)
      BY <1>1, <3>1
    <3>. QED  BY <3>1, <3>2
  <2>. QED  BY <1>4, <1>5, <2>1 DEF WellBounded
<1>8. Spanned(d)
  <2>. SUFFICES ASSUME n > 0
                PROVE  \E t \in NodeTypes : Len(d.ptrs[t]) = n + 1
    BY <1>2 DEF Spanned
  <2>1. PICK t \in NodeTypes : Len(b.ptrs[t]) = n + 1
    BY <1>1 DEF Spanned
  <2>2. b.ptrs[t] # <<>>
    BY <1>1, <2>1, EmptySeq
  <2>. QED  BY <1>5, <2>2
<1>9. ASSUME NEW t \in NodeTypes, NEW k \in 1..(n + 2)
      PROVE  Start(d, t, k) = Start(b, t, k)
  <2>1. CASE k = n + 2
    <3>1. d.offsets[t] = b.offsets[t] /\ d.counts[t] = 0 /\ b.counts[t] = 0
      BY <1>2, <1>4, <1>5 DEF NoNodes
    <3>. QED  BY <1>2, <2>1, <3>1 DEF Start
  <2>2. CASE k # n + 2
    <3>1. k \in 1..(n + 1)
      BY <1>1, <2>2
    <3>2. CASE b.ptrs[t] = <<>>
      BY <1>2, <1>4, <2>2, <3>2 DEF Start
    <3>3. CASE b.ptrs[t] # <<>>
      <4>1. Start(b, t, k) = LeftPadded(b.ptrs[t], n + 1)[k]
        BY <2>2, <3>3 DEF Start
      <4>2. Start(d, t, k) = LeftPadded(d.ptrs[t], n + 1)[k]
        BY <1>2, <1>5, <2>2, <3>3 DEF Start
      <4>. QED  BY <1>3, <1>5, <3>1, <3>3, <4>1, <4>2
    <3>. QED  BY <3>2, <3>3
  <2>. QED  BY <2>1, <2>2
<1>10. EdgesWithinGraphs(d)
  <2>1. ASSUME NEW r \in EdgeTypes, NEW i \in DOMAIN d.edge_index[r]
        PROVE  \E k \in 1..(d.num_graphs + 1) :
                 /\ InGraph(d, SrcOf[r], k, d.edge_index[r][i][1])
                 /\ InGraph(d, DstOf[r], k, d.edge_index[r][i][2])
    <3>1. PICK k \in 1..(n + 1) : /\ InGraph(b, SrcOf[r], k, b.edge_index[r][i][1])
                                  /\ InGraph(b, DstOf[r], k, b.edge_index[r][i][2])
      BY <1>1, <1>2, <2>1 DEF EdgesWithinGraphs
    <3>2. k \in 1..(n + 2) /\ k + 1 \in 1..(n + 2)
      BY <1>1, <3>1
    <3>3. SrcOf[r] \in NodeTypes /\ DstOf[r] \in NodeTypes
      BY EdgeEnds
    <3>4. \A t \in NodeTypes : Start(d, t, k) = Start(b, t, k)
                                 /\ Start(d, t, k + 1) = Start(b, t, k + 1)
      BY <1>9, <3>2
    <3>. QED  BY <1>2, <3>1, <3>3, <3>4 DEF InGraph
  <2>. QED  BY <2>1 DEF EdgesWithinGraphs
<1>11. ASSUME NEW t \in KeysOf(e)
       PROVE  Len(e.ptrs[t]) = e.num_graphs + 1
  <2>1. t \in NodeTypes /\ d.ptrs[t] # <<>>
    BY <1>2 DEF KeysOf
  <2>2. b.ptrs[t] # <<>>
    BY <1>4, <2>1
  <2>. QED  BY <1>2, <1>5, <2>1, <2>2
<1>. QED  BY <1>6, <1>7, <1>8, <1>10, <1>11 DEF Good, d

\* The longest boundary vector has one entry per graph and one more.
LEMMA GraphCountIsRight ==
  ASSUME NEW b, LayoutType(b), WellBounded(b), Spanned(b),
         NEW declared, declared # {} => b.num_graphs > 0
  PROVE  GraphCount(b.ptrs, declared, b.num_graphs) = b.num_graphs
<1>. DEFINE n == b.num_graphs
            spans == {Len(b.ptrs[t]) - 1 : t \in {u \in NodeTypes : b.ptrs[u] # <<>>}}
<1>1. n \in Nat
  BY DEF LayoutType
<1>2. \A m \in spans : m \in 1..n
  <2>1. \A t \in NodeTypes : b.ptrs[t] # <<>> => Len(b.ptrs[t]) \in 2..(n + 1)
    BY DEF WellBounded
  <2>. QED  BY <1>1, <2>1
<1>3. n > 0 => n \in spans
  <2>1. SUFFICES ASSUME n > 0 PROVE n \in spans
    OBVIOUS
  <2>2. PICK t \in NodeTypes : Len(b.ptrs[t]) = n + 1
    BY <2>1 DEF Spanned
  <2>3. b.ptrs[t] # <<>> /\ Len(b.ptrs[t]) - 1 = n
    BY <1>1, <2>1, <2>2, EmptySeq
  <2>. QED  BY <2>3
<1>4. GraphCount(b.ptrs, declared, n) =
        IF ~(spans \subseteq {0}) THEN CHOOSE i \in spans : \A m \in spans : m <= i
        ELSE IF declared # {} THEN 1 ELSE n
  BY DEF GraphCount
<1>. HIDE DEF spans
<1>5. CASE spans \subseteq {0}
  <2>1. ~(n > 0)
    BY <1>1, <1>3, <1>5
  <2>2. declared = {}
    BY <2>1
  <2>. QED  BY <1>4, <1>5, <2>2
<1>6. CASE ~(spans \subseteq {0})
  <2>1. n > 0
    BY <1>1, <1>2, <1>6
  <2>2. n \in spans /\ \A m \in spans : m <= n
    BY <1>1, <1>2, <1>3, <2>1
  <2>3. \A i \in spans : (\A m \in spans : m <= i) => i = n
    BY <1>1, <1>2, <2>2
  <2>4. (CHOOSE i \in spans : \A m \in spans : m <= i) = n
    BY <2>2, <2>3
  <2>. QED  BY <1>4, <1>6, <2>4
<1>. QED  BY <1>5, <1>6

-----------------------------------------------------------------------------
(* The actions.                                                            *)

\* The builder's layout, and that of the encoding its caller holds: reloading
\* it needs no less.
IInv ==
  /\ Good(Layout)
  /\ encoding # None =>
       /\ Good(LayoutOf(encoding))
       /\ \A t \in KeysOf(encoding) : Len(encoding.ptrs[t]) = encoding.num_graphs + 1

LEMMA LayoutFacts ==
  /\ Layout.ptrs = ptrs /\ Layout.offsets = node_offsets
  /\ Layout.counts = current_node_counts /\ Layout.keys = counted
  /\ Layout.edge_index = edge_index /\ Layout.num_graphs = current_graph_idx
  BY DEF Layout

LEMMA EmptyGood ==
  ASSUME NEW d, d.ptrs = NoPtrs, d.offsets = NoNodes, d.counts = NoNodes, d.keys = {},
         d.edge_index = NoEdges, d.num_graphs = 0
  PROVE  Good(d)
<1>1. LayoutType(d)
  <2>1. \A e \in EdgeTypes : <<>> \in Seq(Edge)
    OBVIOUS
  <2>2. \A t \in NodeTypes : <<>> \in Seq(Nat)
    OBVIOUS
  <2>. QED  BY <2>1, <2>2 DEF LayoutType, NoPtrs, NoNodes, NoEdges
<1>2. CountsHaveKeys(d) /\ WellBounded(d) /\ Spanned(d)
  BY DEF CountsHaveKeys, WellBounded, Spanned, NoPtrs, NoNodes
<1>3. \A r \in EdgeTypes : DOMAIN d.edge_index[r] = {}
  BY DEF NoEdges
<1>4. EdgesWithinGraphs(d)
  BY <1>3 DEF EdgesWithinGraphs
<1>. QED  BY <1>1, <1>2, <1>4 DEF Good

LEMMA InitIInv == Init => IInv
<1>. SUFFICES ASSUME Init PROVE IInv
  OBVIOUS
<1>1. /\ ptrs = NoPtrs /\ node_offsets = NoNodes /\ current_node_counts = NoNodes
      /\ counted = {} /\ edge_index = NoEdges /\ current_graph_idx = 0 /\ encoding = None
  BY DEF Init
<1>2. Good(Layout)
  BY <1>1, LayoutFacts, EmptyGood
<1>. QED  BY <1>1, <1>2 DEF IInv

LEMMA AddNodesIInv ==
  ASSUME IInv, NEW t \in NodeTypes, NEW count \in 0..MaxNodes[t], AddNodes(t, count)
  PROVE  IInv'
<1>1. /\ counted' = counted \cup {t}
      /\ current_node_counts' = [current_node_counts EXCEPT ![t] = IF @ < count THEN count ELSE @]
      /\ UNCHANGED <<node_offsets, ptrs, edge_index, current_graph_idx, encoding>>
  BY DEF AddNodes
<1>2. current_node_counts \in [NodeTypes -> Nat] /\ counted \subseteq NodeTypes /\ count \in Nat
        /\ CountsHaveKeys(Layout)
  BY Bounds, LayoutFacts DEF IInv, Good, LayoutType
<1>3. /\ current_node_counts' \in [NodeTypes -> Nat] /\ counted' \subseteq NodeTypes
      /\ \A u \in NodeTypes : current_node_counts[u] =< current_node_counts'[u]
      /\ \A u \in NodeTypes : u # t => current_node_counts'[u] = current_node_counts[u]
  BY <1>1, <1>2
<1>. DEFINE d == Layout'
<1>4. /\ d.ptrs = ptrs /\ d.offsets = node_offsets /\ d.counts = current_node_counts'
      /\ d.keys = counted' /\ d.edge_index = edge_index /\ d.num_graphs = current_graph_idx
  BY <1>1 DEF Layout
<1>. HIDE DEF d
<1>5. LayoutType(d)
  BY <1>3, <1>4, LayoutFacts DEF IInv, Good, LayoutType
<1>6. CountsHaveKeys(d)
  BY <1>1, <1>2, <1>3, <1>4, LayoutFacts DEF CountsHaveKeys
<1>7. Good(d)
  BY <1>1, <1>3, <1>4, <1>5, <1>6, LayoutFacts, GrownGood DEF IInv
<1>. QED  BY <1>1, <1>7 DEF IInv, d

LEMMA AddEdgeIInv ==
  ASSUME IInv, NEW e \in EdgeTypes,
         NEW i \in 0..(MaxNodes[SrcOf[e]] - 1), NEW j \in 0..(MaxNodes[DstOf[e]] - 1),
         AddEdge(e, i, j)
  PROVE  IInv'
<1>. DEFINE edge == <<i + node_offsets[SrcOf[e]], j + node_offsets[DstOf[e]]>>
            n == current_graph_idx
<1>1. /\ i < current_node_counts[SrcOf[e]] /\ j < current_node_counts[DstOf[e]]
      /\ edge_index' = [edge_index EXCEPT ![e] = Append(@, edge)]
      /\ UNCHANGED <<current_node_counts, counted, node_offsets, ptrs, current_graph_idx, encoding>>
  BY DEF AddEdge
<1>2. SrcOf[e] \in NodeTypes /\ DstOf[e] \in NodeTypes
  BY EdgeEnds
<1>3. i \in Nat /\ j \in Nat
  BY <1>2, Bounds
<1>4. LayoutType(Layout) /\ WellBounded(Layout)
  BY DEF IInv, Good
<1>5. /\ node_offsets \in [NodeTypes -> Nat] /\ current_node_counts \in [NodeTypes -> Nat]
      /\ edge_index \in [EdgeTypes -> Seq(Edge)] /\ n \in Nat
  BY <1>4, LayoutFacts DEF LayoutType
<1>6. edge \in Edge
  BY <1>2, <1>3, <1>5, SMTT(30) DEF Edge
<1>7. /\ InGraph(Layout, SrcOf[e], n + 1, edge[1])
      /\ InGraph(Layout, DstOf[e], n + 1, edge[2])
  <2>1. \A t \in NodeTypes : /\ Start(Layout, t, n + 1) = node_offsets[t]
                             /\ Start(Layout, t, n + 2) = node_offsets[t] + current_node_counts[t]
    BY <1>4, LayoutFacts, StartFacts
  <2>2. (n + 1) + 1 = n + 2
    BY <1>5
  <2>3. ASSUME NEW t \in NodeTypes, NEW v \in Nat, v < current_node_counts[t]
        PROVE  InGraph(Layout, t, n + 1, v + node_offsets[t])
    <3>1. node_offsets[t] \in Nat /\ current_node_counts[t] \in Nat
      BY <1>5
    <3>2. /\ node_offsets[t] =< v + node_offsets[t]
          /\ v + node_offsets[t] < node_offsets[t] + current_node_counts[t]
      BY <2>3, <3>1
    <3>. QED  BY <2>1, <2>2, <3>2 DEF InGraph
  <2>. QED  BY <1>1, <1>2, <1>3, <2>3
<1>. HIDE DEF edge
<1>8. /\ edge_index' \in [EdgeTypes -> Seq(Edge)]
      /\ edge_index'[e] = Append(edge_index[e], edge)
      /\ \A r \in EdgeTypes : r # e => edge_index'[r] = edge_index[r]
  BY <1>1, <1>5, <1>6
<1>9. ASSUME NEW r \in EdgeTypes, NEW k \in DOMAIN edge_index'[r]
      PROVE  \/ k \in DOMAIN edge_index[r] /\ edge_index'[r][k] = edge_index[r][k]
             \/ r = e /\ edge_index'[r][k] = edge
  <2>1. CASE r # e
    BY <1>8, <1>9, <2>1
  <2>2. CASE r = e
    <3>1. edge_index[e] \in Seq(Edge) /\ edge_index'[e] = Append(edge_index[e], edge)
      BY <1>5, <1>8
    <3>2. /\ Len(edge_index[e]) \in Nat /\ DOMAIN edge_index[e] = 1..Len(edge_index[e])
          /\ DOMAIN edge_index'[e] = 1..(Len(edge_index[e]) + 1)
          /\ \A m \in 1..Len(edge_index[e]) : edge_index'[e][m] = edge_index[e][m]
          /\ edge_index'[e][Len(edge_index[e]) + 1] = edge
      BY <1>6, <3>1, AppendProperties, LenProperties
    <3>. QED  BY <1>9, <2>2, <3>2, SMTT(30)
  <2>. QED  BY <2>1, <2>2
<1>. DEFINE d == Layout'
<1>10. /\ d.ptrs = ptrs /\ d.offsets = node_offsets /\ d.counts = current_node_counts
       /\ d.keys = counted /\ d.edge_index = edge_index' /\ d.num_graphs = n
  BY <1>1 DEF Layout
<1>. HIDE DEF d
<1>11. LayoutType(d)
  BY <1>4, <1>8, <1>10, LayoutFacts DEF LayoutType
<1>12. \A r \in EdgeTypes : \A k \in DOMAIN d.edge_index[r] :
         \/ k \in DOMAIN Layout.edge_index[r] /\ d.edge_index[r][k] = Layout.edge_index[r][k]
         \/ /\ InGraph(Layout, SrcOf[r], Layout.num_graphs + 1, d.edge_index[r][k][1])
            /\ InGraph(Layout, DstOf[r], Layout.num_graphs + 1, d.edge_index[r][k][2])
  BY <1>7, <1>9, <1>10, LayoutFacts
<1>13. Good(d)
  BY <1>10, <1>11, <1>12, LayoutFacts, EdgesAddedGood DEF IInv
<1>. QED  BY <1>1, <1>13 DEF IInv, d

\* The boundaries that next_graph writes are those of Committed: a type without
\* a key has no boundary to repeat.
LEMMA CommittedLayout ==
  ASSUME IInv
  PROVE  /\ Committed(Layout).ptrs = CommittedPtrs
         /\ Committed(Layout).offsets = OffsetsWith(current_node_counts)
         /\ Committed(Layout).edge_index = edge_index
         /\ Committed(Layout).num_graphs = current_graph_idx + 1
         /\ Committed(Layout) = [ptrs |-> CommittedPtrs,
              offsets |-> OffsetsWith(current_node_counts), counts |-> NoNodes,
              keys |-> counted, edge_index |-> edge_index, num_graphs |-> current_graph_idx + 1]
<1>1. \A t \in NodeTypes : t \notin counted => ptrs[t] = <<>>
  BY LayoutFacts DEF IInv, Good, WellBounded
<1>2. CommittedPtrs = [t \in NodeTypes |->
        IF t \in counted THEN Append(Opened(ptrs[t]), node_offsets[t] + current_node_counts[t])
        ELSE ptrs[t]]
  BY <1>1 DEF CommittedPtrs, PtrsWith
<1>. QED  BY <1>2, LayoutFacts DEF Committed, OffsetsWith

LEMMA NextGraphIInv ==
  ASSUME IInv, NextGraph
  PROVE  IInv'
<1>1. /\ counted # {} /\ node_offsets' = OffsetsWith(current_node_counts) /\ ptrs' = CommittedPtrs
      /\ current_node_counts' = NoNodes /\ current_graph_idx' = current_graph_idx + 1
      /\ UNCHANGED <<counted, edge_index, encoding>>
  BY DEF NextGraph, MayCommit
<1>2. Layout' = Committed(Layout)
  BY <1>1, CommittedLayout DEF Layout
<1>3. Good(Layout')
  BY <1>1, <1>2, LayoutFacts, CommittedGood DEF IInv
<1>. QED  BY <1>1, <1>3 DEF IInv

\* What both outcomes of append_batch_encoding begin with: the keys and counts
\* of the merged graph are taken over.
LEMMA MergedCountsFacts ==
  ASSUME IInv, NEW e \in Encodings
  PROVE  /\ MergedCounts(e) \in [NodeTypes -> Nat]
         /\ \A t \in NodeTypes : /\ current_node_counts[t] =< MergedCounts(e)[t]
                                 /\ CountOf(e, t) \in Nat /\ CountOf(e, t) =< MergedCounts(e)[t]
                                 /\ t \notin counted \cup KeysOf(e) => MergedCounts(e)[t] = 0
         /\ counted \cup KeysOf(e) \subseteq NodeTypes
<1>1. /\ current_node_counts \in [NodeTypes -> Nat] /\ counted \subseteq NodeTypes
      /\ CountsHaveKeys(Layout)
  BY LayoutFacts DEF IInv, Good, LayoutType
<1>2. ASSUME NEW t \in NodeTypes
      PROVE  CountOf(e, t) \in Nat /\ (t \notin KeysOf(e) => CountOf(e, t) = 0)
  <2>1. CASE e.ptrs[t] = <<>>
    BY <2>1 DEF CountOf
  <2>2. CASE e.ptrs[t] # <<>>
    <3>1. e.ptrs[t] \in Seq(Nat) /\ Len(e.ptrs[t]) \in Nat \ {0}
      BY <2>2, SingleGraphs, EmptySeq
    <3>2. e.ptrs[t][Len(e.ptrs[t])] \in Nat
      BY <3>1
    <3>. QED  BY <2>2, <3>2 DEF CountOf, KeysOf, Last
  <2>. QED  BY <2>1, <2>2
<1>3. ASSUME NEW t \in NodeTypes
      PROVE  /\ MergedCounts(e)[t] \in Nat
             /\ current_node_counts[t] =< MergedCounts(e)[t] /\ CountOf(e, t) =< MergedCounts(e)[t]
             /\ t \notin counted \cup KeysOf(e) => MergedCounts(e)[t] = 0
  <2>1. MergedCounts(e)[t] = IF current_node_counts[t] < CountOf(e, t) THEN CountOf(e, t)
                             ELSE current_node_counts[t]
    BY DEF MergedCounts
  <2>2. current_node_counts[t] \in Nat /\ (t \notin counted => current_node_counts[t] = 0)
    BY <1>1, LayoutFacts DEF CountsHaveKeys
  <2>. QED  BY <1>2, <2>1, <2>2
<1>4. MergedCounts(e) \in [NodeTypes -> Nat]
  BY <1>3 DEF MergedCounts
<1>. QED  BY <1>1, <1>2, <1>3, <1>4 DEF KeysOf

\* The layout in which the counts of e have been added to the open graph.
Counted(e) ==
  [ptrs |-> ptrs, offsets |-> node_offsets, counts |-> MergedCounts(e),
   keys |-> counted \cup KeysOf(e), edge_index |-> edge_index, num_graphs |-> current_graph_idx]

LEMMA CountedGood ==
  ASSUME IInv, NEW e \in Encodings
  PROVE  Good(Counted(e))
<1>. DEFINE d == Counted(e)
<1>1. /\ d.ptrs = ptrs /\ d.offsets = node_offsets /\ d.counts = MergedCounts(e)
      /\ d.keys = counted \cup KeysOf(e) /\ d.edge_index = edge_index
      /\ d.num_graphs = current_graph_idx
  BY DEF Counted
<1>. HIDE DEF d
<1>2. LayoutType(d)
  BY <1>1, LayoutFacts, MergedCountsFacts DEF LayoutType, IInv, Good
<1>3. CountsHaveKeys(d)
  BY <1>1, MergedCountsFacts DEF CountsHaveKeys
<1>4. Good(d)
  BY <1>1, <1>2, <1>3, LayoutFacts, MergedCountsFacts, GrownGood DEF IInv
<1>. QED  BY <1>4 DEF d

\* ... and its edges behind those of the batch.
Joined(e) ==
  [Counted(e) EXCEPT !.edge_index = [r \in EdgeTypes |-> edge_index[r] \o ShiftedEdges(e)[r]]]

LEMMA JoinedGood ==
  ASSUME IInv, NEW e \in Encodings
  PROVE  Good(Joined(e))
<1>. DEFINE c == Counted(e)
            d == Joined(e)
            n == current_graph_idx
<1>1. /\ c.ptrs = ptrs /\ c.offsets = node_offsets /\ c.counts = MergedCounts(e)
      /\ c.keys = counted \cup KeysOf(e) /\ c.edge_index = edge_index /\ c.num_graphs = n
      /\ d.ptrs = ptrs /\ d.offsets = node_offsets /\ d.counts = MergedCounts(e)
      /\ d.keys = counted \cup KeysOf(e) /\ d.num_graphs = n
      /\ d.edge_index = [r \in EdgeTypes |-> edge_index[r] \o ShiftedEdges(e)[r]]
  BY DEF Counted, Joined
<1>2. Good(c)
  BY CountedGood
<1>. HIDE DEF c, d
<1>3. LayoutType(c) /\ WellBounded(c) /\ n \in Nat
  BY <1>1, <1>2 DEF Good, LayoutType
<1>4. ASSUME NEW r \in EdgeTypes
      PROVE  /\ ShiftedEdges(e)[r] \in Seq(Edge)
             /\ \A i \in 1..Len(ShiftedEdges(e)[r]) :
                  /\ InGraph(c, SrcOf[r], n + 1, ShiftedEdges(e)[r][i][1])
                  /\ InGraph(c, DstOf[r], n + 1, ShiftedEdges(e)[r][i][2])
  <2>. DEFINE edges == e.edge_index[r]
              shift(i) == <<edges[i][1] + node_offsets[SrcOf[r]],
                            edges[i][2] + node_offsets[DstOf[r]]>>
  <2>1. SrcOf[r] \in NodeTypes /\ DstOf[r] \in NodeTypes
    BY EdgeEnds
  <2>2. /\ edges \in Seq(Edge) /\ Len(edges) \in Nat /\ DOMAIN edges = 1..Len(edges)
        /\ \A i \in 1..Len(edges) :
             /\ edges[i][1] \in Nat /\ edges[i][1] < CountOf(e, SrcOf[r])
             /\ edges[i][2] \in Nat /\ edges[i][2] < CountOf(e, DstOf[r])
    <3>1. edges \in Seq(Edge)
      BY SingleGraphs DEF Edge
    <3>2. Len(edges) \in Nat /\ DOMAIN edges = 1..Len(edges)
      BY <3>1, LenProperties
    <3>3. \A i \in 1..Len(edges) : edges[i] \in Edge
      BY <3>1
    <3>. QED  BY <3>1, <3>2, <3>3, SingleGraphs DEF Edge
  <2>3. ASSUME NEW t \in NodeTypes, NEW v \in Nat, v < CountOf(e, t)
        PROVE  v + node_offsets[t] \in Nat /\ InGraph(c, t, n + 1, v + node_offsets[t])
    <3>1. /\ Start(c, t, n + 1) = node_offsets[t]
          /\ Start(c, t, n + 2) = node_offsets[t] + MergedCounts(e)[t]
      BY <1>1, <1>3, StartFacts
    <3>2. /\ node_offsets[t] \in Nat /\ MergedCounts(e)[t] \in Nat
          /\ CountOf(e, t) \in Nat /\ CountOf(e, t) =< MergedCounts(e)[t]
      BY <1>1, <1>3, MergedCountsFacts DEF LayoutType
    <3>3. /\ node_offsets[t] =< v + node_offsets[t]
          /\ v + node_offsets[t] < node_offsets[t] + MergedCounts(e)[t]
      BY <2>3, <3>2
    <3>4. (n + 1) + 1 = n + 2
      BY <1>3
    <3>. QED  BY <3>1, <3>2, <3>3, <3>4 DEF InGraph
  <2>4. ShiftedEdges(e)[r] = [i \in 1..Len(edges) |-> shift(i)]
    BY <2>2 DEF ShiftedEdges
  <2>5. \A i \in 1..Len(edges) : shift(i) \in Edge
    BY <2>1, <2>2, <2>3 DEF Edge
  <2>6. ShiftedEdges(e)[r] \in Seq(Edge) /\ Len(ShiftedEdges(e)[r]) = Len(edges)
    <3>. HIDE DEF edges, shift
    <3>. QED  BY <2>2, <2>4, <2>5, IsASeq
  <2>7. ASSUME NEW i \in 1..Len(edges)
        PROVE  /\ InGraph(c, SrcOf[r], n + 1, ShiftedEdges(e)[r][i][1])
               /\ InGraph(c, DstOf[r], n + 1, ShiftedEdges(e)[r][i][2])
    <3>1. ShiftedEdges(e)[r][i][1] = edges[i][1] + node_offsets[SrcOf[r]]
            /\ ShiftedEdges(e)[r][i][2] = edges[i][2] + node_offsets[DstOf[r]]
      BY <2>4
    <3>. HIDE DEF edges
    <3>. QED  BY <2>1, <2>2, <2>3, <3>1
  <2>. QED  BY <2>6, <2>7
<1>5. ASSUME NEW r \in EdgeTypes
      PROVE  /\ d.edge_index[r] \in Seq(Edge)
             /\ \A i \in DOMAIN d.edge_index[r] :
                  \/ i \in DOMAIN c.edge_index[r] /\ d.edge_index[r][i] = c.edge_index[r][i]
                  \/ /\ InGraph(c, SrcOf[r], n + 1, d.edge_index[r][i][1])
                     /\ InGraph(c, DstOf[r], n + 1, d.edge_index[r][i][2])
  <2>. DEFINE old == edge_index[r]
              new == ShiftedEdges(e)[r]
              all == d.edge_index[r]
  <2>1. old \in Seq(Edge) /\ new \in Seq(Edge) /\ all = old \o new /\ c.edge_index[r] = old
    BY <1>1, <1>3, <1>4 DEF LayoutType
  <2>2. /\ \A i \in 1..Len(new) : /\ InGraph(c, SrcOf[r], n + 1, new[i][1])
                                  /\ InGraph(c, DstOf[r], n + 1, new[i][2])
    BY <1>4
  <2>. HIDE DEF old, new, all
  <2>3. /\ all \in Seq(Edge) /\ Len(all) = Len(old) + Len(new)
        /\ \A i \in 1..Len(all) : all[i] = IF i =< Len(old) THEN old[i] ELSE new[i - Len(old)]
    BY <2>1, ConcatProperties
  <2>4. /\ Len(old) \in Nat /\ Len(new) \in Nat /\ DOMAIN old = 1..Len(old)
        /\ DOMAIN all = 1..Len(all)
    BY <2>1, <2>3, LenProperties
  <2>5. ASSUME NEW i \in DOMAIN all
        PROVE  \/ i \in DOMAIN old /\ all[i] = old[i]
               \/ /\ InGraph(c, SrcOf[r], n + 1, all[i][1])
                  /\ InGraph(c, DstOf[r], n + 1, all[i][2])
    <3>1. CASE i =< Len(old)
      BY <2>3, <2>4, <2>5, <3>1
    <3>2. CASE ~(i =< Len(old))
      <4>1. i - Len(old) \in 1..Len(new)
        BY <2>3, <2>4, <2>5, <3>2
      <4>2. all[i] = new[i - Len(old)]
        BY <2>3, <2>4, <2>5, <3>2
      <4>. QED  BY <2>2, <4>1, <4>2
    <3>. QED  BY <3>1, <3>2
  <2>. QED  BY <2>1, <2>3, <2>5 DEF all
<1>6. LayoutType(d)
  <2>1. d.edge_index \in [EdgeTypes -> Seq(Edge)]
    BY <1>1, <1>5
  <2>. QED  BY <1>1, <1>3, <2>1 DEF LayoutType
<1>7. Good(d)
  BY <1>1, <1>2, <1>5, <1>6, EdgesAddedGood, ZenonT(60)
<1>. QED  BY <1>7 DEF d

LEMMA AppendEncodingIInv ==
  ASSUME IInv, NEW e \in Encodings, AppendEncoding(e)
  PROVE  IInv'
<1>1. /\ KeysOf(e) # {}
      /\ counted' = counted \cup KeysOf(e) /\ node_offsets' = OffsetsWith(MergedCounts(e))
      /\ ptrs' = PtrsWith(counted \cup KeysOf(e), MergedCounts(e))
      /\ edge_index' = [r \in EdgeTypes |-> edge_index[r] \o ShiftedEdges(e)[r]]
      /\ current_node_counts' = NoNodes /\ current_graph_idx' = current_graph_idx + 1
      /\ encoding' = encoding
  BY DEF AppendEncoding, MayMerge
<1>2. Layout' = Committed(Joined(e))
  BY <1>1 DEF Layout, Committed, Joined, Counted, OffsetsWith, PtrsWith
<1>3. Good(Joined(e)) /\ Joined(e).keys # {}
  BY <1>1, JoinedGood DEF Joined, Counted
<1>4. Good(Layout')
  BY <1>2, <1>3, CommittedGood
<1>. QED  BY <1>1, <1>4 DEF IInv

LEMMA AppendEncodingThrowsIInv ==
  ASSUME IInv, NEW e \in Encodings, AppendEncodingThrows(e)
  PROVE  IInv'
<1>1. /\ counted' = counted \cup KeysOf(e) /\ current_node_counts' = MergedCounts(e)
      /\ UNCHANGED <<node_offsets, ptrs, edge_index, current_graph_idx, encoding>>
  BY DEF AppendEncodingThrows
<1>2. Layout' = Counted(e)
  BY <1>1 DEF Layout, Counted
<1>. QED  BY <1>1, <1>2, CountedGood DEF IInv

LEMMA ClearedGood ==
  ASSUME Cleared
  PROVE  Good(Layout')
<1>. DEFINE d == Layout'
<1>1. /\ d.ptrs = NoPtrs /\ d.offsets = NoNodes /\ d.counts = NoNodes /\ d.keys = {}
      /\ d.edge_index = NoEdges /\ d.num_graphs = 0
  BY DEF Cleared, Layout
<1>. HIDE DEF d
<1>2. Good(d)
  BY <1>1, EmptyGood
<1>. QED  BY <1>2 DEF d

\* build() pads the boundaries of the batch, with the open graph committed if
\* there is one.
BuiltFrom(b) ==
  \/ HasUncommitted /\ counted # {} /\ b = Committed(Layout)
  \/ ~HasUncommitted /\ b = Layout

LEMMA BuildPads ==
  ASSUME IInv, Build
  PROVE  \E b :
           /\ BuiltFrom(b) /\ Good(b) /\ \A t \in NodeTypes : b.counts[t] = 0
           /\ encoding'.ptrs = [t \in NodeTypes |-> LeftPadded(b.ptrs[t], b.num_graphs + 1)]
           /\ encoding'.edge_index = b.edge_index /\ encoding'.num_graphs = b.num_graphs
<1>1. CASE /\ HasUncommitted /\ MayCommit /\ ~CommitThrows(FirstGraph)
           /\ encoding' = Batch(CommittedValues(ToSet(registered), CommitInc),
                                CommittedPtr(ToSet(registered)), CommittedPtrs,
                                GraphCount(CommittedPtrs, counted, current_graph_idx + 1))
  <2>. DEFINE b == Committed(Layout)
  <2>1. /\ b.ptrs = CommittedPtrs /\ b.num_graphs = current_graph_idx + 1
        /\ b.edge_index = edge_index /\ b.counts = NoNodes
    BY CommittedLayout DEF Committed
  <2>2. Good(b)
    BY <1>1, LayoutFacts, CommittedGood DEF IInv, MayCommit
  <2>3. BuiltFrom(b)
    BY <1>1 DEF BuiltFrom, MayCommit
  <2>. HIDE DEF b
  <2>4. GraphCount(b.ptrs, counted, b.num_graphs) = b.num_graphs
    <3>1. current_graph_idx \in Nat
      BY LayoutFacts DEF IInv, Good, LayoutType
    <3>2. b.num_graphs > 0
      BY <2>1, <3>1
    <3>. QED  BY <2>2, <3>2, GraphCountIsRight DEF Good
  <2>5. /\ encoding'.ptrs = [t \in NodeTypes |-> LeftPadded(b.ptrs[t], b.num_graphs + 1)]
        /\ encoding'.edge_index = b.edge_index /\ encoding'.num_graphs = b.num_graphs
    BY <1>1, <2>1, <2>4 DEF Batch
  <2>6. \A t \in NodeTypes : b.counts[t] = 0
    BY <2>1 DEF NoNodes
  <2>. QED  BY <2>2, <2>3, <2>5, <2>6
<1>2. CASE /\ ~HasUncommitted /\ HasTypedGraphs
           /\ encoding' = Batch(values, field_ptr, ptrs,
                                GraphCount(ptrs, counted, current_graph_idx))
  <2>. DEFINE b == Layout
  <2>1. /\ b.ptrs = ptrs /\ b.num_graphs = current_graph_idx /\ b.edge_index = edge_index
        /\ Good(b)
    BY LayoutFacts DEF IInv
  <2>2. \A t \in NodeTypes : b.counts[t] = 0
    <3>1. b.counts = current_node_counts /\ b.counts \in [NodeTypes -> Nat]
      BY LayoutFacts, <2>1 DEF Good, LayoutType
    <3>. HIDE DEF b
    <3>2. \A t \in NodeTypes : ~(b.counts[t] > 0)
      BY <1>2, <3>1 DEF HasUncommitted
    <3>. QED  BY <3>1, <3>2
  <2>3. BuiltFrom(b)
    BY <1>2 DEF BuiltFrom
  <2>. HIDE DEF b
  <2>4. GraphCount(b.ptrs, counted, b.num_graphs) = b.num_graphs
    BY <1>2, <2>1, GraphCountIsRight DEF Good, HasTypedGraphs
  <2>5. /\ encoding'.ptrs = [t \in NodeTypes |-> LeftPadded(b.ptrs[t], b.num_graphs + 1)]
        /\ encoding'.edge_index = b.edge_index /\ encoding'.num_graphs = b.num_graphs
    BY <1>2, <2>1, <2>4 DEF Batch
  <2>. QED  BY <2>1, <2>2, <2>3, <2>5
<1>. QED  BY <1>1, <1>2 DEF Build

LEMMA BuildGood ==
  ASSUME IInv, Build
  PROVE  /\ Good(LayoutOf(encoding'))
         /\ \A t \in KeysOf(encoding') : Len(encoding'.ptrs[t]) = encoding'.num_graphs + 1
<1>. DEFINE e == encoding'
<1>1. PICK b :
        /\ Good(b) /\ \A t \in NodeTypes : b.counts[t] = 0
        /\ e.ptrs = [t \in NodeTypes |-> LeftPadded(b.ptrs[t], b.num_graphs + 1)]
        /\ e.edge_index = b.edge_index /\ e.num_graphs = b.num_graphs
  BY BuildPads
<1>. HIDE DEF e
<1>2. Good(LayoutOf(e)) /\ \A t \in KeysOf(e) : Len(e.ptrs[t]) = e.num_graphs + 1
  BY <1>1, SealedGood
<1>. QED  BY <1>2 DEF e

LEMMA BuildIInv ==
  ASSUME IInv, Build
  PROVE  IInv'
<1>1. Good(Layout')
  BY ClearedGood DEF Build
<1>. QED  BY <1>1, BuildGood DEF IInv

LEMMA LoadIInv ==
  ASSUME IInv, LoadFromEncoding
  PROVE  IInv'
<1>1. Layout' = LayoutOf(encoding)
  BY DEF LoadFromEncoding, Layout, LayoutOf
<1>. QED  BY <1>1 DEF IInv, LoadFromEncoding

LEMMA NextIInv == IInv /\ [Next]_vars => IInv'
<1>. SUFFICES ASSUME IInv, [Next]_vars PROVE IInv'
  OBVIOUS
<1>1. ASSUME NEW t \in NodeTypes, NEW count \in 0..MaxNodes[t], AddNodes(t, count) PROVE IInv'
  BY <1>1, AddNodesIInv
<1>2. ASSUME NEW e \in EdgeTypes, NEW i \in 0..(MaxNodes[SrcOf[e]] - 1),
             NEW j \in 0..(MaxNodes[DstOf[e]] - 1), AddEdge(e, i, j)
      PROVE  IInv'
  BY <1>2, AddEdgeIInv
<1>3. ASSUME UNCHANGED <<graphVars, encoding>> PROVE IInv'
  <2>1. Layout' = Layout /\ encoding' = encoding
    BY <1>3 DEF graphVars, Layout
  <2>. QED  BY <2>1 DEF IInv
<1>4. ASSUME NEW f \in Fields, RegisterGraphField(f) PROVE IInv'
  BY <1>3, <1>4 DEF RegisterGraphField
<1>5. ASSUME NEW f \in Fields, NEW rows \in FieldInputs[f], SetGraphField(f, rows) PROVE IInv'
  BY <1>3, <1>5 DEF SetGraphField
<1>6. CASE NextGraph
  BY <1>6, NextGraphIInv
<1>7. CASE NextGraphThrows
  BY <1>3, <1>7 DEF NextGraphThrows
<1>8. ASSUME NEW e \in Encodings, AppendEncoding(e) PROVE IInv'
  BY <1>8, AppendEncodingIInv
<1>9. ASSUME NEW e \in Encodings, AppendEncodingThrows(e) PROVE IInv'
  BY <1>9, AppendEncodingThrowsIInv
<1>10. CASE Build
  BY <1>10, BuildIInv
<1>11. CASE Reset
  BY <1>11, ClearedGood DEF Reset, IInv
<1>12. CASE LoadFromEncoding
  BY <1>12, LoadIInv
<1>13. CASE UNCHANGED vars
  BY <1>3, <1>13 DEF vars
<1>. QED  BY <1>1, <1>2, <1>4, <1>5, <1>6, <1>7, <1>8, <1>9, <1>10, <1>11, <1>12, <1>13 DEF Next

LEMMA IInvHolds == Spec => []IInv
  BY InitIInv, NextIInv, PTL DEF Spec

-----------------------------------------------------------------------------
(* The batch vectors of the PyG build.                                     *)

\* Boundaries that rise step by step rise over any distance.
LEMMA BoundaryRises ==
  ASSUME NEW ptr \in Seq(Nat), ptr # <<>>, IsBoundary(ptr),
         NEW j \in 1..Len(ptr), NEW k \in 1..Len(ptr), j <= k
  PROVE  ptr[j] <= ptr[k]
<1>. DEFINE Fallen == {i \in 1..Len(ptr) : j <= i /\ ~(ptr[j] <= ptr[i])}
<1>1. Len(ptr) \in Nat /\ \A i \in 1..Len(ptr) : ptr[i] \in Nat
  BY LenProperties
<1>2. SUFFICES ASSUME Fallen # {} PROVE FALSE
  OBVIOUS
<1>3. Fallen \subseteq Nat
  BY <1>1
<1>. HIDE DEF Fallen
<1>4. PICK i \in Fallen : \A l \in Fallen : i <= l
  BY <1>2, <1>3, NatLeast
<1>. USE DEF Fallen
<1>5. i \in 1..Len(ptr) /\ j <= i /\ ~(ptr[j] <= ptr[i]) /\ i # j
  BY <1>1
<1>6. i - 1 \in 1..(Len(ptr) - 1) /\ i - 1 \in 1..Len(ptr) /\ j <= i - 1 /\ (i - 1) + 1 = i
  BY <1>1, <1>5
<1>7. ptr[i - 1] <= ptr[(i - 1) + 1]
  BY <1>6 DEF IsBoundary
<1>8. ptr[j] <= ptr[i - 1]
  <2>1. i - 1 \notin Fallen
    BY <1>4, <1>5, <1>6
  <2>. QED  BY <1>6, <2>1
<1>. QED  BY <1>1, <1>5, <1>6, <1>7, <1>8, SMTT(30)

\* Some graph ends behind each node, and the first that does contains it.
LEMMA NodeHasGraph ==
  ASSUME NEW ptr \in Seq(Nat), ptr # <<>>, IsBoundary(ptr), NEW v \in 1..Last(ptr)
  PROVE  \E k \in 1..(Len(ptr) - 1) : ptr[k] < v /\ v <= ptr[k + 1]
<1>. DEFINE Behind == {i \in 1..Len(ptr) : v <= ptr[i]}
<1>1. /\ Len(ptr) \in Nat /\ Len(ptr) >= 1 /\ \A i \in 1..Len(ptr) : ptr[i] \in Nat
      /\ ptr[1] = 0 /\ v \in Nat /\ v >= 1
  BY EmptySeq, LenProperties DEF IsBoundary, Last
<1>2. Len(ptr) \in Behind
  BY <1>1 DEF Last
<1>3. Behind \subseteq Nat /\ Behind # {}
  BY <1>1, <1>2
<1>. HIDE DEF Behind
<1>4. PICK i \in Behind : \A l \in Behind : i <= l
  BY <1>3, NatLeast
<1>. USE DEF Behind
<1>5. i \in 1..Len(ptr) /\ v <= ptr[i] /\ i # 1
  BY <1>1
<1>6. i - 1 \in 1..(Len(ptr) - 1) /\ i - 1 \in 1..Len(ptr) /\ (i - 1) + 1 = i
  BY <1>1, <1>5
<1>7. ~(v <= ptr[i - 1])
  BY <1>4, <1>5, <1>6
<1>. QED  BY <1>1, <1>5, <1>6, <1>7

\* The batch vector holds every node up to the last boundary, under the graph
\* whose boundaries enclose it.
LEMMA BatchVectorFacts ==
  ASSUME NEW ptr \in Seq(Nat), ptr # <<>>, IsBoundary(ptr)
  PROVE  /\ Len(PygBatchVector(ptr)) = Last(ptr)
         /\ \A v \in 1..Last(ptr) : PygBatchVector(ptr)[v] \in Nat
         /\ \A k \in 1..(Len(ptr) - 1), v \in 1..Last(ptr) :
              ptr[k] < v /\ v <= ptr[k + 1] => PygBatchVector(ptr)[v] = k - 1
<1>. DEFINE Within(k, v) == ptr[k] < v /\ v <= ptr[k + 1]
            place == [v \in 1..Last(ptr) |-> (CHOOSE k \in 1..(Len(ptr) - 1) : Within(k, v)) - 1]
<1>1. /\ Len(ptr) \in Nat /\ Len(ptr) >= 1 /\ \A i \in 1..Len(ptr) : ptr[i] \in Nat
      /\ Last(ptr) \in Nat
  BY EmptySeq, LenProperties DEF Last
<1>2. PygBatchVector(ptr) = place
  BY DEF PygBatchVector
<1>3. ASSUME NEW v \in 1..Last(ptr)
      PROVE  \E k \in 1..(Len(ptr) - 1) : Within(k, v)
  BY NodeHasGraph
<1>4. ASSUME NEW v \in 1..Last(ptr), NEW j \in 1..(Len(ptr) - 1), NEW k \in 1..(Len(ptr) - 1),
             Within(j, v), Within(k, v)
      PROVE  j = k
  <2>1. /\ j \in 1..Len(ptr) /\ j + 1 \in 1..Len(ptr) /\ k \in 1..Len(ptr)
        /\ k + 1 \in 1..Len(ptr)
    BY <1>1
  <2>2. CASE j < k
    <3>1. j + 1 <= k
      BY <1>1, <2>2
    <3>2. ptr[j + 1] <= ptr[k]
      BY <2>1, <3>1, BoundaryRises
    <3>. QED  BY <1>1, <1>4, <2>1, <3>2, SMTT(30)
  <2>3. CASE k < j
    <3>1. k + 1 <= j
      BY <1>1, <2>3
    <3>2. ptr[k + 1] <= ptr[j]
      BY <2>1, <3>1, BoundaryRises
    <3>. QED  BY <1>1, <1>4, <2>1, <3>2, SMTT(30)
  <2>. QED  BY <1>1, <2>1, <2>2, <2>3
<1>. HIDE DEF Within
<1>5. \A v \in 1..Last(ptr) :
        /\ (CHOOSE k \in 1..(Len(ptr) - 1) : Within(k, v)) \in 1..(Len(ptr) - 1)
        /\ Within(CHOOSE k \in 1..(Len(ptr) - 1) : Within(k, v), v)
  BY <1>3
<1>6. \A v \in 1..Last(ptr) : place[v] \in Nat
  BY <1>1, <1>5
<1>7. \A k \in 1..(Len(ptr) - 1), v \in 1..Last(ptr) : Within(k, v) => place[v] = k - 1
  BY <1>4, <1>5
<1>8. DOMAIN place = 1..Last(ptr) /\ place = [v \in 1..Last(ptr) |-> place[v]]
  OBVIOUS
<1>. HIDE DEF place
<1>9. Len(place) = Last(ptr)
  BY <1>1, <1>6, <1>8, IsASeq
<1>. QED  BY <1>2, <1>6, <1>7, <1>9 DEF Within

\* With committed graphs the PyG boundaries are those of build(); a type that
\* has none yet has no batch vector.
LEMMA PygPtrsFacts ==
  ASSUME NEW b, LayoutType(b), WellBounded(b), Spanned(b), b.num_graphs > 0, NEW t \in NodeTypes
  PROVE  PygPtrs(b.ptrs, b.counts)[t] =
           IF b.ptrs[t] = <<>> THEN <<>> ELSE LeftPadded(b.ptrs[t], b.num_graphs + 1)
<1>. DEFINE n == b.num_graphs
            lengths == {Len(b.ptrs[u]) : u \in Bounded(b.ptrs)}
<1>1. n \in Nat
  BY DEF LayoutType
<1>2. ASSUME NEW u \in NodeTypes
      PROVE  /\ Len(b.ptrs[u]) \in Nat
             /\ u \in Bounded(b.ptrs) => b.ptrs[u] # <<>> /\ Len(b.ptrs[u]) <= n + 1
             /\ b.ptrs[u] # <<>> => u \in Bounded(b.ptrs)
  <2>1. b.ptrs[u] \in Seq(Nat)
    BY DEF LayoutType
  <2>2. b.ptrs[u] # <<>> => Len(b.ptrs[u]) \in 2..(n + 1)
    BY DEF WellBounded
  <2>3. b.ptrs[u] = <<>> => Len(b.ptrs[u]) = 0
    BY <2>1, EmptySeq
  <2>. QED  BY <1>1, <2>1, <2>2, <2>3, LenProperties DEF Bounded
<1>3. PICK u \in NodeTypes : Len(b.ptrs[u]) = n + 1
  BY DEF Spanned
<1>4. u \in Bounded(b.ptrs)
  BY <1>1, <1>3 DEF Bounded
<1>5. n + 1 \in lengths /\ \A m \in lengths : m \in Nat /\ m <= n + 1
  BY <1>1, <1>2, <1>3, <1>4 DEF Bounded
<1>6. LongestBoundary(b.ptrs) = CHOOSE i \in lengths : \A m \in lengths : m <= i
  BY DEF LongestBoundary
<1>. HIDE DEF lengths
<1>7. LongestBoundary(b.ptrs) = n + 1
  <2>1. \A i \in lengths : (\A m \in lengths : m <= i) => i = n + 1
    BY <1>1, <1>5
  <2>. QED  BY <1>5, <1>6, <2>1
<1>8. CASE b.ptrs[t] = <<>>
  <2>1. t \notin Bounded(b.ptrs)
    BY <1>2, <1>8
  <2>. QED  BY <1>4, <1>8, <2>1 DEF PygPtrs, UnboundedPtr
<1>9. CASE b.ptrs[t] # <<>>
  <2>1. t \in Bounded(b.ptrs)
    BY <1>2, <1>9
  <2>. QED  BY <1>7, <1>9, <2>1 DEF PygPtrs
<1>. QED  BY <1>8, <1>9

\* With committed graphs, the batch vector of a type has an entry for each
\* committed node of it, the graph the node lies in, and none for others.
LEMMA BatchVectorOfType ==
  ASSUME NEW b, LayoutType(b), WellBounded(b), Spanned(b), b.num_graphs > 0, NEW t \in NodeTypes,
         NEW place, place = PygBatchVector(PygPtrs(b.ptrs, b.counts)[t])
  PROVE  /\ Len(place) = b.offsets[t]
         /\ \A v \in 1..b.offsets[t] : place[v] \in Nat
         /\ \A k \in 1..b.num_graphs, v \in Nat :
              InGraph(b, t, k, v) => v < b.offsets[t] /\ place[v + 1] = k - 1
         /\ \A v \in Nat : InGraph(b, t, b.num_graphs + 1, v) => ~(v < b.offsets[t])
<1>. DEFINE n == b.num_graphs
            ptr == PygPtrs(b.ptrs, b.counts)[t]
<1>1. n \in Nat /\ b.ptrs[t] \in Seq(Nat) /\ b.offsets[t] \in Nat
  BY DEF LayoutType
<1>2. ptr = IF b.ptrs[t] = <<>> THEN <<>> ELSE LeftPadded(b.ptrs[t], n + 1)
  BY PygPtrsFacts
<1>3. \A v \in Nat : InGraph(b, t, n + 1, v) => ~(v < b.offsets[t])
  <2>1. Start(b, t, n + 1) = b.offsets[t]
    BY StartFacts
  <2>. QED  BY <1>1, <2>1 DEF InGraph
<1>. HIDE DEF ptr
<1>4. CASE b.ptrs[t] = <<>>
  <2>1. place = <<>> /\ b.offsets[t] = 0
    BY <1>2, <1>4 DEF PygBatchVector, WellBounded, ptr
  <2>2. \A k \in 1..n, v \in Nat : ~InGraph(b, t, k, v)
    <3>1. \A k \in 1..n : k # n + 2 /\ k + 1 # n + 2
      BY <1>1
    <3>2. \A k \in 1..n : Start(b, t, k) = 0 /\ Start(b, t, k + 1) = 0
      BY <1>4, <3>1 DEF Start
    <3>. QED  BY <3>2 DEF InGraph
  <2>. QED  BY <1>3, <2>1, <2>2
<1>5. CASE b.ptrs[t] # <<>>
  <2>1. /\ IsBoundary(b.ptrs[t]) /\ Len(b.ptrs[t]) \in 2..(n + 1)
        /\ Last(b.ptrs[t]) = b.offsets[t]
    BY <1>5 DEF WellBounded
  <2>2. n + 1 \in Nat /\ Len(b.ptrs[t]) <= n + 1
    BY <1>1, <2>1
  <2>3. /\ ptr \in Seq(Nat) /\ ptr # <<>> /\ Len(ptr) = n + 1 /\ Last(ptr) = b.offsets[t]
        /\ IsBoundary(ptr)
    <3>. DEFINE short == b.ptrs[t]
                m == n + 1
    <3>1. /\ short \in Seq(Nat) /\ short # <<>> /\ m \in Nat /\ Len(short) =< m
          /\ IsBoundary(short) /\ ptr = LeftPadded(short, m)
      BY <1>1, <1>2, <1>5, <2>1, <2>2
    <3>. HIDE DEF short, m
    <3>2. /\ ptr \in Seq(Nat) /\ ptr # <<>> /\ Len(ptr) = m /\ Last(ptr) = Last(short)
      BY <3>1, PaddedEntries
    <3>3. IsBoundary(ptr)
      BY <3>1, PaddedBoundary
    <3>. QED  BY <2>1, <3>2, <3>3 DEF short, m
  <2>4. place = PygBatchVector(ptr)
    BY DEF ptr
  <2>5. /\ Len(place) = Last(ptr)
        /\ \A v \in 1..Last(ptr) : place[v] \in Nat
        /\ \A k \in 1..(Len(ptr) - 1), v \in 1..Last(ptr) :
             ptr[k] < v /\ v <= ptr[k + 1] => place[v] = k - 1
    BY <2>3, <2>4, BatchVectorFacts, ZenonT(30)
  <2>6. ASSUME NEW k \in 1..n, NEW v \in Nat, InGraph(b, t, k, v)
        PROVE  v < b.offsets[t] /\ place[v + 1] = k - 1
    <3>0. n \in Nat /\ k \in 1..n /\ Len(ptr) = n + 1
      BY <1>1, <2>3
    <3>. HIDE DEF n
    <3>1. /\ k \in 1..(Len(ptr) - 1) /\ k \in 1..Len(ptr) /\ k + 1 \in 1..Len(ptr)
          /\ Len(ptr) \in 1..Len(ptr) /\ k + 1 <= Len(ptr)
          /\ k # n + 2 /\ k + 1 # n + 2
      BY <3>0
    <3>2. Start(b, t, k) = ptr[k] /\ Start(b, t, k + 1) = ptr[k + 1]
      BY <1>2, <1>5, <3>1 DEF Start, n
    <3>3. ptr[k] <= v /\ v < ptr[k + 1]
      BY <2>6, <3>2 DEF InGraph
    <3>4. ptr[k + 1] <= ptr[Len(ptr)]
      BY <2>3, <3>1, BoundaryRises
    <3>5. ptr[Len(ptr)] = b.offsets[t]
      BY <2>3 DEF Last
    <3>6. ptr[k] \in Nat /\ ptr[k + 1] \in Nat
      BY <2>3, <3>1
    <3>7. v < b.offsets[t] /\ v + 1 \in 1..b.offsets[t] /\ ptr[k] < v + 1 /\ v + 1 <= ptr[k + 1]
      BY <1>1, <3>3, <3>4, <3>5, <3>6
    <3>. QED  BY <2>3, <2>5, <3>1, <3>7
  <2>. QED  BY <1>3, <2>3, <2>5, <2>6
<1>. QED  BY <1>4, <1>5

\* A builder without committed graphs has no boundaries; its open nodes are
\* all of graph 0.
LEMMA BatchVectorOfOpen ==
  ASSUME NEW b, LayoutType(b), WellBounded(b), b.num_graphs = 0, NEW t \in NodeTypes,
         NEW place, place = PygBatchVector(PygPtrs(b.ptrs, b.counts)[t])
  PROVE  /\ b.offsets[t] = 0 /\ Len(place) = b.counts[t]
         /\ \A v \in 1..b.counts[t] : place[v] = 0
<1>1. \A u \in NodeTypes : b.ptrs[u] = <<>> /\ b.offsets[u] = 0
  <2>1. \A u \in NodeTypes : ~(Len(b.ptrs[u]) \in 2..(b.num_graphs + 1))
    OBVIOUS
  <2>. QED  BY <2>1 DEF WellBounded
<1>2. Bounded(b.ptrs) = {}
  <2>1. \A u \in NodeTypes : Len(b.ptrs[u]) = 0
    BY <1>1
  <2>. QED  BY <2>1 DEF Bounded
<1>3. b.counts[t] \in Nat
  BY DEF LayoutType
<1>4. PygPtrs(b.ptrs, b.counts)[t] = IF b.counts[t] > 0 THEN <<0, b.counts[t]>> ELSE <<>>
  BY <1>2 DEF PygPtrs, UnboundedPtr
<1>5. CASE b.counts[t] > 0
  <2>. DEFINE c == b.counts[t]
              ptr == <<0, c>>
  <2>1. /\ ptr \in Seq(Nat) /\ ptr # <<>> /\ Len(ptr) = 2 /\ Last(ptr) = c
        /\ ptr[1] = 0 /\ ptr[2] = c
    BY <1>3 DEF Last
  <2>2. place = PygBatchVector(ptr)
    BY <1>4, <1>5
  <2>. HIDE DEF ptr
  <2>3. IsBoundary(ptr)
    BY <1>3, <2>1 DEF IsBoundary
  <2>4. /\ Len(place) = Last(ptr)
        /\ \A k \in 1..(Len(ptr) - 1), v \in 1..Last(ptr) :
             ptr[k] < v /\ v <= ptr[k + 1] => place[v] = k - 1
    BY <2>1, <2>2, <2>3, BatchVectorFacts, SMTT(30)
  <2>5. ASSUME NEW v \in 1..c
        PROVE  place[v] = 0
    <3>1. 1 \in 1..(Len(ptr) - 1) /\ v \in 1..Last(ptr) /\ ptr[1] < v /\ v <= ptr[1 + 1]
      BY <1>3, <2>1
    <3>2. place[v] = 1 - 1
      BY <2>4, <3>1
    <3>. QED  BY <3>2
  <2>. QED  BY <1>1, <2>1, <2>4, <2>5
<1>6. CASE ~(b.counts[t] > 0)
  <2>1. b.counts[t] = 0
    BY <1>3, <1>6
  <2>2. place = <<>>
    BY <1>4, <1>6 DEF PygBatchVector
  <2>. QED  BY <1>1, <2>1, <2>2
<1>. QED  BY <1>5, <1>6

\* The PyG build of any well-laid-out batch keeps its graphs.
LEMMA GoodKeepsGraphs ==
  ASSUME NEW b, Good(b)
  PROVE  PygKeepsGraphs(b)
<1>. DEFINE n == b.num_graphs
            place(t) == PygBatchVector(PygPtrs(b.ptrs, b.counts)[t])
            held(t) == 0..(b.offsets[t] + b.counts[t] - 1)
            put(t, v) == IF v < Len(place(t)) THEN place(t)[v + 1] ELSE NoGraph
            places == PygPlaces(b)
<1>1. n \in Nat /\ LayoutType(b) /\ WellBounded(b) /\ Spanned(b) /\ EdgesWithinGraphs(b)
  BY DEF Good, LayoutType
<1>2. ASSUME NEW t \in NodeTypes
      PROVE  b.offsets[t] \in Nat /\ b.counts[t] \in Nat
  BY <1>1 DEF LayoutType
<1>3. places = [t \in NodeTypes |-> [v \in held(t) |-> put(t, v)]]
  BY DEF PygPlaces
<1>. HIDE DEF place, places
<1>4. \A t \in NodeTypes : DOMAIN places[t] = held(t)
  BY <1>3
<1>5. \A t \in NodeTypes : \A v \in held(t) : places[t][v] = put(t, v)
  BY <1>3
<1>6. ASSUME n > 0, NEW t \in NodeTypes
      PROVE  /\ Len(place(t)) = b.offsets[t]
             /\ \A v \in 1..b.offsets[t] : place(t)[v] \in Nat
             /\ \A k \in 1..n, v \in Nat :
                  InGraph(b, t, k, v) => v < b.offsets[t] /\ place(t)[v + 1] = k - 1
             /\ \A v \in Nat : InGraph(b, t, n + 1, v) => ~(v < b.offsets[t])
  BY <1>1, <1>6, BatchVectorOfType DEF place
<1>7. ASSUME n = 0, NEW t \in NodeTypes
      PROVE  /\ b.offsets[t] = 0 /\ Len(place(t)) = b.counts[t]
             /\ \A v \in 1..b.counts[t] : place(t)[v] = 0
  BY <1>1, <1>7, BatchVectorOfOpen DEF place
<1>8. ASSUME NEW t \in NodeTypes, NEW k \in 1..(n + 1), NEW v \in Nat, InGraph(b, t, k, v)
      PROVE  v \in held(t) /\ put(t, v) = IF n = 0 THEN 0 ELSE IF k = n + 1 THEN NoGraph ELSE k - 1
  <2>1. CASE n = 0
    <3>1. k = n + 1 /\ k + 1 = n + 2
      BY <2>1
    <3>2. v < b.offsets[t] + b.counts[t]
      BY <1>1, <1>8, <3>1, StartFacts DEF InGraph
    <3>3. v \in held(t) /\ v < b.counts[t] /\ v + 1 \in 1..b.counts[t]
      BY <1>2, <1>7, <2>1, <3>2
    <3>. QED  BY <1>7, <2>1, <3>3
  <2>2. CASE n > 0 /\ k = n + 1
    <3>1. k + 1 = n + 2
      BY <1>1, <2>2
    <3>2. v < b.offsets[t] + b.counts[t]
      BY <1>1, <1>8, <3>1, StartFacts DEF InGraph
    <3>3. v \in held(t) /\ n # 0
      BY <1>2, <2>2, <3>2
    <3>4. ~(v < Len(place(t)))
      BY <1>6, <1>8, <2>2
    <3>. QED  BY <2>2, <3>3, <3>4
  <2>3. CASE k # n + 1
    <3>1. k \in 1..n /\ n > 0 /\ n # 0
      BY <1>1, <2>3
    <3>2. v < b.offsets[t] /\ place(t)[v + 1] = k - 1 /\ Len(place(t)) = b.offsets[t]
      BY <1>6, <1>8, <3>1
    <3>3. v \in held(t)
      BY <1>2, <3>2
    <3>. QED  BY <2>3, <3>1, <3>2, <3>3
  <2>. QED  BY <1>1, <2>1, <2>2, <2>3
<1>9. ASSUME NEW r \in EdgeTypes, NEW i \in DOMAIN b.edge_index[r]
      PROVE  places[SrcOf[r]][b.edge_index[r][i][1]] = places[DstOf[r]][b.edge_index[r][i][2]]
  <2>. DEFINE s == b.edge_index[r][i][1]
              d == b.edge_index[r][i][2]
  <2>1. PICK k \in 1..(n + 1) : InGraph(b, SrcOf[r], k, s) /\ InGraph(b, DstOf[r], k, d)
    BY <1>1 DEF EdgesWithinGraphs
  <2>2. b.edge_index[r][i] \in Edge
    BY <1>1 DEF LayoutType
  <2>3. s \in Nat /\ d \in Nat
    BY <2>2 DEF Edge
  <2>4. SrcOf[r] \in NodeTypes /\ DstOf[r] \in NodeTypes
    BY EdgeEnds
  <2>. HIDE DEF s, d, put, held
  <2>5. /\ s \in held(SrcOf[r]) /\ d \in held(DstOf[r])
        /\ put(SrcOf[r], s) = put(DstOf[r], d)
    BY <1>8, <2>1, <2>3, <2>4
  <2>6. places[SrcOf[r]][s] = places[DstOf[r]][d]
    BY <1>5, <2>4, <2>5
  <2>. QED  BY <2>6 DEF s, d
<1>10. ASSUME NEW t \in NodeTypes, NEW v \in DOMAIN places[t]
       PROVE  places[t][v] # NoGraph <=> v < b.offsets[t] \/ n = 0
  <2>1. v \in held(t) /\ places[t][v] = put(t, v)
    BY <1>4, <1>5
  <2>2. v \in Nat
    BY <1>2, <2>1
  <2>3. CASE n = 0
    <3>1. v < b.counts[t] /\ v + 1 \in 1..b.counts[t]
      BY <1>2, <1>7, <2>1, <2>3
    <3>2. put(t, v) = 0
      BY <1>7, <2>3, <3>1
    <3>. QED  BY <2>1, <2>3, <3>2 DEF NoGraph
  <2>4. CASE n > 0 /\ v < b.offsets[t]
    <3>1. v + 1 \in 1..b.offsets[t]
      BY <1>2, <2>2, <2>4
    <3>2. put(t, v) \in Nat
      BY <1>6, <2>4, <3>1
    <3>. QED  BY <2>1, <2>4, <3>2 DEF NoGraph
  <2>5. CASE n > 0 /\ ~(v < b.offsets[t])
    <3>1. put(t, v) = NoGraph /\ n # 0
      BY <1>6, <2>5
    <3>. QED  BY <2>1, <2>5, <3>1
  <2>. QED  BY <1>1, <2>3, <2>4, <2>5
<1>. QED  BY <1>9, <1>10 DEF PygKeepsGraphs, places

-----------------------------------------------------------------------------
(* Cutting a batch back into its graphs.                                   *)

\* Graph k of a layout, in indices of its own.  The open graph is the last.
GraphIn(b, k) ==
  [nodes |-> [t \in NodeTypes |-> Start(b, t, k + 1) - Start(b, t, k)],
   edges |-> [r \in EdgeTypes |->
     LocalEdges(b.edge_index[r], Start(b, SrcOf[r], k), Start(b, SrcOf[r], k + 1),
                Start(b, DstOf[r], k))],
   vals  |-> NoRows]

\* Graphs lie one behind the other.
LEMMA StartRises ==
  ASSUME NEW b, Good(b), NEW t \in NodeTypes,
         NEW j \in 1..(b.num_graphs + 2), NEW k \in 1..(b.num_graphs + 2), j <= k
  PROVE  Start(b, t, j) <= Start(b, t, k)
<1>. DEFINE n == b.num_graphs
<1>1. /\ n \in Nat /\ LayoutType(b) /\ WellBounded(b)
      /\ b.ptrs[t] \in Seq(Nat) /\ b.offsets[t] \in Nat /\ b.counts[t] \in Nat
  BY DEF Good, LayoutType
<1>2. ASSUME NEW i \in 1..(n + 1), NEW l \in 1..(n + 1), i <= l
      PROVE  Start(b, t, i) <= Start(b, t, l)
  <2>1. i # n + 2 /\ l # n + 2
    BY <1>1
  <2>2. CASE b.ptrs[t] = <<>>
    BY <2>1, <2>2 DEF Start
  <2>3. CASE b.ptrs[t] # <<>>
    <3>. DEFINE ptr == b.ptrs[t]
                m == n + 1
                padded == LeftPadded(ptr, m)
    <3>1. ptr \in Seq(Nat) /\ ptr # <<>> /\ IsBoundary(ptr) /\ m \in Nat /\ Len(ptr) =< m
      BY <1>1, <2>3, SMTT(30) DEF WellBounded
    <3>2. Start(b, t, i) = padded[i] /\ Start(b, t, l) = padded[l]
      BY <2>1, <2>3 DEF Start
    <3>3. i \in 1..m /\ l \in 1..m
      OBVIOUS
    <3>. HIDE DEF padded, ptr, m
    <3>4. padded \in Seq(Nat) /\ padded # <<>> /\ Len(padded) = m /\ IsBoundary(padded)
      BY <3>1, PaddedEntries, PaddedBoundary DEF padded
    <3>5. padded[i] <= padded[l]
      BY <1>2, <3>3, <3>4, BoundaryRises
    <3>. QED  BY <3>2, <3>5
  <2>. QED  BY <2>2, <2>3
<1>3. Start(b, t, n + 1) = b.offsets[t] /\ Start(b, t, n + 2) = b.offsets[t] + b.counts[t]
  BY <1>1, StartFacts
<1>4. CASE k # n + 2
  <2>1. j \in 1..(n + 1) /\ k \in 1..(n + 1)
    BY <1>1, <1>4, SMTT(30)
  <2>. QED  BY <1>2, <2>1
<1>5. CASE k = n + 2 /\ j # n + 2
  <2>1. j \in 1..(n + 1) /\ n + 1 \in 1..(n + 1) /\ j <= n + 1
    BY <1>1, <1>5
  <2>2. Start(b, t, j) <= b.offsets[t]
    BY <1>2, <1>3, <2>1
  <2>3. Start(b, t, j) \in Nat
    BY <1>1, StartFacts
  <2>. QED  BY <1>1, <1>3, <1>5, <2>2, <2>3
<1>6. CASE k = n + 2 /\ j = n + 2
  BY <1>1, <1>3, <1>6
<1>. QED  BY <1>4, <1>5, <1>6

\* What build() writes down cuts into the graphs of the layout.
LEMMA CutShapes ==
  ASSUME NEW b, Good(b), NEW e, e.num_graphs = b.num_graphs, e.edge_index = b.edge_index,
         \A t \in NodeTypes : e.ptrs[t] = LeftPadded(b.ptrs[t], b.num_graphs + 1)
  PROVE  [k \in 1..e.num_graphs |-> ShapeOf(e, k)] = [k \in 1..b.num_graphs |-> GraphIn(b, k)]
<1>. DEFINE n == b.num_graphs
<1>1. n \in Nat /\ LayoutType(b) /\ WellBounded(b)
  BY DEF Good, LayoutType
<1>2. ASSUME NEW t \in NodeTypes, NEW j \in 1..(n + 1)
      PROVE  CutAt(e, t)[j] = Start(b, t, j)
  <2>1. j # n + 2
    BY <1>1
  <2>2. CASE b.ptrs[t] = <<>>
    <3>1. e.ptrs[t] = <<>>
      BY <2>2 DEF LeftPadded
    <3>2. CutAt(e, t)[j] = 0
      BY <3>1 DEF CutAt
    <3>. QED  BY <2>1, <2>2, <3>2 DEF Start
  <2>3. CASE b.ptrs[t] # <<>>
    <3>. DEFINE ptr == b.ptrs[t]
                m == n + 1
    <3>1. ptr \in Seq(Nat) /\ ptr # <<>> /\ m \in Nat /\ Len(ptr) =< m
      BY <1>1, <2>3 DEF WellBounded, LayoutType
    <3>2. e.ptrs[t] = LeftPadded(ptr, m)
      OBVIOUS
    <3>. HIDE DEF ptr, m
    <3>3. e.ptrs[t] # <<>>
      BY <3>1, <3>2, PaddedEntries
    <3>. USE DEF ptr, m
    <3>4. CutAt(e, t)[j] = LeftPadded(b.ptrs[t], n + 1)[j]
      BY <3>2, <3>3 DEF CutAt
    <3>. QED  BY <2>1, <2>3, <3>4 DEF Start
  <2>. QED  BY <2>2, <2>3
<1>3. ASSUME NEW k \in 1..n
      PROVE  ShapeOf(e, k) = GraphIn(b, k)
  <2>1. k \in 1..(n + 1) /\ k + 1 \in 1..(n + 1)
    BY <1>1
  <2>2. \A t \in NodeTypes : CutAt(e, t)[k] = Start(b, t, k) /\ CutAt(e, t)[k + 1] = Start(b, t, k + 1)
    BY <1>2, <2>1
  <2>3. \A r \in EdgeTypes : SrcOf[r] \in NodeTypes /\ DstOf[r] \in NodeTypes
    BY EdgeEnds
  <2>. QED  BY <2>2, <2>3 DEF ShapeOf, GraphIn
<1>. QED  BY <1>3

\* Graphs keep their cuts when the batch grows behind them.
LEMMA CutsKept ==
  ASSUME NEW b, Good(b), NEW d,
         \A t \in NodeTypes : \A k \in 1..(b.num_graphs + 1) : Start(d, t, k) = Start(b, t, k),
         \A r \in EdgeTypes :
           /\ DOMAIN b.edge_index[r] \subseteq DOMAIN d.edge_index[r]
           /\ \A i \in DOMAIN b.edge_index[r] : d.edge_index[r][i] = b.edge_index[r][i]
           /\ \A i \in DOMAIN d.edge_index[r] : i \notin DOMAIN b.edge_index[r] =>
                d.edge_index[r][i][1] \in Nat /\ b.offsets[SrcOf[r]] <= d.edge_index[r][i][1],
         NEW k \in 1..b.num_graphs
  PROVE  GraphIn(d, k) = GraphIn(b, k)
<1>. DEFINE n == b.num_graphs
<1>1. n \in Nat /\ LayoutType(b) /\ WellBounded(b)
  BY DEF Good, LayoutType
<1>2. /\ k \in 1..(n + 1) /\ k + 1 \in 1..(n + 1) /\ k + 1 \in 1..(n + 2) /\ n + 1 \in 1..(n + 2)
      /\ k + 1 <= n + 1
  BY <1>1
<1>3. \A t \in NodeTypes : Start(d, t, k) = Start(b, t, k) /\ Start(d, t, k + 1) = Start(b, t, k + 1)
  BY <1>2
<1>4. ASSUME NEW r \in EdgeTypes
      PROVE  LocalEdges(d.edge_index[r], Start(b, SrcOf[r], k), Start(b, SrcOf[r], k + 1), Start(b, DstOf[r], k))
           = LocalEdges(b.edge_index[r], Start(b, SrcOf[r], k), Start(b, SrcOf[r], k + 1), Start(b, DstOf[r], k))
  <2>. DEFINE lo == Start(b, SrcOf[r], k)
              hi == Start(b, SrcOf[r], k + 1)
              old == b.edge_index[r]
              new == d.edge_index[r]
  <2>1. SrcOf[r] \in NodeTypes
    BY EdgeEnds
  <2>2. hi \in Nat /\ b.offsets[SrcOf[r]] \in Nat
    BY <1>1, <1>2, <2>1, StartFacts DEF LayoutType
  <2>3. hi <= b.offsets[SrcOf[r]]
    <3>1. Start(b, SrcOf[r], k + 1) <= Start(b, SrcOf[r], n + 1)
      BY <1>2, <2>1, StartRises
    <3>. QED  BY <1>1, <2>1, <3>1, StartFacts
  <2>. HIDE DEF lo, hi
  <2>4. {j \in DOMAIN new : lo <= new[j][1] /\ new[j][1] < hi}
          = {j \in DOMAIN old : lo <= old[j][1] /\ old[j][1] < hi}
    <3>1. ASSUME NEW j \in DOMAIN new, j \notin DOMAIN old
          PROVE  ~(new[j][1] < hi)
      BY <2>2, <2>3, <3>1
    <3>. QED  BY <3>1
  <2>. QED  BY <2>4 DEF LocalEdges, Relocated, lo, hi
<1>. QED  BY <1>3, <1>4, EdgeEnds DEF GraphIn


\* The edges of a range, as numbers into their columns.
LEMMA EdgesOfRange ==
  ASSUME NEW cols \in Seq(Edge), NEW lo \in Int, NEW hi \in Int, NEW dst \in Int
  PROVE  /\ IsFiniteSet(DOMAIN Relocated(cols, lo, hi, dst))
         /\ DOMAIN Relocated(cols, lo, hi, dst) \in SUBSET Nat
         /\ Relocated(cols, lo, hi, dst) \in [DOMAIN Relocated(cols, lo, hi, dst) -> Int \X Int]
         /\ LocalEdges(cols, lo, hi, dst) \in Seq(Int \X Int)
<1>. DEFINE f == Relocated(cols, lo, hi, dst)
            within == {j \in DOMAIN cols : lo <= cols[j][1] /\ cols[j][1] < hi}
<1>1. Len(cols) \in Nat /\ DOMAIN cols = 1..Len(cols) /\ \A i \in DOMAIN cols : cols[i] \in Edge
  BY LenProperties
<1>2. IsFiniteSet(1..Len(cols))
  <2>1. 1 \in Int /\ Len(cols) \in Int
    BY <1>1
  <2>. QED  BY <2>1, FS_Interval
<1>3. IsFiniteSet(within) /\ within \in SUBSET Nat /\ within \in SUBSET DOMAIN cols
  BY <1>1, <1>2, FS_Subset
<1>4. \A i \in within : <<cols[i][1] - lo, cols[i][2] - dst>> \in Int \X Int
  BY <1>1, <1>3, SMTT(30) DEF Edge
<1>5. f = [i \in within |-> <<cols[i][1] - lo, cols[i][2] - dst>>]
  BY DEF Relocated
<1>6. f \in [within -> Int \X Int] /\ DOMAIN f = within
  BY <1>4, <1>5
<1>. HIDE DEF f, within
<1>7. InOrder(f) \in Seq(Int \X Int)
  BY <1>3, <1>6, InOrderType
<1>. QED  BY <1>3, <1>6, <1>7 DEF f, LocalEdges

\* A new edge comes last in its graph.
LEMMA LocalEdgesAppend ==
  ASSUME NEW cols \in Seq(Edge), NEW edge \in Edge, NEW lo \in Int, NEW hi \in Int, NEW dst \in Int,
         lo <= edge[1], edge[1] < hi
  PROVE  LocalEdges(Append(cols, edge), lo, hi, dst)
           = Append(LocalEdges(cols, lo, hi, dst), <<edge[1] - lo, edge[2] - dst>>)
<1>. DEFINE more == Append(cols, edge)
            x == Len(cols) + 1
            f == Relocated(cols, lo, hi, dst)
            g == Relocated(more, lo, hi, dst)
<1>1. Len(cols) \in Nat /\ DOMAIN cols = 1..Len(cols) /\ x \in Nat
  BY LenProperties
<1>2. /\ more \in Seq(Edge) /\ DOMAIN more = 1..x /\ more[x] = edge
      /\ \A i \in 1..Len(cols) : more[i] = cols[i]
  BY <1>1, AppendProperties, LenProperties
<1>. HIDE DEF more
<1>3. /\ DOMAIN f = {j \in DOMAIN cols : lo <= cols[j][1] /\ cols[j][1] < hi}
      /\ DOMAIN g = {j \in DOMAIN more : lo <= more[j][1] /\ more[j][1] < hi}
      /\ \A i \in DOMAIN f : f[i] = <<cols[i][1] - lo, cols[i][2] - dst>>
      /\ \A i \in DOMAIN g : g[i] = <<more[i][1] - lo, more[i][2] - dst>>
  BY DEF Relocated
<1>4. IsFiniteSet(DOMAIN f) /\ DOMAIN f \in SUBSET Nat /\ f \in [DOMAIN f -> Int \X Int]
  BY EdgesOfRange
<1>5. LocalEdges(cols, lo, hi, dst) = InOrder(f) /\ LocalEdges(more, lo, hi, dst) = InOrder(g)
  BY DEF LocalEdges
<1>. HIDE DEF f, g
<1>6. DOMAIN g = DOMAIN f \cup {x}
  <2>1. \A j \in 1..x : j \in 1..Len(cols) \/ j = x
    BY <1>1
  <2>2. 1..Len(cols) \subseteq 1..x /\ x \in 1..x
    BY <1>1
  <2>. QED  BY <1>1, <1>2, <1>3, <2>1, <2>2
<1>7. ASSUME NEW i \in DOMAIN f
      PROVE  i < x /\ g[i] = f[i]
  <2>1. i \in DOMAIN cols
    BY <1>3
  <2>2. i \in DOMAIN g
    BY <1>6
  <2>3. more[i] = cols[i] /\ i < x
    BY <1>1, <1>2, <2>1
  <2>4. g[i] = <<more[i][1] - lo, more[i][2] - dst>> /\ f[i] = <<cols[i][1] - lo, cols[i][2] - dst>>
    BY <1>3, <2>2
  <2>. QED  BY <2>3, <2>4
<1>8. g[x] = <<edge[1] - lo, edge[2] - dst>>
  BY <1>2, <1>3, <1>6
<1>9. InOrder(g) = Append(InOrder(f), g[x])
  <2>. DEFINE S == Int \X Int
  <2>1. x \in Nat /\ IsFiniteSet(DOMAIN f) /\ DOMAIN f \in SUBSET Nat /\ f \in [DOMAIN f -> S]
    BY <1>1, <1>4
  <2>2. \A id \in DOMAIN f : id < x
    BY <1>7
  <2>3. DOMAIN g = DOMAIN f \cup {x} /\ \A id \in DOMAIN f : g[id] = f[id]
    BY <1>6, <1>7
  <2>. HIDE DEF x, S
  <2>. QED  BY <2>1, <2>2, <2>3, InOrderAppend, ZenonT(60)
<1>. QED  BY <1>5, <1>8, <1>9 DEF more

\* Edges by the nodes of a graph that starts at lo and dst.
Moved(new, lo, dst) == [i \in 1..Len(new) |-> <<new[i][1] - lo, new[i][2] - dst>>]

AllStartIn(cols, lo, hi) == \A i \in DOMAIN cols : lo <= cols[i][1] /\ cols[i][1] < hi
NoneStartsIn(cols, lo, hi) == \A i \in DOMAIN cols : ~(lo <= cols[i][1] /\ cols[i][1] < hi)

\* Edges that join a batch with none in their range come out as they are.
LEMMA LocalEdgesJoined ==
  ASSUME NEW cols \in Seq(Edge), NEW new \in Seq(Edge), NEW lo \in Int, NEW hi \in Int, NEW dst \in Int,
         NoneStartsIn(cols, lo, hi), AllStartIn(new, lo, hi)
  PROVE  LocalEdges(cols \o new, lo, hi, dst) = Moved(new, lo, dst)
<1>. DEFINE all == cols \o new
            low == Len(cols)
            m == Len(new)
            within == {j \in DOMAIN all : lo <= all[j][1] /\ all[j][1] < hi}
            f == Relocated(all, lo, hi, dst)
<1>1. /\ low \in Nat /\ m \in Nat /\ DOMAIN cols = 1..low /\ DOMAIN new = 1..m
  BY LenProperties
<1>2. /\ all \in Seq(Edge) /\ Len(all) = low + m
      /\ \A i \in 1..Len(all) : all[i] = IF i =< low THEN cols[i] ELSE new[i - low]
  BY ConcatProperties
<1>3. DOMAIN all = 1..(low + m)
  BY <1>2, LenProperties
<1>. HIDE DEF all, low, m
<1>4. within = (low + 1)..(low + m)
  <2>1. ASSUME NEW i \in 1..low
        PROVE  i \in 1..(low + m) /\ ~(lo <= all[i][1] /\ all[i][1] < hi)
    <3>1. i \in 1..(low + m) /\ i =< low
      BY <1>1
    <3>. QED  BY <1>1, <1>2, <3>1 DEF NoneStartsIn
  <2>2. ASSUME NEW i \in (low + 1)..(low + m)
        PROVE  i \in 1..(low + m) /\ lo <= all[i][1] /\ all[i][1] < hi
    <3>1. i \in 1..(low + m) /\ ~(i =< low) /\ i - low \in 1..m
      BY <1>1
    <3>2. all[i] = new[i - low]
      BY <1>2, <3>1
    <3>. QED  BY <1>1, <3>1, <3>2 DEF AllStartIn
  <2>3. \A i \in 1..(low + m) : i \in 1..low \/ i \in (low + 1)..(low + m)
    BY <1>1
  <2>. QED  BY <1>3, <2>1, <2>2, <2>3
<1>5. /\ LocalEdges(all, lo, hi, dst) = InOrder(f) /\ DOMAIN f = within
      /\ \A i \in within : f[i] = <<all[i][1] - lo, all[i][2] - dst>>
  BY DEF LocalEdges, Relocated
<1>. HIDE DEF f
<1>6. ASSUME NEW i \in 1..m
      PROVE  f[low + i] = <<new[i][1] - lo, new[i][2] - dst>>
  <2>1. low + i \in within /\ low + i \in 1..(low + m) /\ ~(low + i =< low) /\ (low + i) - low = i
    BY <1>1, <1>4
  <2>2. all[low + i] = new[i]
    BY <1>2, <2>1
  <2>. QED  BY <1>5, <2>1, <2>2
<1>. HIDE DEF within
<1>7. InOrder(f) = [k \in 1..m |-> f[low + k]]
  BY <1>1, <1>4, <1>5, InOrderBlock
<1>. QED  BY <1>5, <1>6, <1>7 DEF all, m, Moved


GraphsIn(b) == [k \in 1..b.num_graphs |-> GraphIn(b, k)]

LEMMA AppendIsFunction ==
  ASSUME NEW S, NEW s \in Seq(S), NEW x \in S
  PROVE  Append(s, x) = [k \in 1..(Len(s) + 1) |-> IF k <= Len(s) THEN s[k] ELSE x]
<1>. DEFINE longer == Append(s, x)
            n == Len(s)
<1>1. /\ longer \in Seq(S) /\ Len(longer) = n + 1
      /\ \A k \in 1..n : longer[k] = s[k]
      /\ longer[n + 1] = x
  BY AppendProperties
<1>2. n \in Nat /\ longer = [k \in 1..(n + 1) |-> longer[k]]
  BY <1>1, LenProperties
<1>. HIDE DEF longer, n
<1>3. ASSUME NEW k \in 1..(n + 1)
      PROVE  longer[k] = IF k <= n THEN s[k] ELSE x
  <2>1. (k \in 1..n /\ k <= n) \/ (k = n + 1 /\ ~(k <= n))
    BY <1>2
  <2>. QED  BY <1>1, <2>1
<1>4. longer = [k \in 1..(n + 1) |-> IF k <= n THEN s[k] ELSE x]
  BY <1>2, <1>3
<1>. QED  BY <1>4 DEF longer, n

\* Committing appends the open graph as it was, and touches no other.
LEMMA CommitAppends ==
  ASSUME NEW b, Good(b), b.keys # {}
  PROVE  GraphsIn(Committed(b)) = Append(GraphsIn(b), GraphIn(b, b.num_graphs + 1))
<1>. DEFINE n == b.num_graphs
            d == Committed(b)
            old == GraphsIn(b)
            last == GraphIn(b, n + 1)
<1>1. n \in Nat
  BY DEF Good, LayoutType
<1>2. \A t \in NodeTypes : \A k \in 1..(n + 2) : Start(d, t, k) = Start(b, t, k)
  BY CommittedGood
<1>3. d.edge_index = b.edge_index /\ d.num_graphs = n + 1
  BY DEF Committed
<1>. HIDE DEF d
<1>4. ASSUME NEW k \in 1..(n + 1)
      PROVE  GraphIn(d, k) = GraphIn(b, k)
  <2>1. k \in 1..(n + 2) /\ k + 1 \in 1..(n + 2)
    BY <1>1
  <2>. QED  BY <1>2, <1>3, <2>1, EdgeEnds DEF GraphIn
<1>5. old = [k \in 1..n |-> GraphIn(b, k)] /\ GraphsIn(d) = [k \in 1..(n + 1) |-> GraphIn(d, k)]
  BY <1>3 DEF GraphsIn
<1>. DEFINE S == {GraphIn(b, k) : k \in 1..(n + 1)}
<1>6. Len(old) = n /\ old \in Seq(S) /\ last \in S
  <2>1. \A k \in 1..n : GraphIn(b, k) \in S
    BY <1>1
  <2>2. last \in S
    BY <1>1
  <2>. HIDE DEF S, last, n, old
  <2>. QED  BY <1>1, <1>5, <2>1, <2>2, IsASeq
<1>. HIDE DEF old, last, n, S
<1>7. Append(old, last) = [k \in 1..(n + 1) |-> IF k <= n THEN old[k] ELSE last]
  BY <1>1, <1>6, AppendIsFunction
<1>8. ASSUME NEW k \in 1..(n + 1)
      PROVE  GraphIn(d, k) = IF k <= n THEN old[k] ELSE last
  <2>1. CASE k <= n
    <3>1. k \in 1..n
      BY <1>1, <2>1
    <3>. QED  BY <1>4, <1>5, <2>1, <3>1
  <2>2. CASE ~(k <= n)
    <3>1. k = n + 1
      BY <1>1, <2>2
    <3>. QED  BY <1>4, <2>2, <3>1 DEF last
  <2>. QED  BY <2>1, <2>2
<1>9. GraphsIn(d) = Append(old, last)
  BY <1>5, <1>7, <1>8
<1>. QED  BY <1>9 DEF d, old, last, n

\* The open graph of the builder, before its fields are added.
LEMMA OpenCut ==
  ASSUME IInv
  PROVE  /\ GraphIn(Layout, current_graph_idx + 1) = [OpenShape EXCEPT !.vals = NoRows]
         /\ OpenShape.nodes \in [NodeTypes -> Nat]
         /\ OpenShape.edges \in [EdgeTypes -> Seq(Int \X Int)]
<1>. DEFINE n == current_graph_idx
<1>1. LayoutType(Layout) /\ WellBounded(Layout)
  BY DEF IInv, Good
<1>2. /\ n \in Nat /\ current_node_counts \in [NodeTypes -> Nat]
      /\ node_offsets \in [NodeTypes -> Nat] /\ edge_index \in [EdgeTypes -> Seq(Edge)]
  BY <1>1, LayoutFacts DEF LayoutType
<1>3. \A t \in NodeTypes : /\ Start(Layout, t, n + 1) = node_offsets[t]
                           /\ Start(Layout, t, n + 2) = node_offsets[t] + current_node_counts[t]
  BY <1>1, LayoutFacts, StartFacts
<1>4. (n + 1) + 1 = n + 2
  BY <1>2
<1>5. [t \in NodeTypes |-> Start(Layout, t, (n + 1) + 1) - Start(Layout, t, n + 1)]
        = current_node_counts
  <2>1. ASSUME NEW t \in NodeTypes
        PROVE  Start(Layout, t, (n + 1) + 1) - Start(Layout, t, n + 1) = current_node_counts[t]
    <3>1. node_offsets[t] \in Nat /\ current_node_counts[t] \in Nat
      BY <1>2
    <3>2. (node_offsets[t] + current_node_counts[t]) - node_offsets[t] = current_node_counts[t]
      BY <3>1
    <3>. QED  BY <1>3, <1>4, <3>2
  <2>. QED  BY <1>2, <2>1
<1>6. ASSUME NEW r \in EdgeTypes
      PROVE  /\ LocalEdges(Layout.edge_index[r], Start(Layout, SrcOf[r], n + 1),
                           Start(Layout, SrcOf[r], (n + 1) + 1), Start(Layout, DstOf[r], n + 1))
                  = OpenShape.edges[r]
             /\ OpenShape.edges[r] \in Seq(Int \X Int)
  <2>1. SrcOf[r] \in NodeTypes /\ DstOf[r] \in NodeTypes
    BY EdgeEnds
  <2>2. OpenShape.edges[r] =
          LocalEdges(edge_index[r], node_offsets[SrcOf[r]],
                     node_offsets[SrcOf[r]] + current_node_counts[SrcOf[r]], node_offsets[DstOf[r]])
    BY DEF OpenShape
  <2>3. /\ edge_index[r] \in Seq(Edge) /\ node_offsets[SrcOf[r]] \in Int
        /\ node_offsets[SrcOf[r]] + current_node_counts[SrcOf[r]] \in Int
        /\ node_offsets[DstOf[r]] \in Int
    BY <1>2, <2>1
  <2>4. OpenShape.edges[r] \in Seq(Int \X Int)
    <3>. DEFINE cols == edge_index[r]
                lo == node_offsets[SrcOf[r]]
                hi == node_offsets[SrcOf[r]] + current_node_counts[SrcOf[r]]
                dst == node_offsets[DstOf[r]]
    <3>1. cols \in Seq(Edge) /\ lo \in Int /\ hi \in Int /\ dst \in Int
      BY <2>3
    <3>2. OpenShape.edges[r] = LocalEdges(cols, lo, hi, dst)
      BY <2>2
    <3>. HIDE DEF cols, lo, hi, dst
    <3>3. LocalEdges(cols, lo, hi, dst) \in Seq(Int \X Int)
      BY <3>1, EdgesOfRange
    <3>. QED  BY <3>2, <3>3
  <2>. QED  BY <1>3, <1>4, <2>1, <2>2, <2>4, LayoutFacts
<1>7. [r \in EdgeTypes |->
         LocalEdges(Layout.edge_index[r], Start(Layout, SrcOf[r], n + 1),
                    Start(Layout, SrcOf[r], (n + 1) + 1), Start(Layout, DstOf[r], n + 1))]
        = OpenShape.edges
  BY <1>6 DEF OpenShape
<1>8. OpenShape.edges \in [EdgeTypes -> Seq(Int \X Int)]
  BY <1>6 DEF OpenShape
<1>9. OpenShape.nodes = current_node_counts
  BY DEF OpenShape
<1>10. GraphIn(Layout, n + 1) = [nodes |-> OpenShape.nodes, edges |-> OpenShape.edges, vals |-> NoRows]
  BY <1>5, <1>7, <1>9 DEF GraphIn
<1>11. [OpenShape EXCEPT !.vals = NoRows]
         = [nodes |-> OpenShape.nodes, edges |-> OpenShape.edges, vals |-> NoRows]
  <2>1. \E nodes, edges, vals : OpenShape = [nodes |-> nodes, edges |-> edges, vals |-> vals]
    BY DEF OpenShape
  <2>. QED  BY <2>1
<1>. QED  BY <1>2, <1>8, <1>9, <1>10, <1>11


\* No edge starts behind the open graph.
LEMMA EdgesBelowEnd ==
  ASSUME NEW b, Good(b), NEW r \in EdgeTypes, NEW i \in DOMAIN b.edge_index[r]
  PROVE  /\ b.edge_index[r][i][1] \in Nat
         /\ b.edge_index[r][i][1] < b.offsets[SrcOf[r]] + b.counts[SrcOf[r]]
<1>. DEFINE n == b.num_graphs
            t == SrcOf[r]
            v == b.edge_index[r][i][1]
<1>1. n \in Nat /\ LayoutType(b) /\ WellBounded(b) /\ EdgesWithinGraphs(b) /\ t \in NodeTypes
  BY EdgeEnds DEF Good, LayoutType
<1>2. v \in Nat
  <2>1. b.edge_index[r][i] \in Edge
    BY <1>1 DEF LayoutType
  <2>. QED  BY <2>1 DEF Edge
<1>3. PICK k \in 1..(n + 1) : InGraph(b, t, k, v)
  BY <1>1 DEF EdgesWithinGraphs
<1>. HIDE DEF n, t, v
<1>4. k + 1 \in 1..(n + 2) /\ n + 2 \in 1..(n + 2) /\ k + 1 <= n + 2
  BY <1>1
<1>5. Start(b, t, k + 1) <= Start(b, t, n + 2)
  BY <1>1, <1>4, StartRises DEF n
<1>6. Start(b, t, n + 2) = b.offsets[t] + b.counts[t] /\ Start(b, t, k + 1) \in Nat
  BY <1>1, <1>4, StartFacts DEF n
<1>7. b.offsets[t] + b.counts[t] \in Nat
  BY <1>1 DEF LayoutType
<1>8. v < Start(b, t, k + 1)
  BY <1>3 DEF InGraph
<1>. QED  BY <1>2, <1>5, <1>6, <1>7, <1>8 DEF t, v

\* A single-graph encoding is its graph.
LEMMA SingleShape ==
  ASSUME NEW e \in Encodings
  PROVE  /\ ShapeOf(e, 1).vals = NoRows
         /\ ShapeOf(e, 1) = [nodes |-> ShapeOf(e, 1).nodes, edges |-> ShapeOf(e, 1).edges, vals |-> NoRows]
         /\ ShapeOf(e, 1).nodes = [t \in NodeTypes |-> CountOf(e, t)]
         /\ ShapeOf(e, 1).edges = [r \in EdgeTypes |->
              [i \in 1..Len(e.edge_index[r]) |-> <<e.edge_index[r][i][1], e.edge_index[r][i][2]>>]]
<1>1. ASSUME NEW t \in NodeTypes
      PROVE  /\ CutAt(e, t)[1] = 0 /\ CutAt(e, t)[1 + 1] = CountOf(e, t) /\ CountOf(e, t) \in Nat
             /\ CutAt(e, t)[1 + 1] - CutAt(e, t)[1] = CountOf(e, t)
  <2>1. CASE e.ptrs[t] = <<>>
    <3>1. CutAt(e, t) = [i \in 1..2 |-> 0]
      BY <2>1, SingleGraphs DEF CutAt
    <3>. QED  BY <2>1, <3>1 DEF CountOf
  <2>2. CASE e.ptrs[t] # <<>>
    <3>1. e.ptrs[t] \in Seq(Nat) /\ Len(e.ptrs[t]) = 2 /\ e.ptrs[t][1] = 0
      BY <2>2, SingleGraphs DEF KeysOf
    <3>2. CutAt(e, t) = e.ptrs[t] /\ CountOf(e, t) = e.ptrs[t][2] /\ e.ptrs[t][2] \in Nat
      BY <2>2, <3>1 DEF CutAt, CountOf, Last
    <3>. QED  BY <3>1, <3>2
  <2>. QED  BY <2>1, <2>2
<1>2. ASSUME NEW r \in EdgeTypes
      PROVE  LocalEdges(e.edge_index[r], 0, CountOf(e, SrcOf[r]), 0)
               = [i \in 1..Len(e.edge_index[r]) |-> <<e.edge_index[r][i][1], e.edge_index[r][i][2]>>]
  <2>. DEFINE new == e.edge_index[r]
              hi == CountOf(e, SrcOf[r])
              m == Len(new)
  <2>1. new \in Seq(Edge) /\ hi \in Int
    BY <1>1, SingleGraphs, EdgeEnds DEF Edge
  <2>2. m \in Nat /\ DOMAIN new = 1..m
    BY <2>1, LenProperties
  <2>3. ASSUME NEW i \in DOMAIN new
        PROVE  0 <= new[i][1] /\ new[i][1] < hi /\ new[i][1] \in Nat /\ new[i][2] \in Nat
    <3>1. new[i] \in Edge
      BY <2>1
    <3>2. new[i][1] \in Nat /\ new[i][2] \in Nat
      BY <3>1 DEF Edge
    <3>. QED  BY <3>2, SingleGraphs
  <2>. HIDE DEF new, hi, m
  <2>4. <<>> \in Seq(Edge) /\ <<>> \o new = new /\ DOMAIN <<>> = {}
    BY <2>1, ConcatEmptySeq
  <2>5. LocalEdges(<<>> \o new, 0, hi, 0) = [i \in 1..Len(new) |-> <<new[i][1] - 0, new[i][2] - 0>>]
    <3>. DEFINE cols == <<>>
                lo == 0
    <3>1. cols \in Seq(Edge) /\ NoneStartsIn(cols, lo, hi)
      BY <2>4 DEF NoneStartsIn
    <3>2. lo \in Int /\ AllStartIn(new, lo, hi)
      BY <2>3 DEF AllStartIn
    <3>. HIDE DEF cols, lo
    <3>3. LocalEdges(cols \o new, lo, hi, lo) = Moved(new, lo, lo)
      BY <2>1, <3>1, <3>2, LocalEdgesJoined, ZenonT(30)
    <3>. QED  BY <3>3 DEF cols, lo, Moved
  <2>6. \A i \in 1..m : new[i][1] - 0 = new[i][1] /\ new[i][2] - 0 = new[i][2]
    BY <2>2, <2>3
  <2>. QED  BY <2>4, <2>5, <2>6 DEF new, hi, m
<1>3. ShapeOf(e, 1) =
        [nodes |-> [t \in NodeTypes |-> CutAt(e, t)[1 + 1] - CutAt(e, t)[1]],
         edges |-> [r \in EdgeTypes |->
           LocalEdges(e.edge_index[r], CutAt(e, SrcOf[r])[1], CutAt(e, SrcOf[r])[1 + 1],
                      CutAt(e, DstOf[r])[1])],
         vals |-> NoRows]
  BY DEF ShapeOf
<1>4. ShapeOf(e, 1).nodes = [t \in NodeTypes |-> CountOf(e, t)]
  BY <1>1, <1>3
<1>5. ShapeOf(e, 1).edges = [r \in EdgeTypes |->
         [i \in 1..Len(e.edge_index[r]) |-> <<e.edge_index[r][i][1], e.edge_index[r][i][2]>>]]
  <2>1. ShapeOf(e, 1).edges = [r \in EdgeTypes |->
           LocalEdges(e.edge_index[r], CutAt(e, SrcOf[r])[1], CutAt(e, SrcOf[r])[1 + 1],
                      CutAt(e, DstOf[r])[1])]
    BY <1>3
  <2>2. ASSUME NEW r \in EdgeTypes
        PROVE  LocalEdges(e.edge_index[r], CutAt(e, SrcOf[r])[1], CutAt(e, SrcOf[r])[1 + 1],
                          CutAt(e, DstOf[r])[1])
                 = [i \in 1..Len(e.edge_index[r]) |-> <<e.edge_index[r][i][1], e.edge_index[r][i][2]>>]
    <3>1. SrcOf[r] \in NodeTypes /\ DstOf[r] \in NodeTypes
      BY EdgeEnds
    <3>2. /\ CutAt(e, SrcOf[r])[1] = 0 /\ CutAt(e, SrcOf[r])[1 + 1] = CountOf(e, SrcOf[r])
          /\ CutAt(e, DstOf[r])[1] = 0
      BY <1>1, <3>1
    <3>. QED  BY <1>2, <3>2
  <2>. QED  BY <2>1, <2>2
<1>6. ShapeOf(e, 1).vals = NoRows
  BY <1>3
<1>7. \E nodes, edges : ShapeOf(e, 1) = [nodes |-> nodes, edges |-> edges, vals |-> NoRows]
  BY <1>3
<1>. QED  BY <1>4, <1>5, <1>6, <1>7


\* append_batch_encoding on a builder with no open graph: the graph it is about
\* to commit is the encoding's, and the committed graphs stay what they are.
LEMMA JoinedCut ==
  ASSUME IInv, NEW e \in Encodings, current_node_counts = NoNodes
  PROVE  /\ GraphIn(Joined(e), current_graph_idx + 1) = ShapeOf(e, 1)
         /\ GraphsIn(Joined(e)) = GraphsIn(Layout)
<1>. DEFINE d == Joined(e)
            n == current_graph_idx
<1>1. /\ d.ptrs = ptrs /\ d.offsets = node_offsets /\ d.counts = MergedCounts(e)
      /\ d.keys = counted \cup KeysOf(e) /\ d.num_graphs = n
      /\ d.edge_index = [r \in EdgeTypes |-> edge_index[r] \o ShiftedEdges(e)[r]]
  BY DEF Joined, Counted
<1>2. /\ Good(d) /\ Good(Layout) /\ n \in Nat /\ LayoutType(d) /\ WellBounded(d)
      /\ LayoutType(Layout) /\ WellBounded(Layout)
  BY JoinedGood, LayoutFacts DEF IInv, Good, LayoutType
<1>. HIDE DEF d
<1>3. /\ node_offsets \in [NodeTypes -> Nat] /\ edge_index \in [EdgeTypes -> Seq(Edge)]
  BY <1>2, LayoutFacts DEF LayoutType
<1>4. ASSUME NEW t \in NodeTypes
      PROVE  /\ MergedCounts(e)[t] = CountOf(e, t) /\ CountOf(e, t) \in Nat /\ node_offsets[t] \in Nat
             /\ Start(d, t, n + 1) = node_offsets[t]
             /\ Start(d, t, n + 2) = node_offsets[t] + CountOf(e, t)
             /\ (node_offsets[t] + CountOf(e, t)) - node_offsets[t] = CountOf(e, t)
  <2>1. CountOf(e, t) \in Nat /\ node_offsets[t] \in Nat
    BY <1>3, MergedCountsFacts
  <2>2. MergedCounts(e)[t] = CountOf(e, t)
    BY <2>1 DEF MergedCounts, NoNodes
  <2>. QED  BY <1>1, <1>2, <2>1, <2>2, StartFacts
<1>5. ASSUME NEW t \in NodeTypes, NEW k \in 1..(n + 1)
      PROVE  Start(d, t, k) = Start(Layout, t, k)
  <2>1. k # n + 2
    BY <1>2
  <2>. QED  BY <1>1, <2>1, LayoutFacts DEF Start
<1>6. ASSUME NEW r \in EdgeTypes
      PROVE  /\ edge_index[r] \in Seq(Edge) /\ ShiftedEdges(e)[r] \in Seq(Edge)
             /\ Len(ShiftedEdges(e)[r]) = Len(e.edge_index[r])
             /\ Len(e.edge_index[r]) \in Nat
             /\ \A i \in 1..Len(e.edge_index[r]) :
                  /\ e.edge_index[r][i][1] \in Nat /\ e.edge_index[r][i][2] \in Nat
                  /\ e.edge_index[r][i][1] < CountOf(e, SrcOf[r])
                  /\ ShiftedEdges(e)[r][i][1] = e.edge_index[r][i][1] + node_offsets[SrcOf[r]]
                  /\ ShiftedEdges(e)[r][i][2] = e.edge_index[r][i][2] + node_offsets[DstOf[r]]
  <2>. DEFINE new == e.edge_index[r]
              m == Len(new)
              shift(i) == <<new[i][1] + node_offsets[SrcOf[r]], new[i][2] + node_offsets[DstOf[r]]>>
  <2>1. new \in Seq(Edge)
    BY SingleGraphs DEF Edge
  <2>2. m \in Nat /\ DOMAIN new = 1..m
    BY <2>1, LenProperties
  <2>3. \A i \in 1..m : new[i] \in Edge
    BY <2>1
  <2>4. \A i \in 1..m : new[i][1] \in Nat /\ new[i][2] \in Nat /\ new[i][1] < CountOf(e, SrcOf[r])
    BY <2>2, <2>3, SingleGraphs DEF Edge
  <2>5. ShiftedEdges(e)[r] = [i \in 1..m |-> shift(i)]
    BY <2>2 DEF ShiftedEdges
  <2>6. \A i \in 1..m : shift(i) \in Edge
    BY <1>3, <2>4, EdgeEnds, SMTT(30) DEF Edge
  <2>7. ShiftedEdges(e)[r] \in Seq(Edge) /\ Len(ShiftedEdges(e)[r]) = m
    <3>. HIDE DEF new, m, shift
    <3>. QED  BY <2>2, <2>5, <2>6, IsASeq
  <2>. QED  BY <1>3, <2>2, <2>4, <2>5, <2>7
<1>7. ASSUME NEW r \in EdgeTypes, NEW i \in DOMAIN edge_index[r]
      PROVE  edge_index[r][i][1] \in Nat /\ edge_index[r][i][1] < node_offsets[SrcOf[r]]
  <2>1. SrcOf[r] \in NodeTypes
    BY EdgeEnds
  <2>2. /\ edge_index[r][i][1] \in Nat
        /\ edge_index[r][i][1] < node_offsets[SrcOf[r]] + current_node_counts[SrcOf[r]]
    BY <1>2, LayoutFacts, EdgesBelowEnd
  <2>3. node_offsets[SrcOf[r]] + current_node_counts[SrcOf[r]] = node_offsets[SrcOf[r]]
    BY <1>3, <2>1 DEF NoNodes
  <2>. QED  BY <2>2, <2>3
<1>8. ASSUME NEW r \in EdgeTypes
      PROVE  LocalEdges(d.edge_index[r], Start(d, SrcOf[r], n + 1), Start(d, SrcOf[r], n + 2),
                        Start(d, DstOf[r], n + 1))
               = [i \in 1..Len(e.edge_index[r]) |-> <<e.edge_index[r][i][1], e.edge_index[r][i][2]>>]
  <2>. DEFINE cols == edge_index[r]
              new == ShiftedEdges(e)[r]
              lo == node_offsets[SrcOf[r]]
              hi == node_offsets[SrcOf[r]] + CountOf(e, SrcOf[r])
              dst == node_offsets[DstOf[r]]
  <2>1. SrcOf[r] \in NodeTypes /\ DstOf[r] \in NodeTypes
    BY EdgeEnds
  <2>2. lo \in Int /\ hi \in Int /\ dst \in Int /\ lo \in Nat /\ CountOf(e, SrcOf[r]) \in Nat /\ dst \in Nat
    BY <1>4, <2>1
  <2>3. cols \in Seq(Edge) /\ new \in Seq(Edge) /\ DOMAIN new = 1..Len(e.edge_index[r])
    BY <1>6, LenProperties
  <2>4. NoneStartsIn(cols, lo, hi)
    BY <1>7, <2>2 DEF NoneStartsIn
  <2>5. AllStartIn(new, lo, hi)
    <3>1. ASSUME NEW i \in 1..Len(e.edge_index[r])
          PROVE  lo <= new[i][1] /\ new[i][1] < hi
      <4>1. /\ new[i][1] = e.edge_index[r][i][1] + lo
            /\ e.edge_index[r][i][1] \in Nat /\ e.edge_index[r][i][1] < CountOf(e, SrcOf[r])
        BY <1>6
      <4>. QED  BY <2>2, <4>1
    <3>. QED  BY <2>3, <3>1 DEF AllStartIn
  <2>6. LocalEdges(cols \o new, lo, hi, dst) = Moved(new, lo, dst)
    <3>1. lo \in Int /\ hi \in Int /\ dst \in Int /\ cols \in Seq(Edge) /\ new \in Seq(Edge)
      BY <2>2, <2>3
    <3>. HIDE DEF cols, new, lo, hi, dst
    <3>. QED  BY <3>1, <2>4, <2>5, LocalEdgesJoined, ZenonT(60)
  <2>7. ASSUME NEW i \in 1..Len(e.edge_index[r])
        PROVE  new[i][1] - lo = e.edge_index[r][i][1] /\ new[i][2] - dst = e.edge_index[r][i][2]
    <3>1. /\ new[i][1] = e.edge_index[r][i][1] + lo /\ e.edge_index[r][i][1] \in Nat
          /\ new[i][2] = e.edge_index[r][i][2] + dst /\ e.edge_index[r][i][2] \in Nat
      BY <1>6
    <3>. QED  BY <2>2, <3>1, SMTT(30)
  <2>8. Moved(new, lo, dst)
          = [i \in 1..Len(e.edge_index[r]) |-> <<e.edge_index[r][i][1], e.edge_index[r][i][2]>>]
    <3>1. Len(new) = Len(e.edge_index[r])
      BY <1>6
    <3>. HIDE DEF new, lo, dst
    <3>. QED  BY <2>7, <3>1 DEF Moved
  <2>9. d.edge_index[r] = cols \o new
    BY <1>1
  <2>. QED  BY <1>4, <2>1, <2>6, <2>8, <2>9
<1>9. GraphIn(d, n + 1) = ShapeOf(e, 1)
  <2>1. (n + 1) + 1 = n + 2
    BY <1>2
  <2>2. GraphIn(d, n + 1) =
          [nodes |-> [t \in NodeTypes |-> Start(d, t, n + 2) - Start(d, t, n + 1)],
           edges |-> [r \in EdgeTypes |->
             LocalEdges(d.edge_index[r], Start(d, SrcOf[r], n + 1), Start(d, SrcOf[r], n + 2),
                        Start(d, DstOf[r], n + 1))],
           vals |-> NoRows]
    BY <2>1 DEF GraphIn
  <2>3. [t \in NodeTypes |-> Start(d, t, n + 2) - Start(d, t, n + 1)] = ShapeOf(e, 1).nodes
    BY <1>4, SingleShape, ZenonT(60)
  <2>4. [r \in EdgeTypes |->
           LocalEdges(d.edge_index[r], Start(d, SrcOf[r], n + 1), Start(d, SrcOf[r], n + 2),
                      Start(d, DstOf[r], n + 1))] = ShapeOf(e, 1).edges
    BY <1>8, SingleShape, ZenonT(30)
  <2>. QED  BY <2>2, <2>3, <2>4, SingleShape
<1>10. ASSUME NEW r \in EdgeTypes
       PROVE  /\ DOMAIN edge_index[r] \subseteq DOMAIN d.edge_index[r]
              /\ \A i \in DOMAIN edge_index[r] : d.edge_index[r][i] = edge_index[r][i]
              /\ \A i \in DOMAIN d.edge_index[r] : i \notin DOMAIN edge_index[r] =>
                   d.edge_index[r][i][1] \in Nat /\ node_offsets[SrcOf[r]] <= d.edge_index[r][i][1]
  <2>. DEFINE cols == edge_index[r]
              new == ShiftedEdges(e)[r]
              all == d.edge_index[r]
              lo == node_offsets[SrcOf[r]]
  <2>1. cols \in Seq(Edge) /\ new \in Seq(Edge) /\ all = cols \o new /\ lo \in Nat
    BY <1>1, <1>3, <1>6, EdgeEnds
  <2>2. \A i \in 1..Len(new) : new[i][1] \in Nat /\ lo <= new[i][1]
    <3>1. ASSUME NEW i \in 1..Len(e.edge_index[r])
          PROVE  new[i][1] \in Nat /\ lo <= new[i][1]
      <4>1. new[i][1] = e.edge_index[r][i][1] + lo /\ e.edge_index[r][i][1] \in Nat
        BY <1>6
      <4>. QED  BY <2>1, <4>1
    <3>. QED  BY <1>6, <3>1
  <2>. HIDE DEF cols, new, all, lo
  <2>3. /\ all \in Seq(Edge) /\ Len(all) = Len(cols) + Len(new)
        /\ \A i \in 1..Len(all) : all[i] = IF i =< Len(cols) THEN cols[i] ELSE new[i - Len(cols)]
    BY <2>1, ConcatProperties
  <2>4. /\ Len(cols) \in Nat /\ Len(new) \in Nat /\ DOMAIN cols = 1..Len(cols)
        /\ DOMAIN all = 1..(Len(cols) + Len(new))
    BY <2>1, <2>3, LenProperties
  <2>5. ASSUME NEW i \in 1..Len(cols)
        PROVE  i \in DOMAIN all /\ all[i] = cols[i]
    BY <2>3, <2>4
  <2>6. ASSUME NEW i \in DOMAIN all, i \notin DOMAIN cols
        PROVE  all[i][1] \in Nat /\ lo <= all[i][1]
    <3>1. ~(i =< Len(cols)) /\ i - Len(cols) \in 1..Len(new)
      BY <2>4, <2>6
    <3>2. all[i] = new[i - Len(cols)]
      BY <2>3, <2>4, <3>1
    <3>. QED  BY <2>2, <3>1, <3>2
  <2>7. /\ DOMAIN cols \subseteq DOMAIN all
        /\ \A i \in DOMAIN cols : all[i] = cols[i]
        /\ \A i \in DOMAIN all : i \notin DOMAIN cols => all[i][1] \in Nat /\ lo <= all[i][1]
    BY <2>4, <2>5, <2>6
  <2>. QED  BY <2>7 DEF cols, all, lo
<1>11. ASSUME NEW k \in 1..n
       PROVE  GraphIn(d, k) = GraphIn(Layout, k)
  <2>1. \A t \in NodeTypes : \A j \in 1..(Layout.num_graphs + 1) : Start(d, t, j) = Start(Layout, t, j)
    BY <1>5, LayoutFacts
  <2>2. \A r \in EdgeTypes :
          /\ DOMAIN Layout.edge_index[r] \subseteq DOMAIN d.edge_index[r]
          /\ \A i \in DOMAIN Layout.edge_index[r] : d.edge_index[r][i] = Layout.edge_index[r][i]
          /\ \A i \in DOMAIN d.edge_index[r] : i \notin DOMAIN Layout.edge_index[r] =>
               d.edge_index[r][i][1] \in Nat /\ Layout.offsets[SrcOf[r]] <= d.edge_index[r][i][1]
    BY <1>10, LayoutFacts
  <2>3. k \in 1..Layout.num_graphs
    BY LayoutFacts
  <2>. QED  BY <1>2, <2>1, <2>2, <2>3, CutsKept
<1>12. GraphsIn(d) = GraphsIn(Layout)
  BY <1>1, <1>11, LayoutFacts DEF GraphsIn
<1>. QED  BY <1>9, <1>12 DEF d


-----------------------------------------------------------------------------
(* The theorems.                                                           *)

\* The columns and counters of the builder keep their types.
THEOREM GraphTypes == Spec => []GraphTypeOK
<1>1. IInv => GraphTypeOK
  BY LayoutFacts DEF IInv, Good, LayoutType, GraphTypeOK
<1>. QED  BY <1>1, IInvHolds, PTL

\* Every boundary vector starts at 0, grows, ends at its type's offset and is
\* never longer than the batch, whichever mixture of next_graph,
\* append_batch_encoding, build and load_from_batch_encoding made it.
THEOREM BoundariesAlwaysTrackOffsets == Spec => []BoundariesTrackOffsets
<1>1. IInv => BoundariesTrackOffsets
  BY DEF IInv, Good, BoundariesTrackOffsets
<1>. QED  BY <1>1, IInvHolds, PTL

\* build() always finds the number of committed graphs in some boundary vector.
THEOREM SomePtrAlwaysSpans == Spec => []SomePtrSpansTheBatch
<1>1. IInv => SomePtrSpansTheBatch
  BY DEF IInv, Good, SomePtrSpansTheBatch
<1>. QED  BY <1>1, IInvHolds, PTL

\* No edge ever crosses from one graph of a batch into another.
THEOREM EdgesAlwaysStayInOneGraph == Spec => []EdgesStayInOneGraph
<1>1. IInv => EdgesStayInOneGraph
  BY DEF IInv, Good, EdgesStayInOneGraph
<1>. QED  BY <1>1, IInvHolds, PTL

\* Every ptr of every built encoding spans the full batch.
THEOREM BuiltPtrsAlwaysSpan == Spec => []BuiltPtrsSpan
<1>1. IInv => BuiltPtrsSpan
  <2>. SUFFICES ASSUME IInv, encoding # None, NEW t \in KeysOf(encoding)
                PROVE  /\ IsBoundary(encoding.ptrs[t])
                       /\ Len(encoding.ptrs[t]) = encoding.num_graphs + 1
    BY DEF BuiltPtrsSpan
  <2>1. WellBounded(LayoutOf(encoding)) /\ LayoutOf(encoding).ptrs = encoding.ptrs
    BY DEF IInv, Good, LayoutOf
  <2>2. t \in NodeTypes /\ encoding.ptrs[t] # <<>>
    BY DEF KeysOf
  <2>. QED  BY <2>1, <2>2 DEF WellBounded, IInv
<1>. QED  BY <1>1, IInvHolds, PTL

\* build_pyg splits the nodes of every reachable builder, and of every encoding
\* it handed out, as build() does.
THEOREM PygBuildAlwaysKeepsGraphs == Spec => []PygBuildKeepsGraphs
<1>1. IInv => PygBuildKeepsGraphs
  BY GoodKeepsGraphs DEF IInv, PygBuildKeepsGraphs
<1>. QED  BY <1>1, IInvHolds, PTL

-----------------------------------------------------------------------------
(***************************************************************************)
(* The graph fields of a batch builder, for any fields, callers and        *)
(* single-graph encodings.                                                 *)
(*                                                                         *)
(* Three invariants are laid on top of each other and of the one for       *)
(* boundaries and edges (IInv): the types of the fields (FieldInv), the    *)
(* shape of their storage (StorageInv), and the bounds of the ids in them  *)
(* (RangeInv).  A commit that ends early leaves the builder torn, and only *)
(* FieldInv speaks of a torn builder.                                      *)
(***************************************************************************)

-----------------------------------------------------------------------------
(* The order of the keys after a merge. It is built key by key, by a       *)
(* recursive function, so each fact about it goes by the least place where *)
(* it fails.                                                               *)

\* One key more.
With(known, f) == IF f \in ToSet(known) THEN known ELSE Append(known, f)

IsJoin(g, e, n) ==
  g = [k \in 0..n |-> IF k = 0 THEN registered ELSE With(g[k - 1], e.registered[k])]

\* A function that joins the keys one by one exists, so the recursive one is it.
LEMMA JoinExists ==
  ASSUME NEW e, e.registered \in Seq(Fields)
  PROVE  \E g : IsJoin(g, e, Len(e.registered))
<1>. DEFINE L == Len(e.registered)
            Missing == {n \in Nat : ~ \E g : IsJoin(g, e, n)}
<1>1. L \in Nat
  BY LenProperties
<1>2. SUFFICES ASSUME Missing # {} PROVE FALSE
  BY <1>1
<1>3. PICK n \in Missing : \A m \in Missing : n <= m
  BY <1>2, NatLeast
<1>4. n # 0
  <2>. DEFINE g == [k \in 0..0 |-> registered]
  <2>1. g = [k \in 0..0 |-> IF k = 0 THEN registered ELSE With(g[k - 1], e.registered[k])]
    OBVIOUS
  <2>2. IsJoin(g, e, 0)
    BY <2>1 DEF IsJoin
  <2>. QED  BY <2>2
<1>5. n \in Nat /\ n - 1 \in Nat /\ n - 1 \notin Missing
  BY <1>3, <1>4, SMTT(30)
<1>6. PICK g : IsJoin(g, e, n - 1)
  BY <1>5
<1>. DEFINE h == [k \in 0..n |-> IF k < n THEN g[k] ELSE With(g[n - 1], e.registered[n])]
<1>7. ASSUME NEW k \in 0..n
      PROVE  h[k] = IF k = 0 THEN registered ELSE With(h[k - 1], e.registered[k])
  <2>1. \A i \in 0..(n - 1) : g[i] = IF i = 0 THEN registered ELSE With(g[i - 1], e.registered[i])
    BY <1>6 DEF IsJoin
  <2>2. CASE k = n
    <3>1. h[k - 1] = g[n - 1] /\ h[k] = With(g[n - 1], e.registered[n]) /\ k # 0
      BY <1>5, <2>2
    <3>. QED  BY <2>2, <3>1
  <2>3. CASE k # n
    <3>1. k \in 0..(n - 1) /\ h[k] = g[k] /\ (k # 0 => h[k - 1] = g[k - 1])
      BY <1>5, <2>3
    <3>. QED  BY <2>1, <3>1
  <2>. QED  BY <2>2, <2>3
<1>8. IsJoin(h, e, n)
  <2>. DEFINE r == [k \in 0..n |-> IF k = 0 THEN registered ELSE With(h[k - 1], e.registered[k])]
  <2>1. \A k \in 0..n : h[k] = r[k]
    BY <1>7
  <2>2. h = r
    BY <2>1
  <2>. QED  BY <2>2 DEF IsJoin
<1>. QED  BY <1>3, <1>8

\* JoinedKeys follows its recursion equation.
LEMMA JoinedKeysIsJoin ==
  ASSUME NEW e, e.registered \in Seq(Fields)
  PROVE  IsJoin(JoinedKeys(e), e, Len(e.registered))
<1>1. JoinedKeys(e) = CHOOSE g : IsJoin(g, e, Len(e.registered))
  BY DEF JoinedKeys, IsJoin, With
<1>. QED  BY <1>1, JoinExists

\* Adding a key keeps the others.
LEMMA KeysAppended ==
  ASSUME NEW s \in Seq(Fields), NEW f \in Fields
  PROVE  With(s, f) \in Seq(Fields) /\ ToSet(With(s, f)) = ToSet(s) \cup {f}
<1>1. CASE f \in ToSet(s)
  BY <1>1 DEF With
<1>2. CASE f \notin ToSet(s)
  <2>. DEFINE t == Append(s, f)
  <2>1. /\ t \in Seq(Fields) /\ Len(t) = Len(s) + 1
        /\ \A i \in 1..Len(s) : t[i] = s[i]
        /\ t[Len(s) + 1] = f
    BY AppendProperties
  <2>2. Len(s) \in Nat /\ DOMAIN s = 1..Len(s) /\ DOMAIN t = 1..(Len(s) + 1)
    BY <2>1, LenProperties
  <2>. HIDE DEF t
  <2>3. ToSet(t) = ToSet(s) \cup {f}
    <3>1. ASSUME NEW i \in DOMAIN t
          PROVE  t[i] \in ToSet(s) \cup {f}
      BY <2>1, <2>2 DEF ToSet
    <3>2. \A i \in DOMAIN s : s[i] \in ToSet(t)
      BY <2>1, <2>2 DEF ToSet
    <3>3. f \in ToSet(t)
      BY <2>1, <2>2 DEF ToSet
    <3>. QED  BY <3>1, <3>2, <3>3 DEF ToSet
  <2>. QED  BY <1>2, <2>1, <2>3 DEF With, t
<1>. QED  BY <1>1, <1>2

\* The merged order has the known keys and those of e, and no others.
LEMMA MergedKeys ==
  ASSUME registered \in Seq(Fields), NEW e, e.registered \in Seq(Fields)
  PROVE  /\ MergedOrder(e) \in Seq(Fields)
         /\ ToSet(MergedOrder(e)) = ToSet(registered) \cup ToSet(e.registered)
<1>. DEFINE L == Len(e.registered)
            keys == JoinedKeys(e)
            Met(n) == {e.registered[i] : i \in 1..n}
            Right(n) == keys[n] \in Seq(Fields) /\ ToSet(keys[n]) = ToSet(registered) \cup Met(n)
            Wrong == {n \in 0..L : ~Right(n)}
<1>1. L \in Nat /\ DOMAIN e.registered = 1..L
  BY LenProperties
<1>2. \A k \in 0..L : keys[k] = IF k = 0 THEN registered ELSE With(keys[k - 1], e.registered[k])
  BY JoinedKeysIsJoin DEF IsJoin
<1>. HIDE DEF keys
<1>3. Wrong = {}
  <2>1. SUFFICES ASSUME Wrong # {} PROVE FALSE
    OBVIOUS
  <2>2. Wrong \subseteq Nat
    BY <1>1
  <2>. HIDE DEF Wrong
  <2>3. PICK n \in Wrong : \A m \in Wrong : n <= m
    BY <2>1, <2>2, NatLeast
  <2>. USE DEF Wrong
  <2>4. Right(0)
    <3>1. keys[0] = registered
      BY <1>1, <1>2
    <3>2. Met(0) = {}
      OBVIOUS
    <3>. QED  BY <3>1, <3>2
  <2>. HIDE DEF Right
  <2>5. n \in 1..L /\ n - 1 \in 0..L /\ ~Right(n)
    <3>1. n \in 0..L /\ ~Right(n) /\ n # 0
      BY <2>3, <2>4
    <3>. QED  BY <1>1, <3>1
  <2>6. Right(n - 1)
    <3>1. n - 1 \notin Wrong
      BY <1>1, <2>3, <2>5
    <3>. QED  BY <2>5, <3>1
  <2>7. e.registered[n] \in Fields
    BY <1>1, <2>5, LenProperties
  <2>8. keys[n] = With(keys[n - 1], e.registered[n])
    BY <1>1, <1>2, <2>5
  <2>9. Met(n) = Met(n - 1) \cup {e.registered[n]}
    BY <1>1, <2>5
  <2>10. keys[n - 1] \in Seq(Fields) /\ ToSet(keys[n - 1]) = ToSet(registered) \cup Met(n - 1)
    BY <2>6 DEF Right
  <2>11. /\ keys[n] \in Seq(Fields)
         /\ ToSet(keys[n]) = ToSet(keys[n - 1]) \cup {e.registered[n]}
    BY <2>7, <2>8, <2>10, KeysAppended, ZenonT(60)
  <2>12. ToSet(keys[n]) = ToSet(registered) \cup Met(n)
    BY <2>9, <2>10, <2>11
  <2>13. Right(n)
    BY <2>11, <2>12 DEF Right
  <2>. QED  BY <2>5, <2>13
<1>4. Right(L)
  <2>1. L \in 0..L
    BY <1>1
  <2>. HIDE DEF Right
  <2>. QED  BY <1>3, <2>1
<1>5. Met(L) = ToSet(e.registered)
  BY <1>1 DEF ToSet
<1>. QED  BY <1>4, <1>5 DEF MergedOrder, keys

-----------------------------------------------------------------------------
(* The sum of the counts, and the rows and boundaries that a graph adds.   *)

\* A row of n counts hands out n ids.
LEMMA IdsOfOneRow ==
  ASSUME NEW i, NEW n \in Int
  PROVE  /\ IsFiniteSet({i} \X (1..n))
         /\ Cardinality({i} \X (1..n)) = IF n < 1 THEN 0 ELSE n
<1>1. IsFiniteSet(1..n) /\ Cardinality(1..n) = IF 1 > n THEN 0 ELSE n - 1 + 1
  BY FS_Interval
<1>2. IsFiniteSet({i}) /\ Cardinality({i}) = 1
  BY FS_Singleton
<1>3. /\ IsFiniteSet({i} \X (1..n))
      /\ Cardinality({i} \X (1..n)) = Cardinality({i}) * Cardinality(1..n)
  <2>. DEFINE S == {i}  T == 1..n
  <2>1. IsFiniteSet(S) /\ IsFiniteSet(T)
    BY <1>1, <1>2
  <2>. HIDE DEF S, T
  <2>2. IsFiniteSet(S \X T) /\ Cardinality(S \X T) = Cardinality(S) * Cardinality(T)
    BY <2>1, FS_Product
  <2>. QED  BY <2>2 DEF S, T
<1>4. Cardinality(1..n) \in Nat /\ Cardinality(1..n) = IF n < 1 THEN 0 ELSE n
  BY <1>1
<1>. HIDE DEF IsFiniteSet
<1>5. Cardinality({i}) * Cardinality(1..n) = Cardinality(1..n)
  BY <1>2, <1>4
<1>. QED  BY <1>3, <1>4, <1>5

\* The sum of counts is a natural number.
LEMMA IdsAreFinite ==
  ASSUME NEW counts \in Seq(Int)
  PROVE  IsFiniteSet(IdsDeclared(counts)) /\ CountSum(counts) \in Nat
<1>. DEFINE L == Len(counts)
            ids == [i \in 1..L |-> {i} \X (1..counts[i])]
            all == {ids[i] : i \in 1..L}
<1>1. L \in Nat /\ DOMAIN counts = 1..L /\ \A i \in 1..L : counts[i] \in Int
  BY LenProperties
<1>2. IsFiniteSet(1..L)
  BY <1>1, FS_Interval
<1>3. ids \in Surjection(1..L, all)
  BY DEF Surjection
<1>4. \A i \in 1..L : IsFiniteSet(ids[i])
  BY <1>1, IdsOfOneRow
<1>5. IdsDeclared(counts) = UNION all
  BY <1>1 DEF IdsDeclared
<1>. HIDE DEF ids
<1>6. \A S \in all : IsFiniteSet(S)
  BY <1>4
<1>. HIDE DEF all, L
<1>7. IsFiniteSet(all)
  BY <1>2, <1>3, FS_Surjection
<1>8. IsFiniteSet(UNION all)
  BY <1>6, <1>7, FS_UNION
<1>9. IsFiniteSet(IdsDeclared(counts))
  BY <1>5, <1>8
<1>. QED  BY <1>9, FS_CardinalityType DEF CountSum

\* One row more hands out its ids behind the others.
LEMMA CountsGrow ==
  ASSUME NEW counts \in Seq(Int), NEW one \in Seq(Int), Len(one) = 1
  PROVE  /\ CountSum(counts \o one) = CountSum(counts) + CountSum(one)
         /\ one[1] <= CountSum(one)
<1>. DEFINE L == Len(counts)
            both == counts \o one
            last == {L + 1} \X (1..one[1])
<1>1. L \in Nat /\ one[1] \in Int /\ DOMAIN counts = 1..L /\ DOMAIN one = 1..1
  BY LenProperties, SMTT(30)
<1>2. /\ both \in Seq(Int) /\ DOMAIN both = 1..(L + 1)
      /\ \A i \in 1..L : both[i] = counts[i]
      /\ both[L + 1] = one[1]
  <2>1. both \in Seq(Int) /\ Len(both) = L + 1
    <3>1. both \in Seq(Int)
      BY ConcatProperties
    <3>2. Len(counts \o one) = Len(counts) + Len(one)
      BY ConcatProperties
    <3>. QED  BY <3>1, <3>2
  <2>2. \A i \in 1..L : both[i] = counts[i]
    BY <1>1, ConcatProperties
  <2>3. both[L + 1] = one[1]
    BY <1>1, ConcatProperties
  <2>4. DOMAIN both = 1..(L + 1)
    BY <2>1, LenProperties
  <2>. QED  BY <2>1, <2>2, <2>3, <2>4
<1>. HIDE DEF both
<1>3. IdsDeclared(both) = IdsDeclared(counts) \cup last
  <2>1. \A i \in 1..L : {i} \X (1..both[i]) = {i} \X (1..counts[i])
    BY <1>2
  <2>2. IdsDeclared(both) = UNION {{i} \X (1..both[i]) : i \in 1..(L + 1)}
    BY <1>2 DEF IdsDeclared
  <2>3. IdsDeclared(counts) = UNION {{i} \X (1..counts[i]) : i \in 1..L}
    BY <1>1 DEF IdsDeclared
  <2>4. \A i : i \in 1..(L + 1) <=> i \in 1..L \/ i = L + 1
    BY <1>1
  <2>5. \A x : x \in IdsDeclared(both) <=> \E i \in 1..(L + 1) : x \in {i} \X (1..both[i])
    BY <2>2
  <2>6. \A x : x \in IdsDeclared(counts) <=> \E i \in 1..L : x \in {i} \X (1..counts[i])
    BY <2>3
  <2>7. last = {L + 1} \X (1..both[L + 1])
    BY <1>2
  <2>. HIDE DEF last, L
  <2>8. \A x : x \in IdsDeclared(both) <=> x \in IdsDeclared(counts) \/ x \in last
    BY <2>1, <2>4, <2>5, <2>6, <2>7
  <2>. QED  BY <2>8
<1>4. IdsDeclared(counts) \cap last = {}
  <2>1. ASSUME NEW x \in IdsDeclared(counts), x \in last PROVE FALSE
    <3>1. PICK i \in 1..L : x \in {i} \X (1..counts[i])
      BY <1>1, <2>1 DEF IdsDeclared
    <3>2. x[1] = i /\ x[1] = L + 1
      BY <2>1, <3>1
    <3>. QED  BY <1>1, <3>2
  <2>. QED  BY <2>1
<1>5. /\ IsFiniteSet(last) /\ Cardinality(last) = IF one[1] < 1 THEN 0 ELSE one[1]
  BY <1>1, IdsOfOneRow
<1>6. IsFiniteSet(IdsDeclared(counts)) /\ Cardinality(IdsDeclared(counts)) \in Nat
  BY IdsAreFinite DEF CountSum
<1>7. Cardinality(IdsDeclared(one)) = IF one[1] < 1 THEN 0 ELSE one[1]
  <2>1. IdsDeclared(one) = {1} \X (1..one[1])
    <3>1. DOMAIN one = {1}
      BY <1>1
    <3>. QED  BY <3>1 DEF IdsDeclared
  <2>. QED  BY <1>1, <2>1, IdsOfOneRow
<1>8. Cardinality(IdsDeclared(counts) \cup last)
        = Cardinality(IdsDeclared(counts)) + Cardinality(last) - Cardinality({})
  <2>. DEFINE S == IdsDeclared(counts)
  <2>. HIDE DEF S, last
  <2>1. Cardinality(S \cup last) = Cardinality(S) + Cardinality(last) - Cardinality(S \cap last)
    BY <1>5, <1>6, FS_Union DEF S
  <2>. QED  BY <1>4, <2>1 DEF S
<1>9. Cardinality({}) = 0
  BY FS_EmptySet
<1>10. CountSum(both) = CountSum(counts) + CountSum(one)
  <2>. HIDE DEF last
  <2>. QED  BY <1>1, <1>3, <1>5, <1>6, <1>7, <1>8, <1>9 DEF CountSum
<1>11. one[1] <= CountSum(one)
  BY <1>1, <1>7 DEF CountSum
<1>. QED  BY <1>10, <1>11 DEF both

\* Shifting keeps the number of rows; by nothing, it keeps the rows.
LEMMA ShiftedRows ==
  ASSUME NEW rows \in Seq(Int), NEW inc \in Int
  PROVE  /\ Shifted(rows, inc) \in Seq(Int)
         /\ Len(Shifted(rows, inc)) = Len(rows)
         /\ \A i \in 1..Len(rows) : Shifted(rows, inc)[i] = rows[i] + inc
         /\ Shifted(rows, 0) = rows
<1>1. Len(rows) \in Nat /\ \A i \in 1..Len(rows) : rows[i] \in Int
  BY LenProperties
<1>2. Shifted(rows, inc) \in Seq(Int) /\ Len(Shifted(rows, inc)) = Len(rows)
  <2>1. Shifted(rows, inc) = [i \in 1..Len(rows) |-> rows[i] + inc]
    BY DEF Shifted
  <2>2. \A i \in 1..Len(rows) : rows[i] + inc \in Int
    BY <1>1
  <2>. QED  BY <1>1, <2>1, <2>2, IsASeq
<1>3. Shifted(rows, 0) = rows
  <2>1. rows = [i \in 1..Len(rows) |-> rows[i]]
    BY LenProperties
  <2>2. \A i \in 1..Len(rows) : rows[i] + 0 = rows[i]
    BY <1>1
  <2>. QED  BY <2>1, <2>2 DEF Shifted
<1>. QED  BY <1>2, <1>3 DEF Shifted

\* Shifted rows behind others leave those alone.
LEMMA JoinedRows ==
  ASSUME NEW rows \in Seq(Int), NEW more \in Seq(Int), NEW inc \in Int
  PROVE  /\ rows \o Shifted(more, inc) \in Seq(Int)
         /\ Len(rows \o Shifted(more, inc)) = Len(rows) + Len(more)
         /\ \A i \in 1..Len(rows) : (rows \o Shifted(more, inc))[i] = rows[i]
         /\ \A i \in 1..Len(more) : (rows \o Shifted(more, inc))[Len(rows) + i] = more[i] + inc
<1>. DEFINE s == Shifted(more, inc)
<1>1. /\ s \in Seq(Int) /\ Len(s) = Len(more) /\ \A i \in 1..Len(more) : s[i] = more[i] + inc
  BY ShiftedRows
<1>2. Len(rows) \in Nat /\ Len(more) \in Nat
  BY LenProperties
<1>. HIDE DEF s
<1>3. /\ rows \o s \in Seq(Int) /\ Len(rows \o s) = Len(rows) + Len(s)
      /\ \A i \in 1..(Len(rows) + Len(s)) :
           (rows \o s)[i] = IF i <= Len(rows) THEN rows[i] ELSE s[i - Len(rows)]
  <2>1. rows \o s \in Seq(Int)
    BY <1>1, ConcatProperties
  <2>2. Len(rows \o s) = Len(rows) + Len(s)
    BY <1>1, ConcatProperties
  <2>3. \A i \in 1..(Len(rows) + Len(s)) :
          (rows \o s)[i] = IF i <= Len(rows) THEN rows[i] ELSE s[i - Len(rows)]
    BY <1>1, ConcatProperties
  <2>. QED  BY <2>1, <2>2, <2>3
<1>4. ASSUME NEW i \in 1..Len(more) PROVE (rows \o s)[Len(rows) + i] = more[i] + inc
  <2>1. /\ Len(rows) + i \in 1..(Len(rows) + Len(s)) /\ ~(Len(rows) + i <= Len(rows))
        /\ Len(rows) + i - Len(rows) = i
    BY <1>1, <1>2
  <2>. QED  BY <1>1, <1>3, <2>1
<1>5. \A i \in 1..Len(rows) : (rows \o s)[i] = rows[i]
  BY <1>1, <1>2, <1>3
<1>. QED  BY <1>1, <1>3, <1>4, <1>5 DEF s

\* Boundaries stay boundaries when they are opened or extended.
LEMMA ExtendedPtr ==
  ASSUME NEW ptr \in Seq(Int), NEW n \in Int
  PROVE  /\ Opened(ptr) \in Seq(Int) /\ Opened(ptr) # <<>>
         /\ Extended(ptr, n) \in Seq(Int)
         /\ ptr # <<>> => Opened(ptr) = ptr
<1>1. Opened(ptr) \in Seq(Int) /\ Opened(ptr) # <<>>
  BY DEF Opened
<1>. DEFINE q == Opened(ptr)
<1>2. q \in Seq(Int) /\ Len(q) \in 1..Len(q)
  BY <1>1, EmptySeq, LenProperties
<1>. HIDE DEF q
<1>3. Last(q) \in Int
  BY <1>2 DEF Last
<1>4. Append(q, Last(q) + n) \in Seq(Int)
  BY <1>2, <1>3, AppendProperties
<1>. QED  BY <1>1, <1>4 DEF Extended, Opened, q

-----------------------------------------------------------------------------
(* Types.                                                                  *)

\* Only registered fields have a value for the open graph, and one row if the
\* mode wants one.
PendingOK ==
  \A f \in Fields : pending[f] # NoValue =>
    /\ f \in ToSet(registered)
    /\ Mode[f] \in {"STACK", "CONST"} => Len(pending[f]) = 1

FieldInv ==
  /\ FieldTypeOK
  /\ torn \in BOOLEAN
  /\ encoding \in BatchType \cup {None}
  /\ PendingOK

\* The increments of a commit and of a merge are integers.
LEMMA IncrementsTyped ==
  ASSUME IInv, FieldTypeOK
  PROVE  /\ CommitInc \in [Fields -> Int]
         /\ \A e \in Encodings : MergeInc(e) \in [Fields -> Int]
<1>1. node_offsets \in [NodeTypes -> Nat] /\ values \in [Fields -> Seq(Int)]
  BY LayoutFacts DEF IInv, Good, LayoutType, FieldTypeOK, Rows
<1>2. \A f \in Fields : IncKind[f] = "NODE_OFFSET" => node_offsets[IncOf[f]] \in Int
  BY <1>1, FieldUses
<1>3. \A f \in Fields : IncKind[f] = "FIELD_OFFSET" => CountSum(values[IncOf[f]]) \in Int
  <2>1. ASSUME NEW f \in Fields, IncKind[f] = "FIELD_OFFSET" PROVE CountSum(values[IncOf[f]]) \in Int
    <3>1. values[IncOf[f]] \in Seq(Int)
      BY <1>1, <2>1, FieldSpecs
    <3>2. CountSum(values[IncOf[f]]) \in Nat
      BY <3>1, IdsAreFinite
    <3>. QED  BY <3>2
  <2>. QED  BY <2>1
<1>4. CommitInc \in [Fields -> Int]
  BY <1>2, <1>3 DEF CommitInc
<1>5. ASSUME NEW e \in Encodings PROVE MergeInc(e) \in [Fields -> Int]
  <2>1. ASSUME NEW f \in Fields, IncKind[f] = "FIELD_OFFSET" PROVE FieldOffsetInMerge(f, e) \in Int
    <3>1. values[IncOf[f]] \in Seq(Int) /\ e.values[IncOf[f]] \in Seq(Int)
      BY <1>1, <2>1, FieldSpecs, SingleFields
    <3>2. values[IncOf[f]] \o e.values[IncOf[f]] \in Seq(Int)
      BY <3>1, ConcatProperties
    <3>3. CountSum(values[IncOf[f]]) \in Nat /\ CountSum(values[IncOf[f]] \o e.values[IncOf[f]]) \in Nat
      BY <3>1, <3>2, IdsAreFinite
    <3>. QED  BY <3>3 DEF FieldOffsetInMerge
  <2>. QED  BY <1>2, <2>1 DEF MergeInc
<1>. QED  BY <1>4, <1>5

\* What a commit writes has the types of the fields.
LEMMA CommittedTyped ==
  ASSUME FieldTypeOK, NEW S, NEW inc \in [Fields -> Int]
  PROVE  /\ CommittedValues(S, inc) \in [Fields -> Seq(Int)]
         /\ CommittedPtr(S) \in [Fields -> Seq(Int)]
         /\ CommittedPending(S) \in [Fields -> Seq(Int) \cup {NoValue}]
<1>1. /\ values \in [Fields -> Seq(Int)] /\ field_ptr \in [Fields -> Seq(Int)]
      /\ pending \in [Fields -> Seq(Int) \cup {NoValue}]
  BY DEF FieldTypeOK, Rows
<1>2. ASSUME NEW f \in Fields PROVE CommittedValues(S, inc)[f] \in Seq(Int)
  <2>1. values[f] \in Seq(Int) /\ inc[f] \in Int
    BY <1>1
  <2>2. CASE pending[f] = NoValue
    BY <2>1, <2>2 DEF CommittedValues
  <2>3. CASE pending[f] # NoValue
    <3>1. pending[f] \in Seq(Int)
      BY <1>1, <2>3
    <3>2. values[f] \o Shifted(pending[f], inc[f]) \in Seq(Int)
      BY <2>1, <3>1, JoinedRows
    <3>. QED  BY <2>1, <3>1, <3>2 DEF CommittedValues
  <2>. QED  BY <2>2, <2>3
<1>3. ASSUME NEW f \in Fields PROVE CommittedPtr(S)[f] \in Seq(Int)
  <2>. DEFINE n == IF pending[f] = NoValue THEN 0 ELSE Len(pending[f])
  <2>1. n \in Int
    <3>1. CASE pending[f] = NoValue
      BY <3>1
    <3>2. CASE pending[f] # NoValue
      <4>1. pending[f] \in Seq(Int)
        BY <1>1, <3>2
      <4>2. Len(pending[f]) \in Int
        BY <4>1, LenProperties
      <4>. QED  BY <3>2, <4>2
    <3>. QED  BY <3>1, <3>2
  <2>2. field_ptr[f] \in Seq(Int)
    BY <1>1
  <2>3. CommittedPtr(S)[f] = IF f \in S /\ Mode[f] = "RAGGED_CAT" THEN Extended(field_ptr[f], n)
                             ELSE field_ptr[f]
    BY DEF CommittedPtr
  <2>. HIDE DEF n
  <2>4. Extended(field_ptr[f], n) \in Seq(Int)
    BY <2>1, <2>2, ExtendedPtr
  <2>. QED  BY <2>2, <2>3, <2>4
<1>4. CommittedValues(S, inc) \in [Fields -> Seq(Int)]
  BY <1>2 DEF CommittedValues
<1>5. CommittedPtr(S) \in [Fields -> Seq(Int)]
  BY <1>3 DEF CommittedPtr
<1>6. CommittedPending(S) \in [Fields -> Seq(Int) \cup {NoValue}]
  BY <1>1 DEF CommittedPending
<1>. QED  BY <1>4, <1>5, <1>6

\* The boundary that a ragged field of e ends with is the number of its rows.
LEMMA RaggedOfSingle ==
  ASSUME NEW e \in Encodings, NEW f \in ToSet(e.registered), f \in Fields,
         Mode[f] = "RAGGED_CAT"
  PROVE  Last(e.field_ptr[f]) = Len(e.values[f]) /\ Len(e.values[f]) \in Nat
<1>1. ValidStorage(f, e.values[f], e.field_ptr[f], 1) /\ e.values[f] \in Seq(Int)
  BY SingleFields
<1>2. Last(e.field_ptr[f]) = Len(e.values[f])
  BY <1>1 DEF ValidStorage
<1>. QED  BY <1>1, <1>2, LenProperties

\* What a merge writes has the types of the fields, under the keys of both.
LEMMA MergedTyped ==
  ASSUME FieldTypeOK, NEW e \in Encodings, NEW S, NEW inc \in [Fields -> Int]
  PROVE  /\ MergedOrder(e) \in Seq(Fields)
         /\ ToSet(MergedOrder(e)) = ToSet(registered) \cup ToSet(e.registered)
         /\ MergedValues(S, e, inc) \in [Fields -> Seq(Int)]
         /\ MergedPtr(S, e) \in [Fields -> Seq(Int)]
<1>1. /\ registered \in Seq(Fields) /\ values \in [Fields -> Seq(Int)]
      /\ field_ptr \in [Fields -> Seq(Int)]
  BY DEF FieldTypeOK, Rows
<1>2. /\ e.registered \in Seq(Fields) /\ e.values \in [Fields -> Seq(Int)]
      /\ e.field_ptr \in [Fields -> Seq(Int)]
  BY SingleFields
<1>3. /\ MergedOrder(e) \in Seq(Fields)
      /\ ToSet(MergedOrder(e)) = ToSet(registered) \cup ToSet(e.registered)
  BY <1>1, <1>2, MergedKeys
<1>4. ASSUME NEW f \in Fields PROVE MergedValues(S, e, inc)[f] \in Seq(Int)
  <2>1. values[f] \in Seq(Int) /\ e.values[f] \in Seq(Int) /\ inc[f] \in Int
    BY <1>1, <1>2
  <2>2. values[f] \o Shifted(e.values[f], inc[f]) \in Seq(Int)
    BY <2>1, JoinedRows
  <2>. QED  BY <2>1, <2>2 DEF MergedValues
<1>5. ASSUME NEW f \in Fields PROVE MergedPtr(S, e)[f] \in Seq(Int)
  <2>1. field_ptr[f] \in Seq(Int)
    BY <1>1
  <2>2. CASE Mode[f] # "RAGGED_CAT"
    BY <2>1, <2>2 DEF MergedPtr
  <2>3. CASE Mode[f] = "RAGGED_CAT"
    <3>. DEFINE n == IF f \in ToSet(e.registered) THEN Last(e.field_ptr[f]) ELSE 0
    <3>1. n \in Int
      BY <2>3, RaggedOfSingle
    <3>2. MergedPtr(S, e)[f] = IF f \notin ToSet(MergedOrder(e)) THEN field_ptr[f]
                               ELSE IF f \notin S THEN Opened(field_ptr[f])
                               ELSE Extended(field_ptr[f], n)
      BY <2>3 DEF MergedPtr
    <3>. HIDE DEF n
    <3>3. Extended(field_ptr[f], n) \in Seq(Int) /\ Opened(field_ptr[f]) \in Seq(Int)
      BY <2>1, <3>1, ExtendedPtr
    <3>. QED  BY <2>1, <3>2, <3>3
  <2>. QED  BY <2>2, <2>3
<1>6. MergedValues(S, e, inc) \in [Fields -> Seq(Int)]
  BY <1>4 DEF MergedValues
<1>7. MergedPtr(S, e) \in [Fields -> Seq(Int)]
  BY <1>5 DEF MergedPtr
<1>. QED  BY <1>3, <1>6, <1>7

\* An encoding put together from typed fields and the columns of a builder is typed.
LEMMA BatchTyped ==
  ASSUME FieldTypeOK, Good(LayoutOf(encoding')),
         NEW vals \in [Fields -> Seq(Int)], NEW ptr \in [Fields -> Seq(Int)],
         NEW boundaries, NEW n, encoding' = Batch(vals, ptr, boundaries, n)
  PROVE  encoding' \in BatchType
<1>. DEFINE e == encoding'
<1>1. /\ e.registered = registered /\ e.values = vals /\ e.field_ptr = ptr
      /\ e = [registered |-> e.registered, values |-> e.values, field_ptr |-> e.field_ptr,
              ptrs |-> e.ptrs, edge_index |-> e.edge_index, num_graphs |-> e.num_graphs]
  BY DEF Batch
<1>2. LayoutType(LayoutOf(e))
  BY DEF Good
<1>3. /\ e.ptrs \in [NodeTypes -> Seq(Nat)] /\ e.edge_index \in [EdgeTypes -> Seq(Edge)]
      /\ e.num_graphs \in Nat
  BY <1>2 DEF LayoutType, LayoutOf
<1>. HIDE DEF e
<1>4. e \in BatchType
  BY <1>1, <1>3 DEF BatchType, FieldTypeOK, Rows
<1>. QED  BY <1>4 DEF e

\* A cleared builder is typed.
LEMMA ClearedFields ==
  ASSUME Cleared
  PROVE  FieldTypeOK' /\ PendingOK' /\ torn' \in BOOLEAN
<1>1. /\ registered' = <<>> /\ values' = NoRows /\ field_ptr' = NoRows
      /\ pending' = NothingPending /\ torn' = FALSE
  BY DEF Cleared
<1>2. <<>> \in Seq(Fields) /\ <<>> \in Seq(Int)
  OBVIOUS
<1>3. FieldTypeOK'
  BY <1>1, <1>2 DEF FieldTypeOK, Rows, NoRows, NothingPending
<1>4. PendingOK'
  BY <1>1 DEF PendingOK, NothingPending
<1>. QED  BY <1>1, <1>3, <1>4

\* The types hold at first, and each call keeps them.
LEMMA InitFieldInv == Init => FieldInv
<1>. SUFFICES ASSUME Init PROVE FieldInv
  OBVIOUS
<1>1. /\ registered = <<>> /\ values = NoRows /\ field_ptr = NoRows
      /\ pending = NothingPending /\ torn = FALSE /\ encoding = None
  BY DEF Init, FieldsInit
<1>2. <<>> \in Seq(Fields) /\ <<>> \in Seq(Int)
  OBVIOUS
<1>3. FieldTypeOK
  BY <1>1, <1>2 DEF FieldTypeOK, Rows, NoRows, NothingPending
<1>4. PendingOK
  BY <1>1 DEF PendingOK, NothingPending
<1>. QED  BY <1>1, <1>3, <1>4 DEF FieldInv

LEMMA RegisterFieldInv ==
  ASSUME FieldInv, NEW f \in Fields, RegisterGraphField(f)
  PROVE  FieldInv'
<1>1. /\ FieldTypeOK /\ PendingOK
      /\ registered' = With(registered, f)
      /\ field_ptr' = IF f \in ToSet(registered) THEN field_ptr
                      ELSE [field_ptr EXCEPT ![f] = FreshPtr(f)]
      /\ UNCHANGED <<values, pending, torn, encoding>>
  BY DEF FieldInv, RegisterGraphField, RegisterField, With
<1>2. registered' \in Seq(Fields) /\ ToSet(registered) \subseteq ToSet(registered')
  BY <1>1, KeysAppended DEF FieldTypeOK
<1>3. FreshPtr(f) \in Seq(Int)
  BY DEF FreshPtr
<1>4. field_ptr' \in [Fields -> Seq(Int)]
  BY <1>1, <1>3 DEF FieldTypeOK, Rows
<1>5. FieldTypeOK'
  BY <1>1, <1>2, <1>4 DEF FieldTypeOK, Rows
<1>6. PendingOK'
  <2>1. ASSUME NEW g \in Fields, pending[g] # NoValue
        PROVE  g \in ToSet(registered') /\ (Mode[g] \in {"STACK", "CONST"} => Len(pending[g]) = 1)
    BY <1>1, <1>2, <2>1 DEF PendingOK
  <2>. QED  BY <1>1, <2>1 DEF PendingOK
<1>. QED  BY <1>1, <1>5, <1>6 DEF FieldInv

LEMMA SetFieldInv ==
  ASSUME FieldInv, NEW f \in Fields, NEW rows \in FieldInputs[f], SetGraphField(f, rows)
  PROVE  FieldInv'
<1>1. /\ FieldTypeOK /\ PendingOK /\ f \in ToSet(registered)
      /\ Mode[f] \in {"STACK", "CONST"} => Len(rows) = 1
      /\ pending' = [pending EXCEPT ![f] = rows]
      /\ UNCHANGED <<registered, values, field_ptr, torn, encoding>>
  BY DEF FieldInv, SetGraphField, SetField
<1>2. rows \in Seq(Int)
  BY FieldUses
<1>3. pending' \in [Fields -> Seq(Int) \cup {NoValue}]
  BY <1>1, <1>2 DEF FieldTypeOK, Rows
<1>4. FieldTypeOK'
  BY <1>1, <1>3 DEF FieldTypeOK, Rows
<1>5. PendingOK'
  <2>1. pending \in [Fields -> Seq(Int) \cup {NoValue}]
    BY <1>1 DEF FieldTypeOK, Rows
  <2>2. ASSUME NEW g \in Fields, pending'[g] # NoValue
        PROVE  g \in ToSet(registered) /\ (Mode[g] \in {"STACK", "CONST"} => Len(pending'[g]) = 1)
    BY <1>1, <2>1, <2>2 DEF PendingOK
  <2>. QED  BY <1>1, <2>2 DEF PendingOK
<1>. QED  BY <1>1, <1>4, <1>5 DEF FieldInv

\* commit_graph_fields, to its end or until it throws.
LEMMA CommitFieldInv ==
  ASSUME IInv, FieldInv, NEW S,
         values' = CommittedValues(S, CommitInc), field_ptr' = CommittedPtr(S),
         pending' = CommittedPending(S), torn' \in BOOLEAN, UNCHANGED <<registered, encoding>>
  PROVE  FieldInv'
<1>1. FieldTypeOK /\ PendingOK /\ CommitInc \in [Fields -> Int]
  BY IncrementsTyped DEF FieldInv
<1>2. FieldTypeOK'
  BY <1>1, CommittedTyped DEF FieldTypeOK, Rows
<1>3. \A f \in Fields : pending'[f] # NoValue => pending'[f] = pending[f]
  BY DEF CommittedPending
<1>4. PendingOK'
  BY <1>1, <1>3 DEF PendingOK
<1>. QED  BY <1>2, <1>4 DEF FieldInv

LEMMA MergeFieldInv ==
  ASSUME IInv, FieldInv, NEW e \in Encodings, NEW S,
         registered' = MergedOrder(e), values' = MergedValues(S, e, MergeInc(e)),
         field_ptr' = MergedPtr(S, e), torn' \in BOOLEAN, UNCHANGED <<pending, encoding>>
  PROVE  FieldInv'
<1>1. FieldTypeOK /\ PendingOK /\ MergeInc(e) \in [Fields -> Int]
  BY IncrementsTyped DEF FieldInv
<1>2. /\ registered' \in Seq(Fields)
      /\ ToSet(registered') = ToSet(registered) \cup ToSet(e.registered)
      /\ values' \in [Fields -> Seq(Int)] /\ field_ptr' \in [Fields -> Seq(Int)]
  BY <1>1, MergedTyped
<1>3. FieldTypeOK'
  BY <1>1, <1>2 DEF FieldTypeOK, Rows
<1>4. PendingOK'
  BY <1>1, <1>2 DEF PendingOK
<1>. QED  BY <1>3, <1>4 DEF FieldInv

LEMMA BuildTyped ==
  ASSUME IInv, FieldInv, Build
  PROVE  encoding' \in BatchType
<1>1. FieldTypeOK /\ Good(LayoutOf(encoding')) /\ CommitInc \in [Fields -> Int]
  BY IncrementsTyped, BuildGood DEF FieldInv
<1>2. CASE encoding' = Batch(CommittedValues(ToSet(registered), CommitInc),
                             CommittedPtr(ToSet(registered)), CommittedPtrs,
                             GraphCount(CommittedPtrs, counted, current_graph_idx + 1))
  BY <1>1, <1>2, CommittedTyped, BatchTyped
<1>3. CASE encoding' = Batch(values, field_ptr, ptrs,
                             GraphCount(ptrs, counted, current_graph_idx))
  <2>1. values \in [Fields -> Seq(Int)] /\ field_ptr \in [Fields -> Seq(Int)]
    BY <1>1 DEF FieldTypeOK, Rows
  <2>. QED  BY <1>1, <1>3, <2>1, BatchTyped
<1>. QED  BY <1>2, <1>3 DEF Build

LEMMA BuildFieldInv ==
  ASSUME IInv, FieldInv, Build
  PROVE  FieldInv'
<1>1. FieldTypeOK' /\ PendingOK' /\ torn' \in BOOLEAN
  BY ClearedFields DEF Build
<1>. QED  BY <1>1, BuildTyped DEF FieldInv

LEMMA LoadFieldInv ==
  ASSUME FieldInv, LoadFromEncoding
  PROVE  FieldInv'
<1>1. /\ encoding \in BatchType /\ registered' = encoding.registered
      /\ values' = encoding.values /\ field_ptr' = encoding.field_ptr
      /\ pending' = NothingPending /\ torn' = FALSE /\ encoding' = None
  BY DEF FieldInv, LoadFromEncoding
<1>2. /\ encoding.registered \in Seq(Fields) /\ encoding.values \in [Fields -> Rows]
      /\ encoding.field_ptr \in [Fields -> Rows]
  BY <1>1 DEF BatchType
<1>3. FieldTypeOK'
  BY <1>1, <1>2 DEF FieldTypeOK, Rows, NothingPending
<1>4. PendingOK'
  BY <1>1 DEF PendingOK, NothingPending
<1>. QED  BY <1>1, <1>3, <1>4 DEF FieldInv

LEMMA NextFieldInv == IInv /\ FieldInv /\ [Next]_vars => FieldInv'
<1>. SUFFICES ASSUME IInv, FieldInv, [Next]_vars PROVE FieldInv'
  OBVIOUS
<1>1. ASSUME UNCHANGED <<fieldVars, torn, encoding>> PROVE FieldInv'
  BY <1>1 DEF fieldVars, FieldInv, FieldTypeOK, PendingOK
<1>2. ASSUME NEW t \in NodeTypes, NEW count \in 0..MaxNodes[t], AddNodes(t, count) PROVE FieldInv'
  BY <1>1, <1>2 DEF AddNodes
<1>3. ASSUME NEW e \in EdgeTypes, NEW i \in 0..(MaxNodes[SrcOf[e]] - 1),
             NEW j \in 0..(MaxNodes[DstOf[e]] - 1), AddEdge(e, i, j)
      PROVE  FieldInv'
  BY <1>1, <1>3 DEF AddEdge
<1>4. ASSUME NEW f \in Fields, RegisterGraphField(f) PROVE FieldInv'
  BY <1>4, RegisterFieldInv
<1>5. ASSUME NEW f \in Fields, NEW rows \in FieldInputs[f], SetGraphField(f, rows) PROVE FieldInv'
  BY <1>5, SetFieldInv
<1>6. CASE NextGraph
  <2>1. torn' \in BOOLEAN
    BY <1>6 DEF NextGraph, FieldInv
  <2>. QED  BY <1>6, <2>1, CommitFieldInv DEF NextGraph
<1>7. CASE NextGraphThrows
  BY <1>7, CommitFieldInv DEF NextGraphThrows
<1>8. ASSUME NEW e \in Encodings, AppendEncoding(e) PROVE FieldInv'
  <2>1. torn' \in BOOLEAN
    BY <1>8 DEF AppendEncoding, FieldInv
  <2>. QED  BY <1>8, <2>1, MergeFieldInv DEF AppendEncoding
<1>9. ASSUME NEW e \in Encodings, AppendEncodingThrows(e) PROVE FieldInv'
  BY <1>9, MergeFieldInv DEF AppendEncodingThrows
<1>10. CASE Build
  BY <1>10, BuildFieldInv
<1>11. CASE Reset
  BY <1>11, ClearedFields DEF Reset, FieldInv
<1>12. CASE LoadFromEncoding
  BY <1>12, LoadFieldInv
<1>13. CASE UNCHANGED vars
  BY <1>1, <1>13 DEF vars
<1>. QED  BY <1>2, <1>3, <1>4, <1>5, <1>6, <1>7, <1>8, <1>9, <1>10, <1>11, <1>12, <1>13 DEF Next

-----------------------------------------------------------------------------
(* Storage.  A whole commit adds one graph to every field; a torn one does *)
(* not, and is not built.                                                  *)

\* n graphs are held by fields with these keys, rows and boundaries.
FieldsValid(keys, vals, ptr, n) ==
  \A f \in Fields :
    IF f \in ToSet(keys) THEN ValidStorage(f, vals[f], ptr[f], n)
    ELSE vals[f] = <<>> /\ ptr[f] = <<>>

\* One graph more, of m rows.
LEMMA StorageGrown ==
  ASSUME NEW f \in Fields, NEW rows \in Seq(Int), NEW ptr \in Seq(Int), NEW n \in Nat,
         ValidStorage(f, rows, ptr, n),
         NEW grown \in Seq(Int), NEW m \in Nat,
         Mode[f] \in {"STACK", "RAGGED_CAT"} => Len(grown) = Len(rows) + m,
         Mode[f] = "STACK" => m = 1,
         Mode[f] = "CONST" => Len(grown) = 1
  PROVE  ValidStorage(f, grown, IF Mode[f] = "RAGGED_CAT" THEN Extended(ptr, m) ELSE ptr, n + 1)
<1>1. Mode[f] \in Modes
  BY FieldModes
<1>2. CASE Mode[f] = "STACK"
  BY <1>2 DEF ValidStorage
<1>3. CASE Mode[f] = "CONST"
  BY <1>3 DEF ValidStorage
<1>4. CASE Mode[f] = "CAT"
  BY <1>4 DEF ValidStorage
<1>5. CASE Mode[f] = "RAGGED_CAT"
  <2>. DEFINE longer == Append(ptr, Last(ptr) + m)
  <2>1. /\ Len(ptr) = n + 1 /\ ptr[1] = 0
        /\ \A i \in 1..(Len(ptr) - 1) : ptr[i] <= ptr[i + 1]
        /\ Last(ptr) = Len(rows)
    BY <1>5 DEF ValidStorage
  <2>2. ptr # <<>>
    BY <2>1, EmptySeq
  <2>3. Extended(ptr, m) = longer
    BY <2>2 DEF Extended, Opened
  <2>4. Last(ptr) = ptr[n + 1] /\ ptr[n + 1] \in Int /\ Len(rows) \in Nat
    BY <2>1, LenProperties DEF Last
  <2>5. /\ longer \in Seq(Int) /\ Len(longer) = n + 2
        /\ \A i \in 1..(n + 1) : longer[i] = ptr[i]
        /\ longer[n + 2] = ptr[n + 1] + m
    <3>1. Last(ptr) + m \in Int
      BY <2>4
    <3>2. /\ longer \in Seq(Int) /\ Len(longer) = Len(ptr) + 1
          /\ \A i \in 1..Len(ptr) : longer[i] = ptr[i]
          /\ longer[Len(ptr) + 1] = Last(ptr) + m
      BY <3>1, AppendProperties
    <3>3. n + 1 + 1 = n + 2
      OBVIOUS
    <3>. HIDE DEF longer
    <3>. QED  BY <2>1, <2>4, <3>2, <3>3
  <2>. HIDE DEF longer
  <2>6. Last(longer) = Len(grown)
    BY <1>5, <2>1, <2>4, <2>5 DEF Last
  <2>7. longer[1] = 0 /\ Len(longer) = (n + 1) + 1
    BY <2>1, <2>5
  <2>8. \A i \in 1..(Len(longer) - 1) : longer[i] <= longer[i + 1]
    <3>1. SUFFICES ASSUME NEW i \in 1..(n + 1) PROVE longer[i] <= longer[i + 1]
      BY <2>5
    <3>2. CASE i = n + 1
      <4>1. i + 1 = n + 2
        BY <3>2
      <4>. QED  BY <2>4, <2>5, <3>2, <4>1
    <3>3. CASE i # n + 1
      <4>1. i \in 1..(Len(ptr) - 1) /\ i + 1 \in 1..(n + 1)
        BY <2>1, <3>3
      <4>. QED  BY <2>1, <2>5, <4>1
    <3>. QED  BY <3>2, <3>3
  <2>9. ValidStorage(f, grown, longer, n + 1)
    BY <1>5, <2>6, <2>7, <2>8 DEF ValidStorage
  <2>. QED  BY <1>5, <2>3, <2>9
<1>. QED  BY <1>1, <1>2, <1>3, <1>4, <1>5 DEF Modes

\* A commit that does not throw adds one graph to every field.
LEMMA CommittedValid ==
  ASSUME FieldInv, NEW inc \in [Fields -> Int], NEW n \in Nat, NEW first \in BOOLEAN,
         ~CommitThrows(first), FieldsValid(registered, values, field_ptr, n)
  PROVE  FieldsValid(registered, CommittedValues(ToSet(registered), inc),
                     CommittedPtr(ToSet(registered)), n + 1)
<1>. DEFINE S == ToSet(registered)
            vals == CommittedValues(S, inc)
            ptr == CommittedPtr(S)
<1>1. SUFFICES ASSUME NEW f \in Fields
               PROVE  IF f \in S THEN ValidStorage(f, vals[f], ptr[f], n + 1)
                      ELSE vals[f] = <<>> /\ ptr[f] = <<>>
  BY DEF FieldsValid
<1>2. /\ values \in [Fields -> Seq(Int)] /\ field_ptr \in [Fields -> Seq(Int)]
      /\ pending \in [Fields -> Seq(Int) \cup {NoValue}] /\ PendingOK /\ FieldTypeOK
  BY DEF FieldInv, FieldTypeOK, Rows
<1>3. CASE f \notin S
  <2>1. vals[f] = values[f] /\ ptr[f] = field_ptr[f]
    BY <1>3 DEF CommittedValues, CommittedPtr
  <2>. QED  BY <1>3, <2>1 DEF FieldsValid
<1>4. CASE f \in S
  <2>. DEFINE m == IF pending[f] = NoValue THEN 0 ELSE Len(pending[f])
  <2>1. ValidStorage(f, values[f], field_ptr[f], n) /\ ~Refused(f, first)
    BY <1>4 DEF FieldsValid, CommitThrows
  <2>2. vals[f] \in Seq(Int) /\ values[f] \in Seq(Int) /\ field_ptr[f] \in Seq(Int)
    BY <1>2, CommittedTyped
  <2>3. ptr[f] = IF Mode[f] = "RAGGED_CAT" THEN Extended(field_ptr[f], m) ELSE field_ptr[f]
    BY <1>4 DEF CommittedPtr
  <2>4. CASE pending[f] = NoValue
    <3>1. m = 0 /\ Len(vals[f]) = Len(values[f]) + m /\ Mode[f] \notin {"STACK", "CONST"}
      <4>1. vals[f] = values[f]
        BY <2>4 DEF CommittedValues
      <4>2. Len(values[f]) \in Nat
        BY <2>2, LenProperties
      <4>. QED  BY <2>1, <2>4, <4>1, <4>2 DEF Refused
    <3>. HIDE DEF m, vals, ptr, S
    <3>2. ValidStorage(f, vals[f], IF Mode[f] = "RAGGED_CAT" THEN Extended(field_ptr[f], m)
                                   ELSE field_ptr[f], n + 1)
      BY <2>1, <2>2, <3>1, StorageGrown
    <3>. QED  BY <1>4, <2>3, <3>2
  <2>5. CASE pending[f] # NoValue
    <3>1. pending[f] \in Seq(Int) /\ m = Len(pending[f]) /\ inc[f] \in Int
      BY <1>2, <2>5
    <3>2. m \in Nat /\ (Mode[f] \in {"STACK", "CONST"} => m = 1)
      BY <1>2, <2>5, <3>1, LenProperties DEF PendingOK
    <3>3. vals[f] = IF Mode[f] = "CONST" THEN pending[f]
                    ELSE values[f] \o Shifted(pending[f], inc[f])
      BY <1>4, <2>5 DEF CommittedValues
    <3>4. Len(values[f] \o Shifted(pending[f], inc[f])) = Len(values[f]) + m
      <4>. HIDE DEF m, vals, ptr, S
      <4>1. Len(values[f] \o Shifted(pending[f], inc[f])) = Len(values[f]) + Len(pending[f])
        BY <2>2, <3>1, JoinedRows, ZenonT(30)
      <4>. QED  BY <3>1, <4>1
    <3>5. /\ Mode[f] \in {"STACK", "RAGGED_CAT"} => Len(vals[f]) = Len(values[f]) + m
          /\ Mode[f] = "CONST" => Len(vals[f]) = 1
      <4>. HIDE DEF vals, S
      <4>. QED  BY <3>1, <3>2, <3>3, <3>4
    <3>. HIDE DEF m, vals, ptr, S
    <3>6. ValidStorage(f, vals[f], IF Mode[f] = "RAGGED_CAT" THEN Extended(field_ptr[f], m)
                                   ELSE field_ptr[f], n + 1)
      BY <2>1, <2>2, <3>2, <3>5, StorageGrown
    <3>. QED  BY <1>4, <2>3, <3>6
  <2>. QED  BY <2>4, <2>5
<1>. QED  BY <1>3, <1>4

\* A field that is new to the batch holds no graph yet, so it may only come
\* with the first one.
LEMMA MergedValid ==
  ASSUME FieldInv, NEW e \in Encodings, NEW inc \in [Fields -> Int], NEW n \in Nat,
         ~MergeThrows(e), FieldsValid(registered, values, field_ptr, n),
         ToSet(e.registered) \subseteq ToSet(registered) \/ n = 0
  PROVE  FieldsValid(MergedOrder(e), MergedValues(ToSet(MergedOrder(e)), e, inc),
                     MergedPtr(ToSet(MergedOrder(e)), e), n + 1)
<1>. DEFINE S == ToSet(MergedOrder(e))
            vals == MergedValues(S, e, inc)
            ptr == MergedPtr(S, e)
<1>1. SUFFICES ASSUME NEW f \in Fields
               PROVE  IF f \in S THEN ValidStorage(f, vals[f], ptr[f], n + 1)
                      ELSE vals[f] = <<>> /\ ptr[f] = <<>>
  BY DEF FieldsValid
<1>2. /\ values \in [Fields -> Seq(Int)] /\ field_ptr \in [Fields -> Seq(Int)] /\ FieldTypeOK
      /\ e.values \in [Fields -> Seq(Int)]
  BY SingleFields DEF FieldInv, FieldTypeOK, Rows
<1>3. S = ToSet(registered) \cup ToSet(e.registered)
  BY <1>2, MergedTyped
<1>4. CASE f \notin S
  <2>1. vals[f] = values[f] /\ ptr[f] = field_ptr[f]
    BY <1>4 DEF MergedValues, MergedPtr
  <2>. QED  BY <1>3, <1>4, <2>1 DEF FieldsValid
<1>5. CASE f \in S
  <2>. DEFINE m == IF f \in ToSet(e.registered) THEN Len(e.values[f]) ELSE 0
              old == IF Mode[f] = "RAGGED_CAT" THEN Opened(field_ptr[f]) ELSE field_ptr[f]
  <2>1. /\ vals[f] \in Seq(Int) /\ values[f] \in Seq(Int) /\ field_ptr[f] \in Seq(Int)
        /\ e.values[f] \in Seq(Int) /\ inc[f] \in Int /\ old \in Seq(Int)
    <3>1. vals \in [Fields -> Seq(Int)]
      BY <1>2, MergedTyped
    <3>2. field_ptr[f] \in Seq(Int)
      BY <1>2
    <3>3. old \in Seq(Int)
      BY <3>2, ExtendedPtr
    <3>. HIDE DEF vals, old
    <3>. QED  BY <1>2, <3>1, <3>2, <3>3
  <2>2. ~MergeRefused(f, e)
    BY <1>5 DEF MergeThrows
  <2>3. ValidStorage(f, values[f], old, n)
    <3>1. CASE f \in ToSet(registered)
      <4>1. ValidStorage(f, values[f], field_ptr[f], n)
        BY <3>1 DEF FieldsValid
      <4>2. CASE Mode[f] = "RAGGED_CAT"
        <5>1. Len(field_ptr[f]) = n + 1
          BY <4>1, <4>2 DEF ValidStorage
        <5>2. field_ptr[f] # <<>>
          BY <5>1, EmptySeq
        <5>. QED  BY <2>1, <4>1, <4>2, <5>2, ExtendedPtr
      <4>3. CASE Mode[f] # "RAGGED_CAT"
        BY <4>1, <4>3
      <4>. QED  BY <4>2, <4>3
    <3>2. CASE f \notin ToSet(registered)
      <4>1. n = 0 /\ values[f] = <<>> /\ field_ptr[f] = <<>>
        BY <1>3, <1>5, <3>2 DEF FieldsValid
      <4>2. Mode[f] \in Modes
        BY FieldModes
      <4>3. CASE Mode[f] = "RAGGED_CAT"
        <5>1. old = <<0>> /\ Len(old) = 1 /\ old[1] = 0 /\ Last(old) = 0 /\ Len(values[f]) = 0
          BY <4>1, <4>3 DEF Opened, Last
        <5>. HIDE DEF old
        <5>. QED  BY <4>1, <4>3, <5>1 DEF ValidStorage
      <4>4. CASE Mode[f] # "RAGGED_CAT"
        <5>1. old = <<>> /\ Len(values[f]) = 0
          BY <4>1, <4>4
        <5>. HIDE DEF old
        <5>. QED  BY <4>1, <4>2, <4>4, <5>1 DEF ValidStorage, Modes
      <4>. QED  BY <4>3, <4>4
    <3>. QED  BY <3>1, <3>2
  <2>4. m \in Nat
    BY <2>1, LenProperties
  <2>5. ptr[f] = IF Mode[f] = "RAGGED_CAT" THEN Extended(old, m) ELSE old
    <3>1. CASE Mode[f] # "RAGGED_CAT"
      BY <1>5, <3>1 DEF MergedPtr
    <3>2. CASE Mode[f] = "RAGGED_CAT"
      <4>1. ptr[f] = Extended(field_ptr[f], m)
        BY <1>5, <3>2, RaggedOfSingle DEF MergedPtr
      <4>2. Extended(Opened(field_ptr[f]), m) = Extended(field_ptr[f], m)
        <5>1. Opened(Opened(field_ptr[f])) = Opened(field_ptr[f])
          BY DEF Opened
        <5>. QED  BY <5>1 DEF Extended
      <4>. QED  BY <3>2, <4>1, <4>2
    <3>. QED  BY <3>1, <3>2
  <2>6. /\ Mode[f] \in {"STACK", "RAGGED_CAT"} => Len(vals[f]) = Len(values[f]) + m
        /\ Mode[f] = "STACK" => m = 1
        /\ Mode[f] = "CONST" => Len(vals[f]) = 1
    <3>1. CASE f \in ToSet(e.registered)
      <4>1. ValidStorage(f, e.values[f], e.field_ptr[f], 1)
        BY <3>1, SingleFields
      <4>2. Mode[f] \in {"STACK", "CONST"} => Len(e.values[f]) = 1
        BY <4>1 DEF ValidStorage
      <4>3. vals[f] = IF Mode[f] = "CONST" THEN e.values[f]
                      ELSE values[f] \o Shifted(e.values[f], inc[f])
        BY <1>5, <3>1 DEF MergedValues
      <4>4. Len(values[f] \o Shifted(e.values[f], inc[f])) = Len(values[f]) + Len(e.values[f])
        BY <2>1, JoinedRows, ZenonT(30)
      <4>. HIDE DEF vals, S
      <4>. QED  BY <3>1, <4>2, <4>3, <4>4
    <3>2. CASE f \notin ToSet(e.registered)
      <4>1. Mode[f] \notin {"STACK", "CONST"} /\ vals[f] = values[f] /\ m = 0
        BY <2>2, <3>2 DEF MergeRefused, MergedValues
      <4>2. Len(values[f]) \in Nat
        BY <2>1, LenProperties
      <4>. HIDE DEF vals, S, m
      <4>. QED  BY <4>1, <4>2
    <3>. QED  BY <3>1, <3>2
  <2>. HIDE DEF vals, ptr, S, m, old
  <2>7. ValidStorage(f, vals[f], IF Mode[f] = "RAGGED_CAT" THEN Extended(old, m) ELSE old, n + 1)
    BY <2>1, <2>3, <2>4, <2>6, StorageGrown
  <2>. QED  BY <1>5, <2>5, <2>7
<1>. QED  BY <1>4, <1>5

\* The number of graphs that build() finds is the number that was committed.
LEMMA BuiltGraphCount ==
  ASSUME IInv
  PROVE  /\ HasTypedGraphs => GraphCount(ptrs, counted, current_graph_idx) = current_graph_idx
         /\ MayCommit => GraphCount(CommittedPtrs, counted, current_graph_idx + 1)
                           = current_graph_idx + 1
<1>1. Good(Layout) /\ current_graph_idx \in Nat
  BY LayoutFacts DEF IInv, Good, LayoutType
<1>2. ASSUME HasTypedGraphs
      PROVE  GraphCount(ptrs, counted, current_graph_idx) = current_graph_idx
  <2>. DEFINE b == Layout
  <2>1. b.ptrs = ptrs /\ b.num_graphs = current_graph_idx
    BY LayoutFacts
  <2>. HIDE DEF b
  <2>2. GraphCount(b.ptrs, counted, b.num_graphs) = b.num_graphs
    BY <1>1, <1>2, <2>1, GraphCountIsRight DEF Good, HasTypedGraphs, b
  <2>. QED  BY <2>1, <2>2
<1>3. ASSUME MayCommit
      PROVE  GraphCount(CommittedPtrs, counted, current_graph_idx + 1) = current_graph_idx + 1
  <2>. DEFINE b == Committed(Layout)
  <2>1. b.ptrs = CommittedPtrs /\ b.num_graphs = current_graph_idx + 1
    BY CommittedLayout
  <2>2. Good(b)
    BY <1>1, <1>3, LayoutFacts, CommittedGood DEF MayCommit
  <2>. HIDE DEF b
  <2>3. b.num_graphs > 0
    BY <1>1, <2>1
  <2>4. GraphCount(b.ptrs, counted, b.num_graphs) = b.num_graphs
    BY <2>2, <2>3, GraphCountIsRight DEF Good
  <2>. QED  BY <2>1, <2>4
<1>. QED  BY <1>2, <1>3

StorageInv ==
  /\ ~torn => FieldsValid(registered, values, field_ptr, current_graph_idx)
  /\ encoding # None =>
       FieldsValid(encoding.registered, encoding.values, encoding.field_ptr, encoding.num_graphs)

\* No fields hold no graphs.
LEMMA NothingHeld ==
  ASSUME NEW keys, NEW vals, NEW ptr, keys = <<>>, vals = NoRows, ptr = NoRows
  PROVE  FieldsValid(keys, vals, ptr, 0)
<1>1. ToSet(keys) = {}
  BY DEF ToSet
<1>. QED  BY <1>1 DEF FieldsValid, NoRows

\* The storage is valid at first, and each call keeps it so.
LEMMA InitStorageInv == Init => StorageInv
  BY NothingHeld DEF Init, FieldsInit, StorageInv

\* A field that is registered before the first graph holds none.
LEMMA RegisterStorageInv ==
  ASSUME "late" \notin Liberties, FieldInv, StorageInv, NEW f \in Fields, RegisterGraphField(f)
  PROVE  StorageInv'
<1>1. /\ registered \in Seq(Fields) /\ field_ptr \in [Fields -> Seq(Int)]
      /\ ~torn /\ current_graph_idx = 0
      /\ registered' = With(registered, f)
      /\ field_ptr' = IF f \in ToSet(registered) THEN field_ptr
                      ELSE [field_ptr EXCEPT ![f] = FreshPtr(f)]
      /\ UNCHANGED <<values, current_graph_idx, torn, encoding>>
  BY DEF FieldInv, FieldTypeOK, Rows, RegisterGraphField, RegisterField, With, Usable, graphVars
<1>2. FieldsValid(registered, values, field_ptr, 0)
  BY <1>1 DEF StorageInv
<1>3. ToSet(registered') = ToSet(registered) \cup {f}
  BY <1>1, KeysAppended
<1>4. FieldsValid(registered', values, field_ptr', 0)
  <2>1. SUFFICES ASSUME NEW g \in Fields
                 PROVE  IF g \in ToSet(registered') THEN ValidStorage(g, values[g], field_ptr'[g], 0)
                        ELSE values[g] = <<>> /\ field_ptr'[g] = <<>>
    BY DEF FieldsValid
  <2>2. CASE g # f \/ f \in ToSet(registered)
    <3>1. field_ptr'[g] = field_ptr[g] /\ (g \in ToSet(registered') <=> g \in ToSet(registered))
      BY <1>1, <1>3, <2>2
    <3>. QED  BY <1>2, <3>1 DEF FieldsValid
  <2>3. CASE g = f /\ f \notin ToSet(registered)
    <3>1. values[f] = <<>> /\ field_ptr'[f] = FreshPtr(f)
      BY <1>1, <1>2, <2>3 DEF FieldsValid
    <3>2. Mode[f] \in Modes /\ Len(values[f]) = 0
      BY <3>1, FieldModes
    <3>3. CASE Mode[f] = "RAGGED_CAT"
      <4>1. field_ptr'[f] = <<0>> /\ Len(<<0>>) = 1 /\ <<0>>[1] = 0 /\ Last(<<0>>) = 0
        BY <3>1, <3>3 DEF FreshPtr, Last
      <4>2. ValidStorage(f, values[f], field_ptr'[f], 0)
        BY <3>2, <3>3, <4>1 DEF ValidStorage
      <4>. QED  BY <1>3, <2>3, <4>2
    <3>4. CASE Mode[f] # "RAGGED_CAT"
      <4>1. field_ptr'[f] = <<>>
        BY <3>1, <3>4 DEF FreshPtr
      <4>2. ValidStorage(f, values[f], field_ptr'[f], 0)
        BY <3>2, <3>4, <4>1 DEF ValidStorage, Modes
      <4>. QED  BY <1>3, <2>3, <4>2
    <3>. QED  BY <3>3, <3>4
  <2>. QED  BY <2>2, <2>3
<1>. QED  BY <1>1, <1>4 DEF StorageInv

LEMMA NextGraphStorageInv ==
  ASSUME IInv, FieldInv, StorageInv, NextGraph
  PROVE  StorageInv'
<1>1. /\ ~torn /\ encoding = None /\ ~CommitThrows(FirstGraph) /\ FirstGraph \in BOOLEAN
      /\ values' = CommittedValues(ToSet(registered), CommitInc)
      /\ field_ptr' = CommittedPtr(ToSet(registered))
      /\ current_graph_idx' = current_graph_idx + 1
      /\ UNCHANGED <<registered, torn, encoding>>
  BY DEF NextGraph, Usable, FirstGraph
<1>2. current_graph_idx \in Nat /\ CommitInc \in [Fields -> Int]
  BY LayoutFacts, IncrementsTyped DEF IInv, Good, LayoutType, FieldInv
<1>3. FieldsValid(registered, values, field_ptr, current_graph_idx)
  BY <1>1 DEF StorageInv
<1>4. FieldsValid(registered', values', field_ptr', current_graph_idx')
  BY <1>1, <1>2, <1>3, CommittedValid
<1>. QED  BY <1>1, <1>4 DEF StorageInv

LEMMA AppendStorageInv ==
  ASSUME "late" \notin Liberties, IInv, FieldInv, StorageInv, NEW e \in Encodings, AppendEncoding(e)
  PROVE  StorageInv'
<1>1. /\ ~torn /\ encoding = None /\ ~MergeThrows(e)
      /\ ToSet(e.registered) \subseteq ToSet(registered) \/ current_graph_idx = 0
      /\ registered' = MergedOrder(e)
      /\ values' = MergedValues(ToSet(MergedOrder(e)), e, MergeInc(e))
      /\ field_ptr' = MergedPtr(ToSet(MergedOrder(e)), e)
      /\ current_graph_idx' = current_graph_idx + 1
      /\ UNCHANGED <<torn, encoding>>
  BY DEF AppendEncoding, Usable, MayMerge, FirstGraph
<1>2. current_graph_idx \in Nat /\ MergeInc(e) \in [Fields -> Int]
  BY LayoutFacts, IncrementsTyped DEF IInv, Good, LayoutType, FieldInv
<1>3. FieldsValid(registered, values, field_ptr, current_graph_idx)
  BY <1>1 DEF StorageInv
<1>4. FieldsValid(registered', values', field_ptr', current_graph_idx')
  BY <1>1, <1>2, <1>3, MergedValid
<1>. QED  BY <1>1, <1>4 DEF StorageInv

LEMMA ClearedStorage ==
  ASSUME Cleared
  PROVE  FieldsValid(registered', values', field_ptr', current_graph_idx')
  BY NothingHeld DEF Cleared

LEMMA BuildStorageInv ==
  ASSUME IInv, FieldInv, StorageInv, Build
  PROVE  StorageInv'
<1>1. FieldsValid(registered', values', field_ptr', current_graph_idx')
  BY ClearedStorage DEF Build
<1>. DEFINE e == encoding'
<1>2. /\ current_graph_idx \in Nat /\ CommitInc \in [Fields -> Int] /\ FirstGraph \in BOOLEAN
      /\ FieldsValid(registered, values, field_ptr, current_graph_idx)
  BY LayoutFacts, IncrementsTyped
  DEF IInv, Good, LayoutType, FieldInv, StorageInv, Build, Usable, FirstGraph
<1>3. FieldsValid(e.registered, e.values, e.field_ptr, e.num_graphs)
  <2>1. CASE /\ HasUncommitted /\ MayCommit /\ ~CommitThrows(FirstGraph)
             /\ encoding' = Batch(CommittedValues(ToSet(registered), CommitInc),
                                  CommittedPtr(ToSet(registered)), CommittedPtrs,
                                  GraphCount(CommittedPtrs, counted, current_graph_idx + 1))
    <3>1. /\ e.registered = registered
          /\ e.values = CommittedValues(ToSet(registered), CommitInc)
          /\ e.field_ptr = CommittedPtr(ToSet(registered))
          /\ e.num_graphs = GraphCount(CommittedPtrs, counted, current_graph_idx + 1)
      BY <2>1 DEF Batch
    <3>2. e.num_graphs = current_graph_idx + 1
      BY <2>1, <3>1, BuiltGraphCount
    <3>. HIDE DEF e
    <3>. QED  BY <1>2, <2>1, <3>1, <3>2, CommittedValid
  <2>2. CASE /\ HasTypedGraphs
             /\ encoding' = Batch(values, field_ptr, ptrs,
                                  GraphCount(ptrs, counted, current_graph_idx))
    <3>1. /\ e.registered = registered /\ e.values = values /\ e.field_ptr = field_ptr
          /\ e.num_graphs = GraphCount(ptrs, counted, current_graph_idx)
      BY <2>2 DEF Batch
    <3>2. e.num_graphs = current_graph_idx
      BY <2>2, <3>1, BuiltGraphCount
    <3>. HIDE DEF e
    <3>. QED  BY <1>2, <3>1, <3>2
  <2>. QED  BY <2>1, <2>2 DEF Build
<1>. QED  BY <1>1, <1>3 DEF StorageInv

LEMMA LoadStorageInv ==
  ASSUME StorageInv, LoadFromEncoding
  PROVE  StorageInv'
  BY DEF StorageInv, LoadFromEncoding

LEMMA NextStorageInv ==
  ASSUME "late" \notin Liberties
  PROVE  IInv /\ FieldInv /\ StorageInv /\ [Next]_vars => StorageInv'
<1>. SUFFICES ASSUME IInv, FieldInv, StorageInv, [Next]_vars PROVE StorageInv'
  OBVIOUS
<1>1. ASSUME UNCHANGED <<registered, values, field_ptr, current_graph_idx, torn, encoding>>
      PROVE  StorageInv'
  BY <1>1 DEF StorageInv
<1>2. ASSUME NEW t \in NodeTypes, NEW count \in 0..MaxNodes[t], AddNodes(t, count) PROVE StorageInv'
  BY <1>1, <1>2 DEF AddNodes, fieldVars
<1>3. ASSUME NEW e \in EdgeTypes, NEW i \in 0..(MaxNodes[SrcOf[e]] - 1),
             NEW j \in 0..(MaxNodes[DstOf[e]] - 1), AddEdge(e, i, j)
      PROVE  StorageInv'
  BY <1>1, <1>3 DEF AddEdge, fieldVars
<1>4. ASSUME NEW f \in Fields, RegisterGraphField(f) PROVE StorageInv'
  BY <1>4, RegisterStorageInv
<1>5. ASSUME NEW f \in Fields, NEW rows \in FieldInputs[f], SetGraphField(f, rows) PROVE StorageInv'
  BY <1>1, <1>5 DEF SetGraphField, SetField, graphVars
<1>6. CASE NextGraph
  BY <1>6, NextGraphStorageInv
<1>7. CASE NextGraphThrows
  BY <1>7 DEF NextGraphThrows, Usable, StorageInv
<1>8. ASSUME NEW e \in Encodings, AppendEncoding(e) PROVE StorageInv'
  BY <1>8, AppendStorageInv
<1>9. ASSUME NEW e \in Encodings, AppendEncodingThrows(e) PROVE StorageInv'
  BY <1>9 DEF AppendEncodingThrows, Usable, StorageInv
<1>10. CASE Build
  BY <1>10, BuildStorageInv
<1>11. CASE Reset
  BY <1>11, ClearedStorage DEF Reset, StorageInv
<1>12. CASE LoadFromEncoding
  BY <1>12, LoadStorageInv
<1>13. CASE UNCHANGED vars
  BY <1>1, <1>13 DEF vars, fieldVars, graphVars
<1>. QED  BY <1>2, <1>3, <1>4, <1>5, <1>6, <1>7, <1>8, <1>9, <1>10, <1>11, <1>12, <1>13 DEF Next

-----------------------------------------------------------------------------
(* Ids.  A graph's ids lie within its own counts when it is stored, and    *)
(* are shifted by the counts stored before: the sum grows by the one and   *)
(* by the other.                                                           *)

RowsBelow(rows, counts) == \A i \in DOMAIN rows : rows[i] < CountSum(counts)

IdsInRange(vals) ==
  \A f \in Fields : IncKind[f] = "FIELD_OFFSET" => RowsBelow(vals[f], vals[IncOf[f]])

\* The ids of the open graph are assigned after its counts, and within them.
PendingInRange ==
  \A f \in Fields : IncKind[f] = "FIELD_OFFSET" /\ pending[f] # NoValue =>
    /\ pending[IncOf[f]] # NoValue
    /\ \A i \in DOMAIN pending[f] : pending[f][i] < pending[IncOf[f]][1]

RangeInv ==
  /\ ~torn => PendingInRange /\ IdsInRange(values)
  /\ encoding # None => IdsInRange(encoding.values)

\* Ids below their sum stay below it when one row of counts is added, and ids of
\* the new graph, shifted by the old sum, stay below the new one.
LEMMA RowsBelowGrown ==
  ASSUME NEW old \in Seq(Int), NEW rows \in Seq(Int), NEW counts \in Seq(Int),
         NEW one \in Seq(Int), Len(one) = 1, RowsBelow(old, counts), RowsBelow(rows, one)
  PROVE  /\ RowsBelow(old, counts \o one)
         /\ RowsBelow(rows, counts \o one)
         /\ RowsBelow(old \o Shifted(rows, CountSum(counts)), counts \o one)
<1>1. /\ CountSum(counts) \in Nat /\ CountSum(one) \in Nat
      /\ CountSum(counts \o one) = CountSum(counts) + CountSum(one)
  BY IdsAreFinite, CountsGrow
<1>2. /\ Len(old) \in Nat /\ DOMAIN old = 1..Len(old) /\ \A i \in 1..Len(old) : old[i] \in Int
      /\ Len(rows) \in Nat /\ DOMAIN rows = 1..Len(rows) /\ \A i \in 1..Len(rows) : rows[i] \in Int
  BY LenProperties
<1>. DEFINE a == CountSum(counts)  b == CountSum(one)  both == counts \o one
            new == old \o Shifted(rows, a)
<1>3. /\ \A i \in 1..Len(old) : old[i] < a
      /\ \A i \in 1..Len(rows) : rows[i] < b
  BY <1>2 DEF RowsBelow
<1>4. a \in Nat /\ a \in Int /\ b \in Nat /\ CountSum(both) = a + b
  BY <1>1
<1>. HIDE DEF a, b, both
<1>5. /\ new \in Seq(Int) /\ Len(new) = Len(old) + Len(rows)
      /\ \A i \in 1..Len(old) : new[i] = old[i]
      /\ \A i \in 1..Len(rows) : new[Len(old) + i] = rows[i] + a
  BY <1>4, JoinedRows, SMTT(30)
<1>. HIDE DEF new
<1>6. RowsBelow(old, both) /\ RowsBelow(rows, both)
  BY <1>2, <1>3, <1>4, SMTT(30) DEF RowsBelow
<1>7. RowsBelow(new, both)
  <2>1. DOMAIN new = 1..(Len(old) + Len(rows))
    BY <1>5, LenProperties
  <2>2. SUFFICES ASSUME NEW i \in 1..(Len(old) + Len(rows)) PROVE new[i] < a + b
    BY <1>4, <2>1 DEF RowsBelow
  <2>3. CASE i \in 1..Len(old)
    BY <1>2, <1>3, <1>5, <1>4, <2>3
  <2>4. CASE i \notin 1..Len(old)
    <3>. DEFINE j == i - Len(old)
    <3>1. j \in 1..Len(rows) /\ i = Len(old) + j
      BY <1>2, <2>4
    <3>. HIDE DEF j
    <3>2. new[i] = rows[j] + a
      BY <1>5, <3>1
    <3>3. rows[j] < b /\ rows[j] \in Int
      BY <1>2, <1>3, <3>1
    <3>. QED  BY <1>4, <3>2, <3>3
  <2>. QED  BY <2>3, <2>4
<1>. QED  BY <1>6, <1>7 DEF both, new, a

\* A whole commit keeps the ids within their counts.
LEMMA CommittedIds ==
  ASSUME IInv, FieldInv, PendingInRange, IdsInRange(values)
  PROVE  IdsInRange(CommittedValues(ToSet(registered), CommitInc))
<1>. DEFINE S == ToSet(registered)
            vals == CommittedValues(S, CommitInc)
<1>1. SUFFICES ASSUME NEW f \in Fields, IncKind[f] = "FIELD_OFFSET"
               PROVE  RowsBelow(vals[f], vals[IncOf[f]])
  BY DEF IdsInRange
<1>. DEFINE g == IncOf[f]
<1>2. g \in Fields /\ Mode[g] = "STACK" /\ IncKind[g] = "NONE"
  BY <1>1, FieldSpecs
<1>3. CommitInc[g] = 0 /\ CommitInc[f] = CountSum(values[g])
  BY <1>1, <1>2 DEF CommitInc
<1>4. /\ values[f] \in Seq(Int) /\ values[g] \in Seq(Int)
      /\ pending[f] # NoValue => pending[f] \in Seq(Int)
      /\ pending[g] # NoValue => pending[g] \in Seq(Int)
      /\ PendingOK
  BY <1>2 DEF FieldInv, FieldTypeOK, Rows
<1>5. RowsBelow(values[f], values[g])
  BY <1>1 DEF IdsInRange
<1>6. \A h \in Fields : pending[h] # NoValue => h \in S
  BY <1>4 DEF PendingOK
<1>7. /\ pending[f] = NoValue => vals[f] = values[f]
      /\ pending[g] = NoValue => vals[g] = values[g]
  BY <1>2 DEF CommittedValues
<1>8. CASE pending[g] = NoValue
  <2>1. pending[f] = NoValue
    BY <1>1, <1>8 DEF PendingInRange
  <2>. QED  BY <1>5, <1>7, <1>8, <2>1
<1>9. CASE pending[g] # NoValue
  <2>1. Len(pending[g]) = 1
    BY <1>2, <1>4, <1>9 DEF PendingOK
  <2>2. vals[g] = values[g] \o pending[g]
    <3>1. Shifted(pending[g], 0) = pending[g]
      BY <1>4, <1>9, ShiftedRows
    <3>. QED  BY <1>2, <1>3, <1>6, <1>9, <3>1 DEF CommittedValues
  <2>3. CASE pending[f] = NoValue
    <3>1. <<>> \in Seq(Int) /\ RowsBelow(<<>>, pending[g])
      BY DEF RowsBelow
    <3>. HIDE DEF vals, g
    <3>2. RowsBelow(values[f], values[g] \o pending[g])
      BY <1>4, <1>5, <1>9, <2>1, <3>1, RowsBelowGrown
    <3>. QED  BY <1>7, <2>2, <2>3, <3>2 DEF g
  <2>4. CASE pending[f] # NoValue
    <3>1. RowsBelow(pending[f], pending[g])
      <4>1. \A i \in DOMAIN pending[f] : pending[f][i] < pending[g][1]
        BY <1>1, <2>4 DEF PendingInRange
      <4>. HIDE DEF g
      <4>2. /\ pending[g][1] <= CountSum(pending[g]) /\ CountSum(pending[g]) \in Nat
            /\ pending[g][1] \in Int
        BY <1>4, <1>9, <2>1, CountsGrow, IdsAreFinite, LenProperties
      <4>3. \A i \in DOMAIN pending[f] : pending[f][i] \in Int
        BY <1>4, <2>4, LenProperties
      <4>. QED  BY <4>1, <4>2, <4>3 DEF RowsBelow
    <3>2. vals[f] = IF Mode[f] = "CONST" THEN pending[f]
                    ELSE values[f] \o Shifted(pending[f], CountSum(values[g]))
      BY <1>3, <1>6, <2>4 DEF CommittedValues
    <3>. HIDE DEF vals, g
    <3>3. /\ RowsBelow(pending[f], values[g] \o pending[g])
          /\ RowsBelow(values[f] \o Shifted(pending[f], CountSum(values[g])),
                       values[g] \o pending[g])
      BY <1>4, <1>5, <1>9, <2>1, <2>4, <3>1, RowsBelowGrown
    <3>. QED  BY <2>2, <3>2, <3>3 DEF g
  <2>. QED  BY <2>3, <2>4
<1>. QED  BY <1>8, <1>9

\* A merge does too, when no count field is merged before the ids it bounds.
LEMMA MergedIds ==
  ASSUME FieldInv, NEW e \in Encodings, ~MergeThrows(e), IdsInRange(values),
         \A f \in ToSet(e.registered) :
           IncKind[f] = "FIELD_OFFSET" => ~Precedes(IncOf[f], f, MergedOrder(e))
  PROVE  IdsInRange(MergedValues(ToSet(MergedOrder(e)), e, MergeInc(e)))
<1>. DEFINE S == ToSet(MergedOrder(e))
            E == ToSet(e.registered)
            vals == MergedValues(S, e, MergeInc(e))
<1>1. SUFFICES ASSUME NEW f \in Fields, IncKind[f] = "FIELD_OFFSET"
               PROVE  RowsBelow(vals[f], vals[IncOf[f]])
  BY DEF IdsInRange
<1>. DEFINE g == IncOf[f]
<1>2. g \in Fields /\ Mode[g] = "STACK" /\ IncKind[g] = "NONE"
  BY <1>1, FieldSpecs
<1>3. /\ values[f] \in Seq(Int) /\ values[g] \in Seq(Int)
      /\ e.values[f] \in Seq(Int) /\ e.values[g] \in Seq(Int)
      /\ E \subseteq S
  <2>1. registered \in Seq(Fields) /\ e.registered \in Seq(Fields)
    BY SingleFields DEF FieldInv, FieldTypeOK
  <2>2. S = ToSet(registered) \cup E
    BY <2>1, MergedKeys
  <2>3. values \in [Fields -> Seq(Int)] /\ e.values \in [Fields -> Seq(Int)]
    BY SingleFields DEF FieldInv, FieldTypeOK, Rows
  <2>. QED  BY <1>2, <2>2, <2>3
<1>4. RowsBelow(values[f], values[g])
  BY <1>1 DEF IdsInRange
<1>5. /\ g \notin E => vals[g] = values[g]
      /\ f \notin E => vals[f] = values[f]
  BY <1>2 DEF MergedValues
<1>6. ASSUME g \in E
      PROVE  Len(e.values[g]) = 1 /\ vals[g] = values[g] \o e.values[g]
  <2>1. ValidStorage(g, e.values[g], e.field_ptr[g], 1)
    BY <1>6, SingleFields
  <2>2. Len(e.values[g]) = 1
    BY <1>2, <2>1 DEF ValidStorage
  <2>3. MergeInc(e)[g] = 0
    BY <1>2 DEF MergeInc
  <2>4. Shifted(e.values[g], 0) = e.values[g]
    BY <1>3, ShiftedRows
  <2>5. vals[g] = values[g] \o Shifted(e.values[g], MergeInc(e)[g])
    BY <1>2, <1>3, <1>6 DEF MergedValues
  <2>. QED  BY <2>2, <2>3, <2>4, <2>5
<1>7. CASE f \notin E
  <2>1. CASE g \notin E
    BY <1>4, <1>5, <1>7, <2>1
  <2>2. CASE g \in E
    <3>1. <<>> \in Seq(Int) /\ RowsBelow(<<>>, e.values[g])
      BY DEF RowsBelow
    <3>. HIDE DEF vals, g, E, S
    <3>2. RowsBelow(values[f], values[g] \o e.values[g])
      BY <1>3, <1>4, <1>6, <2>2, <3>1, RowsBelowGrown
    <3>. QED  BY <1>5, <1>6, <1>7, <2>2, <3>2 DEF g
  <2>. QED  BY <2>1, <2>2
<1>8. CASE f \in E
  <2>1. ~MergeRefused(f, e)
    BY <1>3, <1>8 DEF MergeThrows
  <2>2. g \in S
    BY <1>1, <1>8, <2>1 DEF MergeRefused
  <2>3. ~MergeRefused(g, e)
    BY <2>2 DEF MergeThrows
  <2>4. g \in E
    BY <1>2, <2>3 DEF MergeRefused
  <2>5. MergeInc(e)[f] = CountSum(values[g])
    <3>1. ~Precedes(g, f, MergedOrder(e))
      BY <1>1, <1>8
    <3>2. FieldOffsetInMerge(f, e) = CountSum(values[g])
      BY <3>1 DEF FieldOffsetInMerge
    <3>. QED  BY <1>1, <3>2 DEF MergeInc
  <2>6. RowsBelow(e.values[f], e.values[g])
    BY <1>1, <1>8, SingleFields DEF RowsBelow
  <2>7. vals[f] = IF Mode[f] = "CONST" THEN e.values[f]
                  ELSE values[f] \o Shifted(e.values[f], CountSum(values[g]))
    BY <1>3, <1>8, <2>5 DEF MergedValues
  <2>. HIDE DEF vals, g, E, S
  <2>8. /\ RowsBelow(e.values[f], values[g] \o e.values[g])
        /\ RowsBelow(values[f] \o Shifted(e.values[f], CountSum(values[g])),
                     values[g] \o e.values[g])
    BY <1>3, <1>4, <1>6, <2>4, <2>6, RowsBelowGrown
  <2>. QED  BY <1>6, <2>4, <2>7, <2>8 DEF g
<1>. QED  BY <1>7, <1>8

\* Where there are no rows, none is out of range.
LEMMA NothingInRange ==
  /\ IdsInRange(NoRows)
  /\ pending = NothingPending => PendingInRange
  BY DEF IdsInRange, RowsBelow, NoRows, PendingInRange, NothingPending

\* The ids are in range at first, and each call keeps them so.
LEMMA InitRangeInv == Init => RangeInv
  BY NothingInRange DEF Init, FieldsInit, RangeInv

LEMMA ClearedRange ==
  ASSUME Cleared
  PROVE  PendingInRange' /\ IdsInRange(values)'
<1>1. values' = NoRows /\ pending' = NothingPending
  BY DEF Cleared
<1>2. IdsInRange(values')
  BY <1>1, NothingInRange
<1>3. PendingInRange'
  BY <1>1 DEF PendingInRange, NothingPending
<1>. QED  BY <1>2, <1>3

\* Ids are assigned within the counts of the open graph, and the counts stay.
LEMMA SetRangeInv ==
  ASSUME FieldInv, RangeInv, NEW f \in Fields, NEW rows \in FieldInputs[f], SetGraphField(f, rows)
  PROVE  RangeInv'
<1>1. /\ ~torn /\ PendingInRange /\ IdsInRange(values) /\ pending[f] = NoValue
      /\ pending' = [pending EXCEPT ![f] = rows]
      /\ UNCHANGED <<values, torn, encoding>>
  BY DEF RangeInv, SetGraphField, SetField, Usable
<1>2. IncKind[f] = "FIELD_OFFSET" =>
        /\ pending[IncOf[f]] # NoValue
        /\ \A i \in DOMAIN rows : rows[i] < pending[IncOf[f]][1]
  BY DEF SetGraphField, LocalRows
<1>3. pending \in [Fields -> Seq(Int) \cup {NoValue}]
  BY DEF FieldInv, FieldTypeOK, Rows
<1>4. PendingInRange'
  <2>1. SUFFICES ASSUME NEW h \in Fields, IncKind[h] = "FIELD_OFFSET", pending'[h] # NoValue
                 PROVE  /\ pending'[IncOf[h]] # NoValue
                        /\ \A i \in DOMAIN pending'[h] : pending'[h][i] < pending'[IncOf[h]][1]
    BY DEF PendingInRange
  <2>. DEFINE g == IncOf[h]
  <2>2. g \in Fields
    BY <2>1, FieldSpecs
  <2>3. /\ pending[g] # NoValue
        /\ \A i \in DOMAIN pending'[h] : pending'[h][i] < pending[g][1]
    <3>1. CASE h = f
      BY <1>1, <1>2, <1>3, <2>1, <3>1
    <3>2. CASE h # f
      BY <1>1, <1>3, <2>1, <3>2 DEF PendingInRange
    <3>. QED  BY <3>1, <3>2
  <2>4. g # f
    BY <1>1, <2>3
  <2>5. pending'[g] = pending[g]
    BY <1>1, <1>3, <2>2, <2>4
  <2>. QED  BY <2>3, <2>5
<1>. QED  BY <1>1, <1>4 DEF RangeInv

LEMMA NextGraphRangeInv ==
  ASSUME IInv, FieldInv, RangeInv, NextGraph
  PROVE  RangeInv'
<1>1. /\ ~torn /\ encoding = None /\ PendingInRange /\ IdsInRange(values)
      /\ values' = CommittedValues(ToSet(registered), CommitInc)
      /\ pending' = CommittedPending(ToSet(registered))
      /\ UNCHANGED <<torn, encoding>>
  BY DEF RangeInv, NextGraph, Usable
<1>2. IdsInRange(values')
  BY <1>1, CommittedIds
<1>3. \A f \in Fields : pending'[f] = NoValue
  BY <1>1 DEF CommittedPending, FieldInv, PendingOK
<1>4. PendingInRange'
  BY <1>3 DEF PendingInRange
<1>. QED  BY <1>1, <1>2, <1>4 DEF RangeInv

LEMMA AppendRangeInv ==
  ASSUME "counts_first" \notin Liberties,
         FieldInv, RangeInv, NEW e \in Encodings, AppendEncoding(e)
  PROVE  RangeInv'
<1>1. /\ ~torn /\ encoding = None /\ PendingInRange /\ IdsInRange(values) /\ ~MergeThrows(e)
      /\ values' = MergedValues(ToSet(MergedOrder(e)), e, MergeInc(e))
      /\ UNCHANGED <<pending, torn, encoding>>
  BY DEF RangeInv, AppendEncoding, Usable
<1>2. \A f \in ToSet(e.registered) :
        IncKind[f] = "FIELD_OFFSET" => ~Precedes(IncOf[f], f, MergedOrder(e))
  BY DEF AppendEncoding, MayMerge
<1>3. IdsInRange(values')
  BY <1>1, <1>2, MergedIds
<1>4. PendingInRange'
  BY <1>1 DEF PendingInRange
<1>. QED  BY <1>1, <1>3, <1>4 DEF RangeInv

LEMMA BuildRangeInv ==
  ASSUME IInv, FieldInv, RangeInv, Build
  PROVE  RangeInv'
<1>1. PendingInRange' /\ IdsInRange(values)'
  BY ClearedRange DEF Build
<1>2. ~torn /\ PendingInRange /\ IdsInRange(values)
  BY DEF RangeInv, Build, Usable
<1>3. \/ encoding'.values = CommittedValues(ToSet(registered), CommitInc)
      \/ encoding'.values = values
  BY DEF Build, Batch
<1>4. IdsInRange(encoding'.values)
  BY <1>2, <1>3, CommittedIds
<1>. QED  BY <1>1, <1>4 DEF RangeInv

LEMMA LoadRangeInv ==
  ASSUME RangeInv, LoadFromEncoding
  PROVE  RangeInv'
<1>1. /\ encoding # None /\ values' = encoding.values /\ pending' = NothingPending
      /\ encoding' = None
  BY DEF LoadFromEncoding
<1>2. IdsInRange(values')
  BY <1>1 DEF RangeInv
<1>3. PendingInRange'
  BY <1>1 DEF PendingInRange, NothingPending
<1>. QED  BY <1>1, <1>2, <1>3 DEF RangeInv

LEMMA NextRangeInv ==
  ASSUME "counts_first" \notin Liberties
  PROVE  IInv /\ FieldInv /\ RangeInv /\ [Next]_vars => RangeInv'
<1>. SUFFICES ASSUME IInv, FieldInv, RangeInv, [Next]_vars PROVE RangeInv'
  OBVIOUS
<1>1. ASSUME UNCHANGED <<values, pending, torn, encoding>> PROVE RangeInv'
  BY <1>1 DEF RangeInv, PendingInRange
<1>2. ASSUME torn', UNCHANGED encoding PROVE RangeInv'
  BY <1>2 DEF RangeInv
<1>3. ASSUME NEW t \in NodeTypes, NEW count \in 0..MaxNodes[t], AddNodes(t, count) PROVE RangeInv'
  BY <1>1, <1>3 DEF AddNodes, fieldVars
<1>4. ASSUME NEW e \in EdgeTypes, NEW i \in 0..(MaxNodes[SrcOf[e]] - 1),
             NEW j \in 0..(MaxNodes[DstOf[e]] - 1), AddEdge(e, i, j)
      PROVE  RangeInv'
  BY <1>1, <1>4 DEF AddEdge, fieldVars
<1>5. ASSUME NEW f \in Fields, RegisterGraphField(f) PROVE RangeInv'
  BY <1>1, <1>5 DEF RegisterGraphField, RegisterField
<1>6. ASSUME NEW f \in Fields, NEW rows \in FieldInputs[f], SetGraphField(f, rows) PROVE RangeInv'
  BY <1>6, SetRangeInv
<1>7. CASE NextGraph
  BY <1>7, NextGraphRangeInv
<1>8. CASE NextGraphThrows
  BY <1>2, <1>8 DEF NextGraphThrows
<1>9. ASSUME NEW e \in Encodings, AppendEncoding(e) PROVE RangeInv'
  BY <1>9, AppendRangeInv
<1>10. ASSUME NEW e \in Encodings, AppendEncodingThrows(e) PROVE RangeInv'
  BY <1>2, <1>10 DEF AppendEncodingThrows
<1>11. CASE Build
  BY <1>11, BuildRangeInv
<1>12. CASE Reset
  BY <1>11, <1>12, ClearedRange DEF Reset, RangeInv
<1>13. CASE LoadFromEncoding
  BY <1>13, LoadRangeInv
<1>14. CASE UNCHANGED vars
  BY <1>1, <1>14 DEF vars, fieldVars
<1>. QED  BY <1>3, <1>4, <1>5, <1>6, <1>7, <1>8, <1>9, <1>10, <1>11, <1>12, <1>13, <1>14 DEF Next

-----------------------------------------------------------------------------
(* The graphs of a batch.  Each call changes the sequence of committed     *)
(* graphs, the open one and the fact of having built as GraphBatch says.   *)

\* build() hands out the batch and leaves a builder with nothing in it.
HandedClean ==
  encoding # None => ~torn /\ current_node_counts = NoNodes /\ pending = NothingPending

LEMMA InitHandedClean == Init => HandedClean
  BY DEF Init, HandedClean

LEMMA NextHandedClean == HandedClean /\ [Next]_vars => HandedClean'
<1>. SUFFICES ASSUME HandedClean, [Next]_vars PROVE HandedClean'
  OBVIOUS
<1>1. ASSUME Usable, encoding' = encoding PROVE HandedClean'
  BY <1>1 DEF Usable, HandedClean
<1>2. ASSUME NEW t \in NodeTypes, NEW count \in 0..MaxNodes[t], AddNodes(t, count)
      PROVE  HandedClean'
  BY <1>1, <1>2 DEF AddNodes
<1>3. ASSUME NEW e \in EdgeTypes, NEW i \in 0..(MaxNodes[SrcOf[e]] - 1),
             NEW j \in 0..(MaxNodes[DstOf[e]] - 1), AddEdge(e, i, j)
      PROVE  HandedClean'
  BY <1>1, <1>3 DEF AddEdge
<1>4. ASSUME NEW f \in Fields, RegisterGraphField(f) PROVE HandedClean'
  BY <1>1, <1>4 DEF RegisterGraphField
<1>5. ASSUME NEW f \in Fields, NEW rows \in FieldInputs[f], SetGraphField(f, rows)
      PROVE  HandedClean'
  BY <1>1, <1>5 DEF SetGraphField
<1>6. CASE NextGraph \/ NextGraphThrows
  BY <1>1, <1>6 DEF NextGraph, NextGraphThrows
<1>7. ASSUME NEW e \in Encodings, AppendEncoding(e) \/ AppendEncodingThrows(e) PROVE HandedClean'
  BY <1>1, <1>7 DEF AppendEncoding, AppendEncodingThrows
<1>8. CASE Build
  BY <1>8 DEF Build, Cleared, HandedClean
<1>9. CASE Reset \/ LoadFromEncoding
  BY <1>9 DEF Reset, LoadFromEncoding, HandedClean
<1>10. CASE UNCHANGED vars
  BY <1>10 DEF vars, fieldVars, graphVars, HandedClean
<1>. QED  BY <1>2, <1>3, <1>4, <1>5, <1>6, <1>7, <1>8, <1>9, <1>10 DEF Next

\* The committed graphs are the cuts of the layout, or of the encoding handed out.
LEMMA LiveCuts == IInv /\ encoding = None => CommittedShapes = GraphsIn(Layout)
<1>. SUFFICES ASSUME IInv, encoding = None PROVE CommittedShapes = GraphsIn(Layout)
  OBVIOUS
<1>. DEFINE b == Layout
            e == LiveBatch
<1>1. /\ e.num_graphs = b.num_graphs /\ e.edge_index = b.edge_index
      /\ \A t \in NodeTypes : e.ptrs[t] = LeftPadded(b.ptrs[t], b.num_graphs + 1)
  BY LayoutFacts DEF LiveBatch, Batch
<1>2. Good(b) /\ HeldBatch = e
  BY DEF IInv, HeldBatch
<1>. HIDE DEF b, e
<1>3. [k \in 1..e.num_graphs |-> ShapeOf(e, k)] = [k \in 1..b.num_graphs |-> GraphIn(b, k)]
  BY <1>1, <1>2, CutShapes
<1>. QED  BY <1>2, <1>3 DEF CommittedShapes, GraphsIn, b

LEMMA LiveCutsAfter ==
  ASSUME IInv', encoding' = None
  PROVE  CommittedShapes' = GraphsIn(Layout')
<1>1. (IInv /\ encoding = None)' => (CommittedShapes = GraphsIn(Layout))'
  BY LiveCuts, PTL
<1>. QED  BY <1>1

LEMMA HeldCuts == IInv /\ encoding # None => CommittedShapes = GraphsIn(LayoutOf(encoding))
<1>. SUFFICES ASSUME IInv, encoding # None PROVE CommittedShapes = GraphsIn(LayoutOf(encoding))
  OBVIOUS
<1>. DEFINE b == LayoutOf(encoding)
            e == encoding
            n == e.num_graphs
<1>1. /\ b.num_graphs = n /\ b.edge_index = e.edge_index /\ b.ptrs = e.ptrs
      /\ b.keys = KeysOf(e)
  BY DEF LayoutOf
<1>2. Good(b) /\ HeldBatch = e /\ \A t \in KeysOf(e) : Len(e.ptrs[t]) = n + 1
  BY DEF IInv, HeldBatch
<1>. HIDE DEF b
<1>3. n \in Nat /\ b.ptrs \in [NodeTypes -> Seq(Nat)]
  BY <1>1, <1>2 DEF Good, LayoutType
<1>4. ASSUME NEW t \in NodeTypes
      PROVE  e.ptrs[t] = LeftPadded(b.ptrs[t], b.num_graphs + 1)
  <2>. DEFINE ptr == e.ptrs[t]
              m == n + 1
  <2>1. ptr \in Seq(Nat) /\ b.ptrs[t] = ptr /\ m \in Nat
    BY <1>1, <1>3
  <2>2. CASE ptr = <<>>
    BY <2>1, <2>2 DEF LeftPadded
  <2>3. CASE ptr # <<>>
    <3>1. Len(ptr) = m
      BY <1>2, <2>3 DEF KeysOf
    <3>. HIDE DEF ptr, m
    <3>2. ptr = [i \in 1..m |-> ptr[i]]
      BY <2>1, <3>1, LenProperties
    <3>3. LeftPadded(ptr, m) = [i \in 1..m |-> IF i <= m - m THEN ptr[1] ELSE ptr[i - (m - m)]]
      BY <2>3, <3>1 DEF LeftPadded
    <3>4. \A i \in 1..m : ~(i <= m - m) /\ i - (m - m) = i
      BY <2>1
    <3>5. LeftPadded(ptr, m) = ptr
      BY <3>2, <3>3, <3>4
    <3>. QED  BY <1>1, <2>1, <3>5 DEF ptr, m
  <2>. QED  BY <2>2, <2>3
<1>. HIDE DEF e
<1>5. [k \in 1..e.num_graphs |-> ShapeOf(e, k)] = [k \in 1..b.num_graphs |-> GraphIn(b, k)]
  BY <1>1, <1>2, <1>4, CutShapes
<1>. QED  BY <1>2, <1>5 DEF CommittedShapes, GraphsIn, b

\* They depend on no field and not on what the open graph has.
LEMMA CommittedSame ==
  ASSUME encoding = None, UNCHANGED <<ptrs, edge_index, current_graph_idx, encoding>>
  PROVE  UNCHANGED <<CommittedShapes, HandedOut>>
<1>. DEFINE b == HeldBatch
            d == HeldBatch'
<1>1. b.num_graphs = d.num_graphs /\ b.edge_index = d.edge_index /\ b.ptrs = d.ptrs
  BY DEF HeldBatch, LiveBatch, Batch
<1>2. CommittedShapes = [k \in 1..b.num_graphs |-> ShapeOf(b, k)]
  BY DEF CommittedShapes
<1>3. CommittedShapes' = [k \in 1..d.num_graphs |-> ShapeOf(d, k)]
  BY DEF CommittedShapes
<1>. HIDE DEF b, d
<1>4. \A t \in NodeTypes : CutAt(b, t) = CutAt(d, t)
  BY <1>1 DEF CutAt
<1>5. ASSUME NEW k \in 1..b.num_graphs
      PROVE  ShapeOf(b, k) = ShapeOf(d, k)
  <2>1. \A r \in EdgeTypes : SrcOf[r] \in NodeTypes /\ DstOf[r] \in NodeTypes
    BY EdgeEnds
  <2>2. [t \in NodeTypes |-> CutAt(b, t)[k + 1] - CutAt(b, t)[k]]
          = [t \in NodeTypes |-> CutAt(d, t)[k + 1] - CutAt(d, t)[k]]
    BY <1>4
  <2>3. \A r \in EdgeTypes :
          LocalEdges(b.edge_index[r], CutAt(b, SrcOf[r])[k], CutAt(b, SrcOf[r])[k + 1],
                     CutAt(b, DstOf[r])[k])
            = LocalEdges(d.edge_index[r], CutAt(d, SrcOf[r])[k], CutAt(d, SrcOf[r])[k + 1],
                         CutAt(d, DstOf[r])[k])
    BY <1>1, <1>4, <2>1
  <2>. QED  BY <2>2, <2>3 DEF ShapeOf
<1>. QED  BY <1>1, <1>2, <1>3, <1>5 DEF HandedOut

\* The open graph is a graph, which an aborted one is not.
LEMMA OpenIsAGraph == IInv => OpenShape # Aborted
<1>. SUFFICES ASSUME IInv PROVE OpenShape # Aborted
  OBVIOUS
<1>1. /\ OpenShape.nodes \in [NodeTypes -> Nat]
      /\ OpenShape.edges \in [EdgeTypes -> Seq(Int \X Int)]
  BY OpenCut
<1>2. OpenShape = [nodes |-> OpenShape.nodes, edges |-> OpenShape.edges, vals |-> OpenShape.vals]
  BY DEF OpenShape
<1>3. OpenShape.vals \in [Fields -> Seq(Int) \cup {NoValue}]
  <2>1. <<>> \in Seq(Int)
    OBVIOUS
  <2>2. OpenShape.vals = [f \in Fields |-> IF pending[f] = NoValue THEN NoValue ELSE <<>>]
    BY DEF OpenShape
  <2>. QED  BY <2>1, <2>2
<1>4. OpenShape \in [nodes : [NodeTypes -> Nat], edges : [EdgeTypes -> Seq(Int \X Int)],
                     vals : [Fields -> Seq(Int) \cup {NoValue}]]
  BY <1>1, <1>2, <1>3
<1>. QED  BY <1>4, AbortedIsNoGraph

\* Closing it leaves a graph with no rows: the last cut of the layout.
LEMMA ClosedCut == IInv => Shapes!Closed(OpenShape) = GraphIn(Layout, current_graph_idx + 1)
<1>. SUFFICES ASSUME IInv
              PROVE  Shapes!Closed(OpenShape) = GraphIn(Layout, current_graph_idx + 1)
  OBVIOUS
<1>1. OpenShape.vals = [f \in Fields |-> IF pending[f] = NoValue THEN NoValue ELSE <<>>]
  BY DEF OpenShape
<1>2. [f \in Fields |-> IF OpenShape.vals[f] = NoValue THEN <<>> ELSE OpenShape.vals[f]] = NoRows
  BY <1>1 DEF NoRows
<1>3. GraphIn(Layout, current_graph_idx + 1) = [OpenShape EXCEPT !.vals = NoRows]
  BY OpenCut
<1>. QED  BY <1>2, <1>3 DEF Shapes!Closed

\* A range with no nodes has no edges.
LEMMA NoEdgesInNothing ==
  ASSUME NEW cols \in Seq(Edge), NEW lo \in Int, NEW dst \in Int
  PROVE  LocalEdges(cols, lo, lo, dst) = <<>>
<1>. DEFINE new == <<>>
<1>1. new \in Seq(Edge) /\ cols \o new = cols /\ Len(new) = 0 /\ DOMAIN new = {}
  BY ConcatEmptySeq
<1>2. NoneStartsIn(cols, lo, lo)
  <2>1. ASSUME NEW i \in DOMAIN cols
        PROVE  ~(lo <= cols[i][1] /\ cols[i][1] < lo)
    <3>1. cols[i] \in Edge
      OBVIOUS
    <3>2. cols[i][1] \in Int
      BY <3>1 DEF Edge
    <3>. QED  BY <3>2
  <2>. QED  BY <2>1 DEF NoneStartsIn
<1>3. AllStartIn(new, lo, lo)
  BY <1>1 DEF AllStartIn
<1>4. Moved(new, lo, dst) = <<>>
  <2>1. Moved(new, lo, dst) = [i \in 1..0 |-> <<new[i][1] - lo, new[i][2] - dst>>]
    BY <1>1 DEF Moved
  <2>. QED  BY <2>1
<1>. HIDE DEF new
<1>5. LocalEdges(cols \o new, lo, lo, dst) = Moved(new, lo, dst)
  <2>. DEFINE hi == lo
  <2>1. NoneStartsIn(cols, lo, hi) /\ AllStartIn(new, lo, hi) /\ hi \in Int /\ new \in Seq(Edge)
    BY <1>1, <1>2, <1>3
  <2>. HIDE DEF hi
  <2>2. LocalEdges(cols \o new, lo, hi, dst) = Moved(new, lo, dst)
    BY <2>1, LocalEdgesJoined, ZenonT(60)
  <2>. QED  BY <2>2 DEF hi
<1>. QED  BY <1>1, <1>4, <1>5

LEMMA NothingOpen ==
  IInv /\ current_node_counts = NoNodes /\ pending = NothingPending => OpenShape = Shapes!NoGraph
<1>. SUFFICES ASSUME IInv, current_node_counts = NoNodes, pending = NothingPending
              PROVE  OpenShape = Shapes!NoGraph
  OBVIOUS
<1>1. node_offsets \in [NodeTypes -> Nat] /\ edge_index \in [EdgeTypes -> Seq(Edge)]
  BY LayoutFacts DEF IInv, Good, LayoutType
<1>2. ASSUME NEW e \in EdgeTypes
      PROVE  LocalEdges(edge_index[e], node_offsets[SrcOf[e]],
                        node_offsets[SrcOf[e]] + current_node_counts[SrcOf[e]],
                        node_offsets[DstOf[e]]) = <<>>
  <2>. DEFINE cols == edge_index[e]
              lo == node_offsets[SrcOf[e]]
              dst == node_offsets[DstOf[e]]
  <2>1. SrcOf[e] \in NodeTypes /\ DstOf[e] \in NodeTypes
    BY EdgeEnds
  <2>2. cols \in Seq(Edge) /\ lo \in Int /\ dst \in Int
    BY <1>1, <2>1
  <2>3. lo + current_node_counts[SrcOf[e]] = lo
    BY <2>1, <2>2 DEF NoNodes
  <2>. HIDE DEF cols, lo, dst
  <2>4. LocalEdges(cols, lo, lo, dst) = <<>>
    BY <2>2, NoEdgesInNothing
  <2>. QED  BY <2>3, <2>4 DEF cols, lo, dst
<1>3. OpenShape.edges = [e \in EdgeTypes |-> <<>>]
  BY <1>2 DEF OpenShape
<1>4. OpenShape.nodes = [t \in NodeTypes |-> 0]
  BY DEF OpenShape, NoNodes
<1>5. OpenShape.vals = [f \in Fields |-> NoValue]
  BY DEF OpenShape, NothingPending
<1>6. OpenShape = [nodes |-> OpenShape.nodes, edges |-> OpenShape.edges, vals |-> OpenShape.vals]
  BY DEF OpenShape
<1>. QED  BY <1>3, <1>4, <1>5, <1>6 DEF Shapes!NoGraph

\* More room at the end brings no edges, where none starts there.
LEMMA RoomBrings ==
  ASSUME NEW cols \in Seq(Edge), NEW lo \in Nat, NEW hi \in Nat, NEW more \in Nat, hi <= more,
         \A i \in DOMAIN cols : cols[i][1] < hi, NEW dst \in Int
  PROVE  LocalEdges(cols, lo, more, dst) = LocalEdges(cols, lo, hi, dst)
<1>1. \A j \in DOMAIN cols : cols[j][1] \in Nat
  <2>1. \A j \in DOMAIN cols : cols[j] \in Edge
    OBVIOUS
  <2>. QED  BY <2>1 DEF Edge
<1>2. {j \in DOMAIN cols : lo <= cols[j][1] /\ cols[j][1] < more}
        = {j \in DOMAIN cols : lo <= cols[j][1] /\ cols[j][1] < hi}
  BY <1>1
<1>. QED  BY <1>2 DEF LocalEdges, Relocated

\* What the cases below share: the open graph is in hand before a call, and after
\* one that does not throw.
LEMMA InHand ==
  ASSUME IInv, Usable
  PROVE  Shapes!Building /\ ShapeInHand = OpenShape /\ OpenShape # Aborted /\ ~HandedOut
  BY OpenIsAGraph DEF Usable, Shapes!Building, ShapeInHand, HandedOut

LEMMA StillInHand ==
  ASSUME IInv', ~torn'
  PROVE  ShapeInHand' = OpenShape' /\ ShapeInHand' # Aborted
<1>1. IInv' => (OpenShape # Aborted)'
  BY OpenIsAGraph, PTL
<1>. QED  BY <1>1 DEF ShapeInHand

\* The three parts of the open graph.
LEMMA OpenParts ==
  /\ OpenShape = [nodes |-> current_node_counts, edges |-> OpenShape.edges, vals |-> OpenShape.vals]
  /\ OpenShape.vals = [f \in Fields |-> IF pending[f] = NoValue THEN NoValue ELSE <<>>]
  BY DEF OpenShape

\* add_nodes declares nodes of the open graph, or fewer than it has.
LEMMA AddNodesShapes ==
  ASSUME IInv, IInv', NEW t \in NodeTypes, NEW count \in 0..MaxNodes[t], AddNodes(t, count)
  PROVE  Shapes!DeclareNodes \/ UNCHANGED <<CommittedShapes, ShapeInHand, HandedOut>>
<1>. DEFINE c == current_node_counts
<1>1. /\ Usable /\ c' = [c EXCEPT ![t] = IF @ < count THEN count ELSE @]
      /\ UNCHANGED <<pending, node_offsets, ptrs, edge_index, current_graph_idx, torn, encoding>>
  BY DEF AddNodes, fieldVars
<1>2. /\ c \in [NodeTypes -> Nat] /\ c' \in [NodeTypes -> Nat] /\ count \in Nat
      /\ node_offsets \in [NodeTypes -> Nat] /\ edge_index \in [EdgeTypes -> Seq(Edge)]
      /\ Good(Layout)
  <2>1. c \in [NodeTypes -> Nat] /\ count \in Nat
    BY LayoutFacts, Bounds DEF IInv, Good, LayoutType
  <2>2. c' \in [NodeTypes -> Nat]
    BY <1>1, <2>1
  <2>. QED  BY <2>1, <2>2, LayoutFacts DEF IInv, Good, LayoutType
<1>3. UNCHANGED <<CommittedShapes, HandedOut>>
  BY <1>1, CommittedSame DEF Usable
<1>4. ShapeInHand = OpenShape /\ Shapes!Building
  BY <1>1, InHand
<1>5. ShapeInHand' = OpenShape' /\ ShapeInHand' # Aborted
  BY <1>1, StillInHand DEF Usable
<1>6. CASE count <= c[t]
  <2>1. c' = c
    BY <1>1, <1>2, <1>6
  <2>2. OpenShape' = OpenShape
    BY <1>1, <2>1 DEF OpenShape
  <2>. QED  BY <1>3, <1>4, <1>5, <2>2
<1>7. CASE ~(count <= c[t])
  <2>0. c[t] < count
    BY <1>2, <1>7
  <2>1. c' = [c EXCEPT ![t] = count] /\ c'[t] = count /\ c'[t] > c[t]
    <3>1. c' = [c EXCEPT ![t] = count]
      BY <1>1, <2>0
    <3>2. c'[t] = count
      BY <1>2, <3>1
    <3>. QED  BY <1>2, <2>0, <3>1, <3>2
  <2>2. \A u \in NodeTypes : c[u] <= c'[u]
    BY <1>2, <2>1
  <2>3. ASSUME NEW e \in EdgeTypes
        PROVE  LocalEdges(edge_index[e], node_offsets[SrcOf[e]],
                          node_offsets[SrcOf[e]] + c'[SrcOf[e]], node_offsets[DstOf[e]])
                 = LocalEdges(edge_index[e], node_offsets[SrcOf[e]],
                              node_offsets[SrcOf[e]] + c[SrcOf[e]], node_offsets[DstOf[e]])
    <3>. DEFINE cols == edge_index[e]
                lo == node_offsets[SrcOf[e]]
                hi == lo + c[SrcOf[e]]
                more == lo + c'[SrcOf[e]]
                dst == node_offsets[DstOf[e]]
    <3>1. SrcOf[e] \in NodeTypes /\ DstOf[e] \in NodeTypes
      BY EdgeEnds
    <3>2. /\ cols \in Seq(Edge) /\ lo \in Nat /\ hi \in Nat /\ more \in Nat /\ hi <= more
          /\ dst \in Int
      <4>1. /\ lo \in Nat /\ c[SrcOf[e]] \in Nat /\ c'[SrcOf[e]] \in Nat
            /\ c[SrcOf[e]] <= c'[SrcOf[e]]
        BY <1>2, <2>2, <3>1
      <4>2. cols \in Seq(Edge) /\ dst \in Int
        BY <1>2, <3>1
      <4>. QED  BY <4>1, <4>2, SMTT(30)
    <3>3. \A i \in DOMAIN cols : cols[i][1] < hi
      BY <1>2, LayoutFacts, EdgesBelowEnd
    <3>. HIDE DEF cols, lo, hi, more, dst
    <3>4. LocalEdges(cols, lo, more, dst) = LocalEdges(cols, lo, hi, dst)
      BY <3>2, <3>3, RoomBrings
    <3>. QED  BY <3>4 DEF cols, lo, hi, more, dst
  <2>4. OpenShape'.edges = OpenShape.edges
    BY <1>1, <2>3 DEF OpenShape
  <2>5. OpenShape' = [nodes |-> c', edges |-> OpenShape.edges, vals |-> OpenShape.vals]
    BY <1>1, <2>4 DEF OpenShape
  <2>6. OpenShape.nodes = c /\ OpenShape'.nodes = c'
    BY DEF OpenShape
  <2>7. OpenShape' = [OpenShape EXCEPT !.nodes[t] = OpenShape'.nodes[t]]
    <3>. DEFINE edges == OpenShape.edges
                vals == OpenShape.vals
    <3>1. OpenShape = [nodes |-> c, edges |-> edges, vals |-> vals]
      BY OpenParts
    <3>2. OpenShape' = [nodes |-> [c EXCEPT ![t] = count], edges |-> edges, vals |-> vals]
      BY <2>1, <2>5
    <3>3. OpenShape'.nodes[t] = count
      BY <2>1, <2>6
    <3>. HIDE DEF edges, vals
    <3>4. [OpenShape EXCEPT !.nodes[t] = count]
            = [nodes |-> [c EXCEPT ![t] = count], edges |-> edges, vals |-> vals]
      BY <3>1
    <3>. QED  BY <3>2, <3>3, <3>4
  <2>. QED  BY <1>3, <1>4, <1>5, <2>1, <2>6, <2>7 DEF Shapes!DeclareNodes
<1>. QED  BY <1>6, <1>7

\* add_edge connects two nodes of the open graph, and changes no other graph:
\* behind the committed nodes.
LEMMA AddEdgeShapes ==
  ASSUME IInv, IInv', NEW e \in EdgeTypes,
         NEW i \in 0..(MaxNodes[SrcOf[e]] - 1), NEW j \in 0..(MaxNodes[DstOf[e]] - 1),
         AddEdge(e, i, j)
  PROVE  Shapes!Connect
<1>. DEFINE lo == node_offsets[SrcOf[e]]
            hi == node_offsets[SrcOf[e]] + current_node_counts[SrcOf[e]]
            dst == node_offsets[DstOf[e]]
            edge == <<i + lo, j + dst>>
            cols == edge_index[e]
<1>1. /\ Usable /\ i < current_node_counts[SrcOf[e]]
      /\ edge_index' = [edge_index EXCEPT ![e] = Append(@, edge)]
      /\ UNCHANGED <<pending, current_node_counts, counted, node_offsets, ptrs,
                     current_graph_idx, torn, encoding>>
  BY DEF AddEdge, fieldVars
<1>2. /\ Good(Layout) /\ edge_index \in [EdgeTypes -> Seq(Edge)]
      /\ node_offsets \in [NodeTypes -> Nat] /\ current_node_counts \in [NodeTypes -> Nat]
  BY LayoutFacts DEF IInv, Good, LayoutType
<1>3. /\ i \in Nat /\ j \in Nat /\ lo \in Nat /\ dst \in Nat /\ hi \in Nat
      /\ current_node_counts[SrcOf[e]] \in Nat
  <2>1. SrcOf[e] \in NodeTypes /\ DstOf[e] \in NodeTypes
    BY EdgeEnds
  <2>2. lo \in Nat /\ dst \in Nat /\ current_node_counts[SrcOf[e]] \in Nat
    BY <1>2, <2>1
  <2>3. i \in Nat /\ j \in Nat
    BY <2>1, Bounds
  <2>. QED  BY <2>2, <2>3
<1>4. /\ edge \in Edge /\ edge[1] = i + lo /\ edge[2] = j + dst
      /\ lo <= edge[1] /\ edge[1] < hi /\ edge[1] - lo = i /\ edge[2] - dst = j
  <2>1. edge[1] = i + lo /\ edge[2] = j + dst
    OBVIOUS
  <2>2. edge \in Edge
    BY <1>3 DEF Edge
  <2>3. i < current_node_counts[SrcOf[e]]
    BY <1>1
  <2>. QED  BY <1>3, <2>1, <2>2, <2>3
<1>5. cols \in Seq(Edge) /\ edge_index'[e] = Append(cols, edge)
      /\ \A r \in EdgeTypes : r # e => edge_index'[r] = edge_index[r]
  BY <1>1, <1>2
<1>. HIDE DEF edge
<1>6. /\ ShapeInHand = OpenShape /\ Shapes!Building /\ ShapeInHand' = OpenShape'
      /\ ShapeInHand' # Aborted
  BY <1>1, InHand, StillInHand DEF Usable
<1>7. /\ OpenShape.edges \in [EdgeTypes -> Seq(Int \X Int)]
  BY OpenCut
<1>8. OpenShape'.edges[e] = Append(OpenShape.edges[e], <<i, j>>)
  <2>1. OpenShape.edges[e] = LocalEdges(cols, lo, hi, dst)
    BY DEF OpenShape
  <2>2. OpenShape'.edges[e] = LocalEdges(Append(cols, edge), lo, hi, dst)
    BY <1>1, <1>5 DEF OpenShape
  <2>3. /\ cols \in Seq(Edge) /\ edge \in Edge /\ lo \in Int /\ hi \in Int /\ dst \in Int
        /\ lo <= edge[1] /\ edge[1] < hi
    BY <1>3, <1>4, <1>5
  <2>. HIDE DEF cols, lo, hi, dst
  <2>4. LocalEdges(Append(cols, edge), lo, hi, dst)
          = Append(LocalEdges(cols, lo, hi, dst), <<edge[1] - lo, edge[2] - dst>>)
    BY <2>3, LocalEdgesAppend, SMTT(30)
  <2>5. edge[1] - lo = i /\ edge[2] - dst = j
    BY <1>4 DEF lo, dst
  <2>. QED  BY <2>1, <2>2, <2>4, <2>5
<1>9. OpenShape'.edges = [OpenShape.edges EXCEPT ![e] = Append(@, <<i, j>>)]
  <2>1. \A r \in EdgeTypes : r # e => OpenShape'.edges[r] = OpenShape.edges[r]
    BY <1>1, <1>5 DEF OpenShape
  <2>2. OpenShape'.edges = [r \in EdgeTypes |-> OpenShape'.edges[r]]
    BY DEF OpenShape
  <2>. QED  BY <1>7, <1>8, <2>1, <2>2
<1>10. /\ Len(OpenShape'.edges[e]) = Len(OpenShape.edges[e]) + 1
       /\ OpenShape'.edges[e][Len(OpenShape.edges[e]) + 1] = <<i, j>>
  <2>. DEFINE s == OpenShape.edges[e]
              x == <<i, j>>
  <2>1. s \in Seq(Int \X Int) /\ x \in Int \X Int
    BY <1>3, <1>7
  <2>. HIDE DEF s, x
  <2>2. Len(Append(s, x)) = Len(s) + 1 /\ Append(s, x)[Len(s) + 1] = x
    BY <2>1, AppendProperties
  <2>. QED  BY <1>8, <2>2 DEF s, x
<1>11. OpenShape' = [OpenShape EXCEPT !.edges[e] = Append(@, OpenShape'.edges[e][Len(@) + 1])]
  <2>. DEFINE nodes == current_node_counts
              edges == OpenShape.edges
              vals == OpenShape.vals
  <2>1. OpenShape = [nodes |-> nodes, edges |-> edges, vals |-> vals]
    BY OpenParts
  <2>2. OpenShape' = [nodes |-> nodes, edges |-> OpenShape'.edges, vals |-> vals]
    BY <1>1 DEF OpenShape
  <2>3. [OpenShape EXCEPT !.edges[e] = Append(@, <<i, j>>)]
          = [nodes |-> nodes, edges |-> [edges EXCEPT ![e] = Append(@, <<i, j>>)], vals |-> vals]
    <3>. DEFINE y == Append(edges[e], <<i, j>>)
    <3>1. OpenShape.edges[e] = edges[e]
      OBVIOUS
    <3>. HIDE DEF nodes, edges, vals, y
    <3>2. [OpenShape EXCEPT !.edges[e] = y]
            = [nodes |-> nodes, edges |-> [edges EXCEPT ![e] = y], vals |-> vals]
      BY <2>1
    <3>. QED  BY <3>1, <3>2 DEF y
  <2>. QED  BY <1>9, <1>10, <2>2, <2>3
<1>12. UNCHANGED <<CommittedShapes, HandedOut>>
  <2>. DEFINE b == Layout
              d == Layout'
  <2>1. /\ b.num_graphs = d.num_graphs /\ b.ptrs = d.ptrs /\ b.offsets = d.offsets
        /\ b.counts = d.counts /\ b.offsets = node_offsets
        /\ b.edge_index = edge_index /\ d.edge_index = edge_index'
    BY <1>1 DEF Layout
  <2>2. /\ CommittedShapes = GraphsIn(b)
    BY <1>1, LiveCuts DEF Usable
  <2>3. CommittedShapes' = GraphsIn(d)
    BY <1>1, LiveCutsAfter DEF Usable
  <2>4. Good(b)
    BY <1>2
  <2>. HIDE DEF b, d
  <2>5. \A t \in NodeTypes : \A k \in 1..(b.num_graphs + 1) : Start(d, t, k) = Start(b, t, k)
    BY <2>1 DEF Start
  <2>6. ASSUME NEW r \in EdgeTypes
        PROVE  /\ DOMAIN b.edge_index[r] \subseteq DOMAIN d.edge_index[r]
               /\ \A m \in DOMAIN b.edge_index[r] : d.edge_index[r][m] = b.edge_index[r][m]
               /\ \A m \in DOMAIN d.edge_index[r] : m \notin DOMAIN b.edge_index[r] =>
                    d.edge_index[r][m][1] \in Nat /\ b.offsets[SrcOf[r]] <= d.edge_index[r][m][1]
    <3>1. CASE r # e
      BY <1>5, <2>1, <3>1
    <3>2. CASE r = e
      <4>1. /\ DOMAIN cols = 1..Len(cols) /\ DOMAIN Append(cols, edge) = 1..(Len(cols) + 1)
            /\ \A m \in 1..Len(cols) : Append(cols, edge)[m] = cols[m]
            /\ Append(cols, edge)[Len(cols) + 1] = edge /\ Len(cols) \in Nat
        <5>. HIDE DEF cols
        <5>. QED  BY <1>4, <1>5, AppendProperties, LenProperties
      <4>2. b.edge_index[r] = cols /\ d.edge_index[r] = Append(cols, edge)
        BY <1>5, <2>1, <3>2
      <4>3. edge[1] \in Nat /\ b.offsets[SrcOf[r]] <= edge[1]
        BY <1>3, <1>4, <2>1, <3>2
      <4>. HIDE DEF cols
      <4>4. \A m \in 1..(Len(cols) + 1) : m \notin 1..Len(cols) => m = Len(cols) + 1
        BY <4>1
      <4>. QED  BY <4>1, <4>2, <4>3, <4>4
    <3>. QED  BY <3>1, <3>2
  <2>7. \A k \in 1..b.num_graphs : GraphIn(d, k) = GraphIn(b, k)
    BY <2>4, <2>5, <2>6, CutsKept
  <2>8. GraphsIn(d) = GraphsIn(b)
    BY <2>1, <2>7 DEF GraphsIn
  <2>. QED  BY <1>1, <2>2, <2>3, <2>8 DEF HandedOut
<1>. QED  BY <1>6, <1>10, <1>11, <1>12 DEF Shapes!Connect

\* set_graph_field assigns a field that the open graph had not assigned.
LEMMA SetShapes ==
  ASSUME IInv, IInv', FieldInv, NEW f \in Fields, NEW rows \in FieldInputs[f],
         SetGraphField(f, rows)
  PROVE  Shapes!Assign
<1>1. /\ Usable /\ pending[f] = NoValue /\ pending' = [pending EXCEPT ![f] = rows]
      /\ UNCHANGED <<current_node_counts, node_offsets, ptrs, edge_index,
                     current_graph_idx, torn, encoding>>
  BY DEF SetGraphField, SetField, graphVars
<1>2. pending \in [Fields -> Rows \cup {NoValue}] /\ rows \in Seq(Int)
  BY FieldUses DEF FieldInv, FieldTypeOK
<1>3. UNCHANGED <<CommittedShapes, HandedOut>>
  BY <1>1, CommittedSame DEF Usable
<1>4. /\ ShapeInHand = OpenShape /\ Shapes!Building /\ ShapeInHand' = OpenShape'
      /\ ShapeInHand' # Aborted
  BY <1>1, InHand, StillInHand DEF Usable
<1>5. OpenShape.vals[f] = NoValue /\ OpenShape'.vals = [OpenShape.vals EXCEPT ![f] = <<>>]
  <2>1. OpenShape.vals = [g \in Fields |-> IF pending[g] = NoValue THEN NoValue ELSE <<>>]
    BY OpenParts
  <2>2. OpenShape'.vals = [g \in Fields |-> IF pending'[g] = NoValue THEN NoValue ELSE <<>>]
    BY DEF OpenShape
  <2>3. pending'[f] # NoValue /\ \A g \in Fields : g # f => pending'[g] = pending[g]
    BY <1>1, <1>2, NoValueIsNoRows
  <2>. QED  BY <1>1, <2>1, <2>2, <2>3
<1>6. OpenShape' = [OpenShape EXCEPT !.vals[f] = OpenShape'.vals[f]]
  <2>. DEFINE nodes == current_node_counts
              edges == OpenShape.edges
              vals == OpenShape.vals
              x == <<>>
  <2>1. OpenShape = [nodes |-> nodes, edges |-> edges, vals |-> vals]
    BY OpenParts
  <2>2. OpenShape' = [nodes |-> nodes, edges |-> edges, vals |-> OpenShape'.vals]
    BY <1>1 DEF OpenShape
  <2>3. OpenShape'.vals = [vals EXCEPT ![f] = x] /\ OpenShape'.vals[f] = x
    <3>1. DOMAIN OpenShape.vals = Fields
      BY OpenParts
    <3>. QED  BY <1>5, <3>1
  <2>. HIDE DEF nodes, edges, vals, x
  <2>4. [OpenShape EXCEPT !.vals[f] = x]
          = [nodes |-> nodes, edges |-> edges, vals |-> [vals EXCEPT ![f] = x]]
    BY <2>1
  <2>. QED  BY <2>2, <2>3, <2>4
<1>. QED  BY <1>3, <1>4, <1>5, <1>6 DEF Shapes!Assign

\* A call that touches neither fields' values nor graphs.
LEMMA SameShapes ==
  ASSUME UNCHANGED <<pending, graphVars, torn, encoding>>, Usable
  PROVE  UNCHANGED <<CommittedShapes, ShapeInHand, HandedOut>>
<1>1. /\ UNCHANGED <<pending, current_node_counts, node_offsets, ptrs, edge_index,
                     current_graph_idx, torn, encoding>>
  BY DEF graphVars
<1>2. UNCHANGED <<CommittedShapes, HandedOut>>
  BY <1>1, CommittedSame DEF Usable
<1>3. OpenShape' = OpenShape
  BY <1>1 DEF OpenShape
<1>. QED  BY <1>1, <1>2, <1>3 DEF ShapeInHand

\* A call that throws loses the open graph and no other.
LEMMA ThrowShapes ==
  ASSUME IInv, Usable, torn' = TRUE, UNCHANGED <<ptrs, edge_index, current_graph_idx, encoding>>
  PROVE  Shapes!Abort
<1>1. UNCHANGED <<CommittedShapes, HandedOut>> /\ Shapes!Building
  BY CommittedSame, InHand DEF Usable
<1>2. ShapeInHand' = Aborted
  BY DEF ShapeInHand
<1>. QED  BY <1>1, <1>2 DEF Shapes!Abort

\* What lies open after the counts are cleared.
LEMMA NothingOpenAfter ==
  ASSUME IInv', current_node_counts' = NoNodes, pending' = NothingPending, ~torn'
  PROVE  ShapeInHand' = Shapes!NoGraph
<1>1. (IInv /\ current_node_counts = NoNodes /\ pending = NothingPending)'
        => (OpenShape = Shapes!NoGraph)'
  BY NothingOpen, PTL
<1>2. NoNodes' = NoNodes /\ NothingPending' = NothingPending
  BY DEF NoNodes, NothingPending
<1>3. OpenShape' = Shapes!NoGraph
  BY <1>1, <1>2 DEF Shapes!NoGraph
<1>. QED  BY <1>3 DEF ShapeInHand

\* next_graph commits the open graph.
LEMMA NextGraphShapes ==
  ASSUME IInv, IInv', FieldInv, NextGraph
  PROVE  Shapes!Commit
<1>1. /\ Usable /\ counted # {} /\ node_offsets' = OffsetsWith(current_node_counts)
      /\ ptrs' = CommittedPtrs /\ pending' = CommittedPending(ToSet(registered))
      /\ current_node_counts' = NoNodes /\ current_graph_idx' = current_graph_idx + 1
      /\ UNCHANGED <<counted, edge_index, torn, encoding>>
  BY DEF NextGraph, MayCommit
<1>2. Layout' = Committed(Layout)
  BY <1>1, CommittedLayout DEF Layout
<1>3. GraphsIn(Committed(Layout)) = Append(GraphsIn(Layout), GraphIn(Layout, current_graph_idx + 1))
  <2>1. Good(Layout) /\ Layout.keys # {} /\ Layout.num_graphs = current_graph_idx
    BY <1>1, LayoutFacts DEF IInv
  <2>. QED  BY <2>1, CommitAppends
<1>4. CommittedShapes = GraphsIn(Layout) /\ CommittedShapes' = GraphsIn(Layout')
  BY <1>1, LiveCuts, LiveCutsAfter DEF Usable
<1>5. pending' = NothingPending
  <2>1. \A f \in Fields : pending[f] # NoValue => f \in ToSet(registered)
    BY DEF FieldInv, PendingOK
  <2>. QED  BY <1>1, <2>1 DEF CommittedPending, NothingPending
<1>6. ShapeInHand' = Shapes!NoGraph /\ ShapeInHand = OpenShape /\ Shapes!Building
  BY <1>1, <1>5, InHand, NothingOpenAfter DEF Usable
<1>7. CommittedShapes' = Append(CommittedShapes, Shapes!Closed(ShapeInHand))
  BY <1>2, <1>3, <1>4, <1>6, ClosedCut
<1>8. UNCHANGED HandedOut
  BY <1>1 DEF HandedOut
<1>. QED  BY <1>6, <1>7, <1>8 DEF Shapes!Commit

\* A builder that has nothing to commit has nothing open.
LEMMA NothingUncommitted ==
  ASSUME IInv, FieldInv, ~HasUncommitted
  PROVE  /\ current_node_counts = NoNodes /\ pending = NothingPending
         /\ OpenShape = Shapes!NoGraph
<1>1. current_node_counts \in [NodeTypes -> Nat] /\ pending \in [Fields -> Rows \cup {NoValue}]
  BY LayoutFacts DEF IInv, Good, LayoutType, FieldInv, FieldTypeOK
<1>2. current_node_counts = NoNodes
  <2>1. \A t \in NodeTypes : ~(current_node_counts[t] > 0)
    BY DEF HasUncommitted
  <2>2. \A t \in NodeTypes : current_node_counts[t] = 0
    BY <1>1, <2>1
  <2>. QED  BY <1>1, <2>2 DEF NoNodes
<1>3. pending = NothingPending
  <2>1. \A f \in Fields : pending[f] = NoValue
    BY DEF HasUncommitted, FieldInv, PendingOK
  <2>. QED  BY <1>1, <2>1 DEF NothingPending
<1>. QED  BY <1>2, <1>3, NothingOpen

\* ... and one that has something to commit has a graph open.
LEMMA SomethingUncommitted ==
  ASSUME FieldInv, HasUncommitted
  PROVE  OpenShape # Shapes!NoGraph
<1>1. CASE \E t \in NodeTypes : current_node_counts[t] > 0
  <2>1. PICK t \in NodeTypes : current_node_counts[t] > 0
    BY <1>1
  <2>2. OpenShape.nodes[t] # 0 /\ Shapes!NoGraph.nodes[t] = 0
    BY <2>1 DEF OpenShape, Shapes!NoGraph
  <2>. QED  BY <2>2
<1>2. CASE \E f \in ToSet(registered) : pending[f] # NoValue
  <2>1. PICK f \in ToSet(registered) : pending[f] # NoValue
    BY <1>2
  <2>2. f \in Fields
    BY DEF FieldInv, FieldTypeOK, ToSet
  <2>3. <<>> \in Seq(Int)
    OBVIOUS
  <2>4. OpenShape.vals[f] # NoValue
    BY <2>1, <2>2, <2>3, NoValueIsNoRows, OpenParts
  <2>5. Shapes!NoGraph.vals[f] = NoValue
    BY <2>2 DEF Shapes!NoGraph
  <2>. QED  BY <2>4, <2>5
<1>. QED  BY <1>1, <1>2 DEF HasUncommitted

\* append_batch_encoding appends the graph of the encoding.
LEMMA AppendShapes ==
  ASSUME IInv, IInv', FieldInv, NEW e \in Encodings, AppendEncoding(e)
  PROVE  Shapes!Merge
<1>1. /\ Usable /\ ~HasUncommitted /\ KeysOf(e) # {}
      /\ counted' = counted \cup KeysOf(e) /\ node_offsets' = OffsetsWith(MergedCounts(e))
      /\ ptrs' = PtrsWith(counted \cup KeysOf(e), MergedCounts(e))
      /\ edge_index' = [r \in EdgeTypes |-> edge_index[r] \o ShiftedEdges(e)[r]]
      /\ current_node_counts' = NoNodes /\ current_graph_idx' = current_graph_idx + 1
      /\ UNCHANGED <<pending, torn, encoding>>
  BY DEF AppendEncoding, MayMerge
<1>2. /\ current_node_counts = NoNodes /\ pending = NothingPending
      /\ OpenShape = Shapes!NoGraph
  BY <1>1, NothingUncommitted
<1>3. Layout' = Committed(Joined(e))
  BY <1>1 DEF Layout, Committed, Joined, Counted, OffsetsWith, PtrsWith
<1>4. /\ GraphIn(Joined(e), current_graph_idx + 1) = ShapeOf(e, 1)
      /\ GraphsIn(Joined(e)) = GraphsIn(Layout)
  BY <1>2, JoinedCut
<1>5. GraphsIn(Committed(Joined(e)))
        = Append(GraphsIn(Joined(e)), GraphIn(Joined(e), current_graph_idx + 1))
  <2>1. Good(Joined(e)) /\ Joined(e).keys # {} /\ Joined(e).num_graphs = current_graph_idx
    BY <1>1, JoinedGood DEF Joined, Counted
  <2>. QED  BY <2>1, CommitAppends
<1>6. CommittedShapes = GraphsIn(Layout) /\ CommittedShapes' = GraphsIn(Layout')
  BY <1>1, LiveCuts, LiveCutsAfter DEF Usable
<1>7. CommittedShapes' = Append(CommittedShapes, ShapeOf(e, 1))
  BY <1>3, <1>4, <1>5, <1>6
<1>8. ShapeInHand' = Shapes!NoGraph /\ ShapeInHand = OpenShape /\ Shapes!Building
  BY <1>1, <1>2, InHand, NothingOpenAfter DEF Usable
<1>9. UNCHANGED HandedOut
  BY <1>1 DEF HandedOut
<1>. QED  BY <1>2, <1>7, <1>8, <1>9 DEF Shapes!Merge

\* build() hands out the committed graphs, and the open one if there is one.
LEMMA BuildShapes ==
  ASSUME IInv, IInv', FieldInv, Build
  PROVE  Shapes!Seal
<1>1. /\ Usable /\ current_node_counts' = NoNodes /\ pending' = NothingPending /\ ~torn'
  BY DEF Build, Cleared
<1>2. encoding' # None
  BY BuildTyped, NoneIsNoBatch
<1>3. PICK b :
        /\ BuiltFrom(b) /\ Good(b)
        /\ encoding'.ptrs = [t \in NodeTypes |-> LeftPadded(b.ptrs[t], b.num_graphs + 1)]
        /\ encoding'.edge_index = b.edge_index /\ encoding'.num_graphs = b.num_graphs
  BY BuildPads
<1>4. CommittedShapes' = GraphsIn(b)
  <2>. DEFINE e == encoding'
  <2>1. CommittedShapes' = [k \in 1..e.num_graphs |-> ShapeOf(e, k)]
    BY <1>2 DEF CommittedShapes, HeldBatch
  <2>2. /\ e.num_graphs = b.num_graphs /\ e.edge_index = b.edge_index
        /\ \A t \in NodeTypes : e.ptrs[t] = LeftPadded(b.ptrs[t], b.num_graphs + 1)
    BY <1>3
  <2>. HIDE DEF e
  <2>3. [k \in 1..e.num_graphs |-> ShapeOf(e, k)] = [k \in 1..b.num_graphs |-> GraphIn(b, k)]
    BY <1>3, <2>2, CutShapes
  <2>. QED  BY <2>1, <2>3 DEF GraphsIn
<1>5. CommittedShapes = GraphsIn(Layout)
  BY <1>1, LiveCuts DEF Usable
<1>6. ShapeInHand' = Shapes!NoGraph /\ ShapeInHand = OpenShape /\ Shapes!Building
  BY <1>1, InHand, NothingOpenAfter
<1>7. \/ OpenShape = Shapes!NoGraph /\ CommittedShapes' = CommittedShapes
      \/ /\ OpenShape # Shapes!NoGraph
         /\ CommittedShapes' = Append(CommittedShapes, Shapes!Closed(OpenShape))
  <2>1. CASE ~HasUncommitted /\ b = Layout
    BY <1>4, <1>5, <2>1, NothingUncommitted
  <2>2. CASE HasUncommitted /\ counted # {} /\ b = Committed(Layout)
    <3>1. Good(Layout) /\ Layout.keys # {} /\ Layout.num_graphs = current_graph_idx
      BY <2>2, LayoutFacts DEF IInv
    <3>2. GraphsIn(Committed(Layout))
            = Append(GraphsIn(Layout), GraphIn(Layout, current_graph_idx + 1))
      BY <3>1, CommitAppends
    <3>3. OpenShape # Shapes!NoGraph
      BY <2>2, SomethingUncommitted
    <3>. QED  BY <1>4, <1>5, <2>2, <3>2, <3>3, ClosedCut
  <2>. QED  BY <1>3, <2>1, <2>2 DEF BuiltFrom
<1>. QED  BY <1>2, <1>6, <1>7 DEF Shapes!Seal, HandedOut

\* load_from_batch_encoding takes the batch up where build() left it.
LEMMA LoadShapes ==
  ASSUME IInv, IInv', HandedClean, LoadFromEncoding
  PROVE  Shapes!Resume
<1>1. /\ encoding # None /\ encoding' = None /\ current_node_counts' = NoNodes
      /\ pending' = NothingPending /\ ~torn' /\ Layout' = LayoutOf(encoding)
  BY DEF LoadFromEncoding, Layout, LayoutOf
<1>2. CommittedShapes = GraphsIn(LayoutOf(encoding)) /\ CommittedShapes' = GraphsIn(Layout')
  BY <1>1, HeldCuts, LiveCutsAfter
<1>3. ShapeInHand' = Shapes!NoGraph
  BY <1>1, NothingOpenAfter
<1>4. ShapeInHand = Shapes!NoGraph
  BY <1>1, NothingOpen DEF HandedClean, ShapeInHand
<1>. QED  BY <1>1, <1>2, <1>3, <1>4 DEF Shapes!Resume, HandedOut

LEMMA ResetShapes ==
  ASSUME IInv', Reset
  PROVE  Shapes!Clear
<1>1. /\ encoding' = None /\ current_graph_idx' = 0 /\ current_node_counts' = NoNodes
      /\ pending' = NothingPending /\ ~torn'
  BY DEF Reset, Cleared
<1>2. CommittedShapes' = <<>>
  <2>1. HeldBatch'.num_graphs = 0
    BY <1>1 DEF HeldBatch, LiveBatch, Batch
  <2>. QED  BY <2>1 DEF CommittedShapes
<1>3. ShapeInHand' = Shapes!NoGraph
  BY <1>1, NothingOpenAfter
<1>. QED  BY <1>1, <1>2, <1>3 DEF Shapes!Clear, HandedOut

-----------------------------------------------------------------------------
(* Theorems.                                                               *)

\* Whatever calls are made, in whatever order, and also when one of them throws
\* half way, the members of the builder and the encoding it hands out keep the
\* types they are declared with.
THEOREM BuilderTypes == Spec => []TypeOK
<1>1. Init => FieldInv
  BY InitFieldInv
<1>2. IInv /\ FieldInv /\ [Next]_vars => FieldInv'
  BY NextFieldInv
<1>3. IInv /\ FieldInv => TypeOK
  BY LayoutFacts DEF IInv, Good, LayoutType, GraphTypeOK, FieldInv, TypeOK
<1>. QED  BY <1>1, <1>2, <1>3, IInvHolds, PTL DEF Spec

\* When no caller brings a field into a batch that has graphs, every field of an
\* encoding that build() returns passes validate_graph_field_storage: a row per
\* graph, or boundaries that span all graphs and end at the last row.
THEOREM BuiltEncodingsAreValid ==
  ASSUME "late" \notin Liberties
  PROVE  Spec => []BuiltEncodingValid
<1>1. Spec => []FieldInv
  BY InitFieldInv, NextFieldInv, IInvHolds, PTL DEF Spec
<1>2. IInv /\ FieldInv /\ StorageInv /\ [Next]_vars => StorageInv'
  BY NextStorageInv
<1>3. Spec => []StorageInv
  BY <1>1, <1>2, InitStorageInv, IInvHolds, PTL DEF Spec
<1>4. FieldInv /\ StorageInv /\ BuiltPtrsSpan => BuiltEncodingValid
  <2>. SUFFICES ASSUME FieldInv, StorageInv, encoding # None, NEW f \in ToSet(encoding.registered)
                PROVE  ValidStorage(f, encoding.values[f], encoding.field_ptr[f], encoding.num_graphs)
    BY DEF BuiltEncodingValid
  <2>1. encoding.registered \in Seq(Fields)
    BY DEF FieldInv, BatchType
  <2>2. f \in Fields
    BY <2>1 DEF ToSet
  <2>. QED  BY <2>2 DEF StorageInv, FieldsValid
<1>. QED  BY <1>1, <1>3, <1>4, BuiltPtrsAlwaysSpan, PTL

\* When no merge has a count field in front of the ids that use it, the ids of a
\* built encoding are ids that its count field hands out, through any sequence
\* of commits, merges, builds and loads.
THEOREM IdsAlwaysInRange ==
  ASSUME "counts_first" \notin Liberties
  PROVE  Spec => []FieldIdsInRange
<1>1. Spec => []FieldInv
  BY InitFieldInv, NextFieldInv, IInvHolds, PTL DEF Spec
<1>2. IInv /\ FieldInv /\ RangeInv /\ [Next]_vars => RangeInv'
  BY NextRangeInv
<1>3. FieldInv /\ RangeInv => FieldIdsInRange
  <2>. SUFFICES ASSUME FieldInv, RangeInv, encoding # None, NEW f \in ToSet(encoding.registered),
                       IncKind[f] = "FIELD_OFFSET"
                PROVE  RowsBelow(encoding.values[f], encoding.values[IncOf[f]])
    BY DEF FieldIdsInRange, RowsBelow
  <2>1. encoding.registered \in Seq(Fields)
    BY DEF FieldInv, BatchType
  <2>2. f \in Fields
    BY <2>1 DEF ToSet
  <2>. QED  BY <2>2 DEF RangeInv, IdsInRange
<1>. QED  BY <1>1, <1>2, <1>3, InitRangeInv, IInvHolds, PTL DEF Spec

\* Offsets, padded boundaries and shifted edges lose nothing: through any sequence
\* of commits, merges, builds, loads and calls that throw, with any fields, the
\* batch cuts back into exactly the nodes and edges of the graphs that were put
\* into it, in their order, and build() hands out these and the open one.
THEOREM BatchIsItsShapes == Spec => CutsBackIntoItsShapes
<1>1. Init => Shapes!AbstractInit
  <2>. SUFFICES ASSUME Init PROVE Shapes!AbstractInit
    OBVIOUS
  <2>1. /\ encoding = None /\ current_graph_idx = 0 /\ current_node_counts = NoNodes
        /\ pending = NothingPending /\ torn = FALSE
    BY DEF Init, FieldsInit
  <2>2. OpenShape = Shapes!NoGraph
    BY <2>1, InitIInv, NothingOpen
  <2>3. CommittedShapes = <<>>
    <3>1. HeldBatch.num_graphs = 0
      BY <2>1 DEF HeldBatch, LiveBatch, Batch
    <3>. QED  BY <3>1 DEF CommittedShapes
  <2>. QED  BY <2>1, <2>2, <2>3 DEF Shapes!AbstractInit, ShapeInHand, HandedOut
<1>2. IInv /\ IInv' /\ FieldInv /\ HandedClean /\ [Next]_vars
        => [Shapes!AbstractNext]_<<CommittedShapes, ShapeInHand, HandedOut>>
  <2>. SUFFICES ASSUME IInv, IInv', FieldInv, HandedClean, [Next]_vars
                PROVE  \/ Shapes!AbstractNext
                       \/ UNCHANGED <<CommittedShapes, ShapeInHand, HandedOut>>
    OBVIOUS
  <2>1. ASSUME NEW t \in NodeTypes, NEW count \in 0..MaxNodes[t], AddNodes(t, count)
        PROVE  Shapes!DeclareNodes \/ UNCHANGED <<CommittedShapes, ShapeInHand, HandedOut>>
    BY <2>1, AddNodesShapes
  <2>2. ASSUME NEW e \in EdgeTypes, NEW i \in 0..(MaxNodes[SrcOf[e]] - 1),
               NEW j \in 0..(MaxNodes[DstOf[e]] - 1), AddEdge(e, i, j)
        PROVE  Shapes!Connect
    BY <2>2, AddEdgeShapes
  <2>3. ASSUME NEW f \in Fields, RegisterGraphField(f)
        PROVE  UNCHANGED <<CommittedShapes, ShapeInHand, HandedOut>>
    BY <2>3, SameShapes DEF RegisterGraphField, RegisterField
  <2>4. ASSUME NEW f \in Fields, NEW rows \in FieldInputs[f], SetGraphField(f, rows)
        PROVE  Shapes!Assign
    BY <2>4, SetShapes
  <2>5. CASE NextGraph
    BY <2>5, NextGraphShapes DEF Shapes!AbstractNext
  <2>6. CASE NextGraphThrows
    BY <2>6, ThrowShapes DEF NextGraphThrows, graphVars, Shapes!AbstractNext
  <2>7. ASSUME NEW e \in Encodings, AppendEncoding(e)
        PROVE  Shapes!Merge
    BY <2>7, AppendShapes
  <2>8. ASSUME NEW e \in Encodings, AppendEncodingThrows(e)
        PROVE  Shapes!Abort
    BY <2>8, ThrowShapes DEF AppendEncodingThrows
  <2>9. CASE Build
    BY <2>9, BuildShapes DEF Shapes!AbstractNext
  <2>10. CASE Reset
    BY <2>10, ResetShapes DEF Shapes!AbstractNext
  <2>11. CASE LoadFromEncoding
    BY <2>11, LoadShapes DEF Shapes!AbstractNext
  <2>12. ASSUME UNCHANGED vars
         PROVE  UNCHANGED <<CommittedShapes, ShapeInHand, HandedOut>>
    <3>1. UNCHANGED <<pending, values, field_ptr, registered, current_node_counts, node_offsets,
                      ptrs, edge_index, current_graph_idx, torn, encoding>>
      BY <2>12 DEF vars, fieldVars, graphVars
    <3>. QED  BY <3>1 DEF CommittedShapes, HeldBatch, LiveBatch, Batch, ShapeInHand, OpenShape,
                          HandedOut
  <2>. QED  BY <2>1, <2>2, <2>3, <2>4, <2>5, <2>6, <2>7, <2>8, <2>9, <2>10, <2>11, <2>12
            DEF Next, Shapes!AbstractNext
<1>3. Spec => []FieldInv
  BY InitFieldInv, NextFieldInv, IInvHolds, PTL DEF Spec
<1>4. Spec => []HandedClean
  BY InitHandedClean, NextHandedClean, PTL DEF Spec
<1>. QED  BY <1>1, <1>2, <1>3, <1>4, IInvHolds, PTL
          DEF Spec, CutsBackIntoItsShapes, Shapes!AbstractSpec, Shapes!abstractVars
=============================================================================
