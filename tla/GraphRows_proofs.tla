---------------------------- MODULE GraphRows_proofs ----------------------------
(***************************************************************************)
(* The rows of graphs, for any domain, config and state.  Flat: a batch has*)
(* them as the builder makes it, regrouped by relation, or put together    *)
(* from single graphs: each tuple is read back with its own entities       *)
(* (TuplesUnpack), if it is of a relation, has its width, and refers to    *)
(* rows of its graph.  What the encoder emits is so (FlatEncodingFits):    *)
(* preparation met every row and every relation that emission uses.        *)
(* Derived: PyG puts the builder's batch together from single graphs       *)
(* (CollationAgrees), and a row of the table of instances has its nodes,   *)
(* channels and members there (DrawingsAlwaysSurvive), if the nodes of the *)
(* graph are those that its edges and rows refer to.  What the encoder     *)
(* draws is so (EncodedDrawing).                                           *)
(* The last two sections are about the order of the lanes that rows are    *)
(* made of: history sorted twice, and goals as they are written.           *)
(***************************************************************************)
EXTENDS DerivedBatch, FlatGraph, IdOrder_proofs

-----------------------------------------------------------------------------
(***************************************************************************)
(* The rows of one graph.                                                  *)
(***************************************************************************)
\* What emission says of a graph: a tuple is of one of the relations, has its arity
\* and refers to rows of the table.
TableFits(graph) ==
  /\ graph.entities \in Seq(ToSet(graph.entities))
  /\ graph.tuples \in Seq(ToSet(graph.tuples))

TupleFits(ids, widths, graph, tuple) ==
  /\ tuple.args \in Seq(ToSet(graph.entities))
  /\ \E r \in DOMAIN ids : tuple.key = ids[r]
  /\ \A r \in DOMAIN ids : tuple.key = ids[r] => Len(tuple.args) = widths[r]

GraphFits(ids, widths, graph) ==
  /\ TableFits(graph)
  /\ \A n \in DOMAIN graph.tuples : TupleFits(ids, widths, graph, graph.tuples[n])

IdsFit(ids, widths) ==
  /\ ids \in Seq(ToSet(ids))
  /\ \A r, q \in DOMAIN ids : ids[r] = ids[q] => r = q
  /\ widths \in [DOMAIN ids -> Nat]

\* The tuples of a relation, in order.
LEMMA EmittedFacts ==
  ASSUME NEW ids, NEW widths, IdsFit(ids, widths),
         NEW graph, GraphFits(ids, widths, graph), NEW r \in DOMAIN ids
  PROVE  /\ TuplesOf(ids, graph, r) \in SUBSET Nat /\ IsFiniteSet(TuplesOf(ids, graph, r))
         /\ Emitted(ids, graph, r) \in Seq(ToSet(graph.tuples))
         /\ Len(Emitted(ids, graph, r)) = Cardinality(TuplesOf(ids, graph, r))
         /\ Len(Emitted(ids, graph, r)) \in Nat
         /\ \A m \in 1..Len(Emitted(ids, graph, r)) :
              /\ Place(TuplesOf(ids, graph, r), m) \in TuplesOf(ids, graph, r)
              /\ Emitted(ids, graph, r)[m] = graph.tuples[Place(TuplesOf(ids, graph, r), m)]
              /\ Emitted(ids, graph, r)[m].args \in Seq(ToSet(graph.entities))
              /\ Len(Emitted(ids, graph, r)[m].args) = widths[r]
<1>. DEFINE of == TuplesOf(ids, graph, r)
            f == [n \in of |-> graph.tuples[n]]
<1>1. DOMAIN graph.tuples = 1..Len(graph.tuples) /\ Len(graph.tuples) \in Nat
  BY LenProperties DEF GraphFits, TableFits
<1>2. of \in SUBSET (1..Len(graph.tuples))
  BY <1>1 DEF TuplesOf
<1>3. of \in SUBSET Nat /\ IsFiniteSet(of)
  <2>1. 1 \in Int /\ Len(graph.tuples) \in Int
    BY <1>1
  <2>2. IsFiniteSet(1..Len(graph.tuples))
    BY <2>1, FS_Interval
  <2>. QED  BY <1>1, <1>2, <2>2, FS_Subset
<1>. HIDE DEF of
<1>4. DOMAIN f = of /\ f \in [of -> ToSet(graph.tuples)]
  BY <1>1, <1>2 DEF ToSet
<1>5. Emitted(ids, graph, r) = InOrder(f)
  BY DEF Emitted, Chosen, of
<1>6. InOrder(f) \in Seq(ToSet(graph.tuples)) /\ Len(InOrder(f)) = Cardinality(of)
  <2>. HIDE DEF f
  <2>. QED  BY <1>3, <1>4, InOrderType
<1>7. /\ Cardinality(of) \in Nat
      /\ \A m \in 1..Cardinality(of) : Place(of, m) \in of
  BY <1>3, PlacesInOrder
<1>8. ASSUME NEW m \in 1..Cardinality(of)
      PROVE  /\ InOrder(f)[m] = graph.tuples[Place(of, m)]
             /\ InOrder(f)[m].args \in Seq(ToSet(graph.entities))
             /\ Len(InOrder(f)[m].args) = widths[r]
  <2>1. InOrder(f)[m] = f[Place(of, m)]
    BY <1>4 DEF InOrder
  <2>2. Place(of, m) \in of /\ f[Place(of, m)] = graph.tuples[Place(of, m)]
    BY <1>7
  <2>. DEFINE n == Place(of, m)
  <2>3. n \in DOMAIN graph.tuples /\ graph.tuples[n].key = ids[r]
    BY <2>2 DEF of, TuplesOf
  <2>. HIDE DEF n
  <2>4. /\ graph.tuples[n].args \in Seq(ToSet(graph.entities))
        /\ Len(graph.tuples[n].args) = widths[r]
    BY <2>3 DEF GraphFits, TupleFits
  <2>. QED  BY <2>1, <2>2, <2>4 DEF n
<1>. QED  BY <1>3, <1>5, <1>6, <1>7, <1>8 DEF of

\* The number of an entity is its place in the table.
LEMMA RowNumberIs ==
  ASSUME NEW graph, TableFits(graph), NEW entity \in ToSet(graph.entities)
  PROVE  /\ RowNumber(graph, entity) \in Nat
         /\ RowNumber(graph, entity) + 1 \in 1..Len(graph.entities)
         /\ graph.entities[RowNumber(graph, entity) + 1] = entity
<1>. DEFINE place == CHOOSE i \in DOMAIN graph.entities : graph.entities[i] = entity
<1>1. DOMAIN graph.entities = 1..Len(graph.entities) /\ Len(graph.entities) \in Nat
  BY LenProperties DEF TableFits
<1>2. \E i \in DOMAIN graph.entities : graph.entities[i] = entity
  BY DEF ToSet
<1>3. place \in DOMAIN graph.entities /\ graph.entities[place] = entity
  BY <1>2
<1>4. RowNumber(graph, entity) = place - 1
  BY DEF RowNumber
<1>. HIDE DEF place
<1>5. place \in 1..Len(graph.entities) /\ place - 1 \in Nat /\ (place - 1) + 1 = place
  BY <1>1, <1>3
<1>. QED  BY <1>3, <1>4, <1>5

\* The arguments of a relation, tuple after tuple.
LEMMA BucketIs ==
  ASSUME NEW ids, NEW widths, IdsFit(ids, widths),
         NEW graph, GraphFits(ids, widths, graph), NEW r \in DOMAIN ids
  PROVE  /\ Bucket(ids, graph, r) \in Seq(Nat)
         /\ Len(Bucket(ids, graph, r)) = Len(Emitted(ids, graph, r)) * widths[r]
         /\ \A m \in 1..Len(Emitted(ids, graph, r)) : \A k \in 1..widths[r] :
              Bucket(ids, graph, r)[(m - 1) * widths[r] + k]
                = RowNumber(graph, Emitted(ids, graph, r)[m].args[k])
<1>. DEFINE emitted == Emitted(ids, graph, r)
            w == widths[r]
            parts == [n \in DOMAIN emitted |-> RowNumbers(graph, emitted[n])]
<1>1. /\ emitted \in Seq(ToSet(graph.tuples)) /\ Len(emitted) \in Nat
      /\ \A m \in 1..Len(emitted) : /\ emitted[m].args \in Seq(ToSet(graph.entities))
                                    /\ Len(emitted[m].args) = w
  BY EmittedFacts
<1>2. DOMAIN emitted = 1..Len(emitted)
  BY <1>1, LenProperties
<1>3. w \in Nat
  BY DEF IdsFit
<1>4. Bucket(ids, graph, r) = FlattenSeq(parts)
  BY DEF Bucket
<1>. HIDE DEF emitted, w
<1>5. ASSUME NEW m \in 1..Len(emitted)
      PROVE  /\ parts[m] \in Seq(Nat) /\ Len(parts[m]) = w
             /\ \A k \in 1..w : parts[m][k] = RowNumber(graph, emitted[m].args[k])
  <2>. DEFINE args == emitted[m].args
  <2>1. args \in Seq(ToSet(graph.entities)) /\ DOMAIN args = 1..w
    BY <1>1, LenProperties
  <2>2. parts[m] = [k \in 1..w |-> RowNumber(graph, args[k])]
    BY <1>2, <2>1 DEF RowNumbers
  <2>. HIDE DEF args, parts
  <2>3. ASSUME NEW k \in 1..w
        PROVE  RowNumber(graph, args[k]) \in Nat
    <3>1. Len(args) = w
      BY <1>1 DEF args
    <3>2. args[k] \in ToSet(graph.entities)
      BY <2>1, <3>1, ElementOfSeq
    <3>. QED  BY <3>2, RowNumberIs DEF GraphFits
  <2>4. parts[m] \in Seq(Nat) /\ Len(parts[m]) = w
    BY <1>3, <2>2, <2>3, LenProperties
  <2>. QED  BY <2>2, <2>4 DEF args
<1>6. /\ parts \in Seq(Seq(Nat)) /\ Len(parts) = Len(emitted)
      /\ \A m \in 1..Len(emitted) : Lengths(parts)[m] = w
  <2>1. DOMAIN parts = 1..Len(emitted)
    BY <1>2
  <2>. HIDE DEF parts
  <2>2. parts \in [1..Len(emitted) -> Seq(Nat)]
    <3>1. parts = [m \in DOMAIN parts |-> parts[m]]
      BY DEF parts
    <3>. QED  BY <1>5, <2>1, <3>1
  <2>3. parts \in Seq(Seq(Nat)) /\ Len(parts) = Len(emitted)
    BY <1>1, <2>1, <2>2, LenProperties
  <2>. QED  BY <1>5, <2>1, <2>3 DEF Lengths
<1>. HIDE DEF parts
<1>7. /\ FlattenSeq(parts) \in Seq(Nat)
      /\ Len(FlattenSeq(parts)) = SumTo(Lengths(parts), Len(emitted))
      /\ \A m \in 1..Len(emitted) : \A k \in 1..w :
           FlattenSeq(parts)[SumTo(Lengths(parts), m - 1) + k] = parts[m][k]
  BY <1>5, <1>6, Flattened
<1>8. \A m \in 0..Len(emitted) : SumTo(Lengths(parts), m) = m * w
  <2>1. ASSUME NEW m \in 0..Len(emitted)
        PROVE  SumTo(Lengths(parts), m) = m * w
    <3>1. m \in Nat /\ \A i \in 1..m : Lengths(parts)[i] = w
      BY <1>1, <1>6
    <3>. QED  BY <1>3, <3>1, SumConstant
  <2>. QED  BY <2>1
<1>9. ASSUME NEW m \in 1..Len(emitted), NEW k \in 1..w
      PROVE  FlattenSeq(parts)[(m - 1) * w + k] = RowNumber(graph, emitted[m].args[k])
  <2>1. m - 1 \in 0..Len(emitted)
    BY <1>1
  <2>. QED  BY <1>5, <1>7, <1>8, <2>1
<1>10. Len(emitted) \in 0..Len(emitted)
  BY <1>1
<1>. QED  BY <1>4, <1>7, <1>8, <1>9, <1>10 DEF emitted, w

Buckets(ids, graph) == [r \in DOMAIN ids |-> Bucket(ids, graph, r)]

\* The arguments of a graph, relation after relation.
LEMMA ColumnIs ==
  ASSUME NEW ids, NEW widths, IdsFit(ids, widths),
         NEW graph, GraphFits(ids, widths, graph)
  PROVE  /\ Len(ids) \in Nat /\ DOMAIN ids = 1..Len(ids)
         /\ Buckets(ids, graph) \in Seq(Seq(Nat)) /\ Len(Buckets(ids, graph)) = Len(ids)
         /\ \A r \in DOMAIN ids : Lengths(Buckets(ids, graph))[r]
                                    = relation_counts(ids, graph)[r] * widths[r]
         /\ relation_args(ids, graph) = FlattenSeq(Buckets(ids, graph))
<1>1. Len(ids) \in Nat /\ DOMAIN ids = 1..Len(ids)
  BY LenProperties DEF IdsFit
<1>2. ASSUME NEW r \in DOMAIN ids
      PROVE  Buckets(ids, graph)[r] \in Seq(Nat)
             /\ Len(Buckets(ids, graph)[r]) = relation_counts(ids, graph)[r] * widths[r]
  BY BucketIs DEF Buckets, relation_counts, Relations
<1>3. Buckets(ids, graph) \in [1..Len(ids) -> Seq(Nat)]
  <2>1. Buckets(ids, graph) = [r \in 1..Len(ids) |-> Buckets(ids, graph)[r]]
    BY <1>1 DEF Buckets
  <2>. QED  BY <1>1, <1>2, <2>1
<1>4. Buckets(ids, graph) \in Seq(Seq(Nat)) /\ Len(Buckets(ids, graph)) = Len(ids)
  BY <1>1, <1>3, LenProperties
<1>5. relation_args(ids, graph) = FlattenSeq(Buckets(ids, graph))
  BY DEF relation_args, Buckets, Relations
<1>. QED  BY <1>1, <1>2, <1>3, <1>4, <1>5 DEF Lengths

-----------------------------------------------------------------------------
(***************************************************************************)
(* A batch, however it is stored.                                          *)
(***************************************************************************)
GraphsFit(ids, widths, graphs) ==
  /\ graphs \in Seq(ToSet(graphs))
  /\ \A g \in DOMAIN graphs : GraphFits(ids, widths, graphs[g])

\* What is to be found for a relation of a graph.
Piece(ids, graphs, g, r) ==
  Shifted(Bucket(ids, graphs[g], r), EntitiesBefore(graphs, g))

Stored(b, ids, widths, graphs) ==
  /\ b.ids = ids /\ b.arities = widths
  /\ b.node_sizes = [g \in DOMAIN graphs |-> Len(graphs[g].entities)]
  /\ b.counts = [g \in DOMAIN graphs |-> relation_counts(ids, graphs[g])]
  /\ \A g \in DOMAIN graphs : \A r \in DOMAIN ids :
       Segment(b, SlotStart(b, g, r), Width(b, g, r)) = Piece(ids, graphs, g, r)

\* The table of a batch has the entities of each graph behind those of the graphs before.
LEMMA TableIs ==
  ASSUME NEW graphs, graphs \in Seq(ToSet(graphs)),
         \A g \in DOMAIN graphs : TableFits(graphs[g]),
         NEW g \in DOMAIN graphs
  PROVE  /\ EntitiesBefore(graphs, g) \in Nat
         /\ \A i \in 1..Len(graphs[g].entities) :
              /\ EntitiesBefore(graphs, g) + i \in DOMAIN EntityTable(graphs)
              /\ EntityTable(graphs)[EntitiesBefore(graphs, g) + i] = graphs[g].entities[i]
<1>. DEFINE T == UNION {ToSet(graphs[h].entities) : h \in DOMAIN graphs}
            parts == [h \in DOMAIN graphs |-> graphs[h].entities]
<1>1. Len(graphs) \in Nat /\ DOMAIN graphs = 1..Len(graphs)
  BY LenProperties
<1>2. ASSUME NEW h \in DOMAIN graphs
      PROVE  graphs[h].entities \in Seq(T)
  <2>1. ToSet(graphs[h].entities) \subseteq T
    OBVIOUS
  <2>. HIDE DEF T
  <2>. QED  BY <2>1, SeqMonotonic DEF TableFits
<1>. HIDE DEF T
<1>3. parts \in Seq(Seq(T)) /\ Len(parts) = Len(graphs) /\ parts[g] = graphs[g].entities
  <2>1. parts \in [1..Len(graphs) -> Seq(T)]
    BY <1>1, <1>2
  <2>. HIDE DEF parts
  <2>2. parts \in Seq(Seq(T)) /\ Len(parts) = Len(graphs)
    BY <1>1, <2>1, LenProperties
  <2>. QED  BY <2>2 DEF parts
<1>4. EntitiesBefore(graphs, g) = SumTo(Lengths(parts), g - 1)
  <2>1. Lengths(parts) = [i \in DOMAIN graphs |-> Len(graphs[i].entities)]
    BY DEF Lengths
  <2>. QED  BY <2>1 DEF EntitiesBefore
<1>5. EntityTable(graphs) = FlattenSeq(parts)
  BY DEF EntityTable
<1>. HIDE DEF parts
<1>6. g \in 1..Len(parts)
  BY <1>1, <1>3
<1>. DEFINE before == SumTo(Lengths(parts), g - 1)
            whole == FlattenSeq(parts)
<1>7. /\ before \in Nat /\ Len(parts[g]) \in Nat /\ Len(whole) \in Nat
      /\ before + Len(parts[g]) <= Len(whole)
  BY <1>3, <1>6, FlattenedPart
<1>8. whole \in Seq(T) /\ \A i \in 1..Len(parts[g]) : whole[before + i] = parts[g][i]
  BY <1>3, <1>6, Flattened
<1>9. DOMAIN whole = 1..Len(whole)
  BY <1>8, LenProperties
<1>. HIDE DEF before, whole
<1>10. ASSUME NEW i \in 1..Len(parts[g])
       PROVE  before + i \in DOMAIN whole
  BY <1>7, <1>9
<1>. QED  BY <1>3, <1>4, <1>5, <1>7, <1>8, <1>10 DEF before, whole

\* A piece has the arguments of its relation, counted on.
LEMMA PieceIs ==
  ASSUME NEW ids, NEW widths, IdsFit(ids, widths), NEW graphs, GraphsFit(ids, widths, graphs),
         NEW g \in DOMAIN graphs, NEW r \in DOMAIN ids
  PROVE  /\ Piece(ids, graphs, g, r) \in Seq(Nat)
         /\ Len(Piece(ids, graphs, g, r)) = Len(Emitted(ids, graphs[g], r)) * widths[r]
         /\ Len(Piece(ids, graphs, g, r)) = Len(Bucket(ids, graphs[g], r))
         /\ \A k \in 1..Len(Piece(ids, graphs, g, r)) :
              Piece(ids, graphs, g, r)[k]
                = Bucket(ids, graphs[g], r)[k] + EntitiesBefore(graphs, g)
<1>. DEFINE bucket == Bucket(ids, graphs[g], r)
            by == EntitiesBefore(graphs, g)
<1>1. bucket \in Seq(Nat) /\ Len(bucket) = Len(Emitted(ids, graphs[g], r)) * widths[r]
  BY BucketIs DEF GraphsFit
<1>2. Len(bucket) \in Nat /\ DOMAIN bucket = 1..Len(bucket)
      /\ \A k \in 1..Len(bucket) : bucket[k] \in Nat
  BY <1>1, LenProperties, ElementOfSeq
<1>3. by \in Nat
  BY TableIs DEF GraphsFit, GraphFits
<1>. HIDE DEF bucket, by
<1>4. Shifted(bucket, by) = [k \in 1..Len(bucket) |-> bucket[k] + by]
  BY <1>2 DEF Shifted
<1>5. Shifted(bucket, by) \in Seq(Nat) /\ Len(Shifted(bucket, by)) = Len(bucket)
  <2>1. \A k \in 1..Len(bucket) : bucket[k] + by \in Nat
    BY <1>2, <1>3
  <2>. QED  BY <1>2, <1>4, <2>1, LenProperties
<1>. QED  BY <1>1, <1>4, <1>5 DEF Piece, bucket, by

\* A chunk as a matrix.
LEMMA MatrixIs ==
  ASSUME NEW slots \in Seq(Nat), NEW n \in Nat, NEW a \in Nat, Len(slots) = n * a
  PROVE  /\ Matrix(slots, n, a) \in Seq(Seq(Nat)) /\ Len(Matrix(slots, n, a)) = n
         /\ \A m \in 1..n : /\ Len(Matrix(slots, n, a)[m]) = a
                            /\ \A k \in 1..a : /\ (m - 1) * a + k \in 1..Len(slots)
                                               /\ Matrix(slots, n, a)[m][k] = slots[(m - 1) * a + k]
<1>1. \A x, y \in Nat : x <= y => x * a <= y * a
  OBVIOUS
<1>2. ASSUME NEW m \in 1..n
      PROVE  /\ SubSeq(slots, (m - 1) * a + 1, m * a) \in Seq(Nat)
             /\ Len(SubSeq(slots, (m - 1) * a + 1, m * a)) = a
             /\ \A k \in 1..a : /\ (m - 1) * a + k \in 1..Len(slots)
                                /\ SubSeq(slots, (m - 1) * a + 1, m * a)[k]
                                     = slots[(m - 1) * a + k]
  <2>. DEFINE start == (m - 1) * a
              row == [k \in 1..a |-> slots[start + k]]
  <2>1. start \in Nat /\ m * a = start + a /\ start + a <= n * a
    <3>1. m - 1 \in Nat /\ m \in Nat /\ m <= n
      OBVIOUS
    <3>2. m * a = (m - 1) * a + a
      BY <3>1
    <3>3. (m - 1) * a \in Nat
      BY <3>1
    <3>. QED  BY <1>1, <3>1, <3>2, <3>3
  <2>. HIDE DEF start
  <2>2. \A k \in 1..a : start + k \in 1..Len(slots)
    BY <2>1
  <2>3. \A k \in 1..a : slots[start + k] \in Nat
    BY <2>2, ElementOfSeq
  <2>4. row \in Seq(Nat) /\ Len(row) = a /\ \A k \in 1..a : slots[start + k] = row[k]
    BY <2>3, LenProperties
  <2>. HIDE DEF row
  <2>5. SubSeq(slots, start + 1, start + a) = row
    BY <2>1, <2>4, CutOut
  <2>. QED  BY <2>1, <2>2, <2>4, <2>5 DEF start
<1>3. Matrix(slots, n, a) = [m \in 1..n |-> SubSeq(slots, (m - 1) * a + 1, m * a)]
  BY DEF Matrix
<1>4. Matrix(slots, n, a) \in [1..n -> Seq(Nat)]
  BY <1>2, <1>3
<1>5. Matrix(slots, n, a) \in Seq(Seq(Nat)) /\ Len(Matrix(slots, n, a)) = n
  BY <1>4, LenProperties
<1>. QED  BY <1>2, <1>3, <1>5

\* The rows of a relation of a graph are its tuples.
LEMMA RowsOfGraph ==
  ASSUME NEW ids, NEW widths, IdsFit(ids, widths), NEW graphs, GraphsFit(ids, widths, graphs),
         NEW b, Stored(b, ids, widths, graphs), NEW g \in DOMAIN graphs, NEW r \in DOMAIN ids
  PROVE  /\ RelationsOfGraph(b, g)[r] \in Seq(Seq(Nat))
         /\ Len(RelationsOfGraph(b, g)[r]) = relation_counts(ids, graphs[g])[r]
         /\ RelationsOfGraph(b, g)[r]
              = Matrix(Piece(ids, graphs, g, r), relation_counts(ids, graphs[g])[r], widths[r])
         /\ RowsMean(RelationsOfGraph(b, g)[r], Emitted(ids, graphs[g], r), EntityTable(graphs),
                     NodeRange(b, g))
<1>. DEFINE graph == graphs[g]
            emitted == Emitted(ids, graph, r)
            w == widths[r]
            before == EntitiesBefore(graphs, g)
            piece == Piece(ids, graphs, g, r)
            rows == Matrix(piece, Len(emitted), w)
<1>1. GraphFits(ids, widths, graph) /\ TableFits(graph)
  BY DEF GraphsFit, GraphFits
<1>2. /\ emitted \in Seq(ToSet(graph.tuples)) /\ Len(emitted) \in Nat
      /\ \A m \in 1..Len(emitted) : /\ emitted[m].args \in Seq(ToSet(graph.entities))
                                    /\ Len(emitted[m].args) = w
  <2>. HIDE DEF graph
  <2>. QED  BY <1>1, EmittedFacts
<1>3. relation_counts(ids, graph)[r] = Len(emitted)
  BY DEF relation_counts, Relations
<1>4. RelationsOfGraph(b, g)[r] = rows
  <2>1. RelationsOfGraph(b, g)[r]
          = Matrix(Segment(b, SlotStart(b, g, r), Width(b, g, r)), b.counts[g][r], b.arities[r])
    BY DEF RelationsOfGraph, Relations, Stored
  <2>2. /\ Segment(b, SlotStart(b, g, r), Width(b, g, r)) = piece
        /\ b.counts[g][r] = Len(emitted) /\ b.arities[r] = w
    BY <1>3 DEF Stored
  <2>. QED  BY <2>1, <2>2
<1>5. w \in Nat
  BY DEF IdsFit
<1>6. /\ piece \in Seq(Nat) /\ Len(piece) = Len(emitted) * w
      /\ \A k \in 1..Len(piece) : piece[k] = Bucket(ids, graph, r)[k] + before
  BY PieceIs
<1>7. /\ before \in Nat
      /\ \A i \in 1..Len(graph.entities) :
           /\ before + i \in DOMAIN EntityTable(graphs)
           /\ EntityTable(graphs)[before + i] = graph.entities[i]
  BY TableIs DEF GraphsFit, GraphFits
<1>8. /\ NodeRange(b, g)[1] = before
      /\ NodeRange(b, g)[2] = before + Len(graph.entities)
  BY DEF NodeRange, Stored, EntitiesBefore
<1>9. Len(graph.entities) \in Nat
  BY <1>1, LenProperties DEF TableFits
<1>10. \A m \in 1..Len(emitted) : \A k \in 1..w :
         Bucket(ids, graph, r)[(m - 1) * w + k] = RowNumber(graph, emitted[m].args[k])
  BY <1>1, BucketIs
<1>. HIDE DEF graph, emitted, w, before, piece
<1>11. /\ rows \in Seq(Seq(Nat)) /\ Len(rows) = Len(emitted)
       /\ \A m \in 1..Len(emitted) :
            /\ Len(rows[m]) = w
            /\ \A k \in 1..w : /\ (m - 1) * w + k \in 1..Len(piece)
                               /\ rows[m][k] = piece[(m - 1) * w + k]
  BY <1>2, <1>5, <1>6, MatrixIs
<1>. HIDE DEF rows
<1>12. ASSUME NEW m \in 1..Len(emitted)
       PROVE  RowMeans(rows[m], emitted[m].args, EntityTable(graphs), NodeRange(b, g))
  <2>. DEFINE args == emitted[m].args
  <2>1. Len(rows[m]) = w /\ Len(args) = w /\ args \in Seq(ToSet(graph.entities))
    BY <1>2, <1>11
  <2>2. DOMAIN rows[m] = 1..w
    <3>1. rows[m] \in Seq(Nat)
      BY <1>11, ElementOfSeq
    <3>. QED  BY <2>1, <3>1, LenProperties
  <2>3. ASSUME NEW k \in 1..w
        PROVE  /\ rows[m][k] + 1 \in DOMAIN EntityTable(graphs)
               /\ NodeRange(b, g)[1] <= rows[m][k] /\ rows[m][k] < NodeRange(b, g)[2]
               /\ EntityTable(graphs)[rows[m][k] + 1] = args[k]
    <3>. DEFINE number == RowNumber(graph, args[k])
    <3>1. args[k] \in ToSet(graph.entities)
      BY <2>1, ElementOfSeq
    <3>2. /\ number \in Nat /\ number + 1 \in 1..Len(graph.entities)
          /\ graph.entities[number + 1] = args[k]
      BY <1>1, <3>1, RowNumberIs
    <3>3. rows[m][k] = number + before
      BY <1>6, <1>10, <1>11
    <3>. HIDE DEF number, args
    <3>4. rows[m][k] + 1 = before + (number + 1)
      BY <1>7, <3>2, <3>3
    <3>5. before <= rows[m][k] /\ rows[m][k] < before + Len(graph.entities)
      BY <1>7, <1>9, <3>2, <3>3
    <3>. QED  BY <1>7, <1>8, <3>2, <3>4, <3>5
  <2>. HIDE DEF args
  <2>4. RowMeans(rows[m], args, EntityTable(graphs), NodeRange(b, g))
    BY <2>1, <2>2, <2>3 DEF RowMeans
  <2>. QED  BY <2>4 DEF args
<1>13. RowsMean(rows, emitted, EntityTable(graphs), NodeRange(b, g))
  <2>1. DOMAIN emitted = 1..Len(emitted)
    BY <1>2, LenProperties
  <2>. QED  BY <1>11, <1>12, <2>1 DEF RowsMean
<1>. QED  BY <1>3, <1>4, <1>11, <1>13 DEF graph, emitted, w, piece, rows

-----------------------------------------------------------------------------
(***************************************************************************)
(* The number of a tuple among all of its graph.                           *)
(***************************************************************************)
\* The tuples of the first relations.
UpTo(ids, graph, j) ==
  {n \in DOMAIN graph.tuples : \E r \in 1..j : graph.tuples[n].key = ids[r]}

\* They are counted by adding up the counts of these relations.
LEMMA CountedUpTo ==
  ASSUME NEW ids, NEW widths, IdsFit(ids, widths), NEW graph, GraphFits(ids, widths, graph)
  PROVE  \A j \in 0..Len(ids) : /\ IsFiniteSet(UpTo(ids, graph, j))
                                /\ Cardinality(UpTo(ids, graph, j))
                                     = SumTo(relation_counts(ids, graph), j)
<1>. DEFINE Counted(j) == /\ IsFiniteSet(UpTo(ids, graph, j))
                          /\ Cardinality(UpTo(ids, graph, j))
                               = SumTo(relation_counts(ids, graph), j)
            Good == {j \in Nat : j <= Len(ids) => Counted(j)}
<1>1. Len(ids) \in Nat /\ DOMAIN ids = 1..Len(ids)
  BY LenProperties DEF IdsFit
<1>2. 0 \in Good
  <2>1. UpTo(ids, graph, 0) = {}
    BY DEF UpTo
  <2>. QED  BY <2>1, FS_EmptySet, SumSteps
<1>3. ASSUME NEW j \in Nat, j \in Good
      PROVE  j + 1 \in Good
  <2>1. SUFFICES ASSUME j + 1 <= Len(ids) PROVE Counted(j + 1)
    <3>. HIDE DEF Counted
    <3>. QED  OBVIOUS
  <2>2. j + 1 \in DOMAIN ids /\ \A r \in 1..j : r \in DOMAIN ids /\ r # j + 1
    BY <1>1, <2>1
  <2>3. Counted(j)
    <3>. HIDE DEF Counted
    <3>. QED  BY <1>1, <1>3, <2>1
  <2>. DEFINE old == UpTo(ids, graph, j)
              new == TuplesOf(ids, graph, j + 1)
  <2>4. /\ IsFiniteSet(new) /\ Cardinality(new) = Len(Emitted(ids, graph, j + 1))
        /\ Cardinality(new) \in Nat
    BY <2>2, EmittedFacts
  <2>5. UpTo(ids, graph, j + 1) = old \cup new
    <3>1. 1..(j + 1) = (1..j) \cup {j + 1}
      OBVIOUS
    <3>. QED  BY <3>1 DEF UpTo, TuplesOf
  <2>6. old \cap new = {}
    <3>1. ASSUME NEW n \in old, n \in new
          PROVE  FALSE
      <4>1. PICK r \in 1..j : graph.tuples[n].key = ids[r]
        BY DEF UpTo
      <4>2. ids[r] = ids[j + 1]
        BY <3>1, <4>1 DEF TuplesOf
      <4>. QED  BY <2>2, <4>2 DEF IdsFit
    <3>. QED  BY <3>1
  <2>7. relation_counts(ids, graph)[j + 1] = Cardinality(new)
    BY <2>2, <2>4 DEF relation_counts, Relations
  <2>8. SumTo(relation_counts(ids, graph), j + 1)
          = SumTo(relation_counts(ids, graph), j) + relation_counts(ids, graph)[j + 1]
    BY SumSteps
  <2>. HIDE DEF old, new
  <2>9. IsFiniteSet(old \cup new) /\ Cardinality(old \cup new) = Cardinality(old) + Cardinality(new)
    <3>1. IsFiniteSet(old) /\ Cardinality(old) \in Nat
      BY <2>3, FS_CardinalityType DEF old
    <3>2. IsFiniteSet(old \cup new)
          /\ Cardinality(old \cup new)
               = Cardinality(old) + Cardinality(new) - Cardinality(old \cap new)
      BY <2>4, <3>1, FS_Union
    <3>3. Cardinality(old \cap new) = 0
      BY <2>6, FS_EmptySet
    <3>. QED  BY <2>4, <3>1, <3>2, <3>3
  <2>. QED  BY <2>3, <2>5, <2>7, <2>8, <2>9 DEF old
<1>. HIDE DEF Good
<1>4. \A j \in Nat : j \in Good
  BY <1>2, <1>3, AllReached
<1>. HIDE DEF Counted
<1>5. \A j \in 0..Len(ids) : Counted(j)
  BY <1>1, <1>4 DEF Good
<1>. QED  BY <1>5 DEF Counted

\* All of them are the tuples of the graph.
LEMMA CountsAddUp ==
  ASSUME NEW ids, NEW widths, IdsFit(ids, widths), NEW graph, GraphFits(ids, widths, graph)
  PROVE  SumOf(relation_counts(ids, graph)) = Len(graph.tuples)
<1>1. Len(ids) \in Nat /\ DOMAIN ids = 1..Len(ids)
  BY LenProperties DEF IdsFit
<1>2. DOMAIN graph.tuples = 1..Len(graph.tuples) /\ Len(graph.tuples) \in Nat
  BY LenProperties DEF GraphFits, TableFits
<1>3. UpTo(ids, graph, Len(ids)) = 1..Len(graph.tuples)
  BY <1>1, <1>2 DEF UpTo, GraphFits, TupleFits
<1>4. Cardinality(1..Len(graph.tuples)) = Len(graph.tuples)
  <2>1. 1 \in Int /\ Len(graph.tuples) \in Int
    BY <1>2
  <2>2. Cardinality(1..Len(graph.tuples))
          = IF 1 > Len(graph.tuples) THEN 0 ELSE Len(graph.tuples) - 1 + 1
    BY <2>1, FS_Interval
  <2>. QED  BY <1>2, <2>2
<1>5. Len(relation_counts(ids, graph)) = Len(ids)
  <2>1. \A r \in 1..Len(ids) : Len(Emitted(ids, graph, r)) \in Nat
    BY <1>1, EmittedFacts
  <2>2. relation_counts(ids, graph) = [r \in 1..Len(ids) |-> Len(Emitted(ids, graph, r))]
    BY <1>1 DEF relation_counts, Relations
  <2>. QED  BY <1>1, <2>1, <2>2, LenProperties
<1>6. Len(ids) \in 0..Len(ids)
  BY <1>1
<1>. QED  BY <1>3, <1>4, <1>5, <1>6, CountedUpTo DEF SumOf

\* A tuple is numbered behind those of the relations before and those of its own
\* relation emitted before.
LEMMA NumberIs ==
  ASSUME NEW ids, NEW widths, IdsFit(ids, widths), NEW graph, GraphFits(ids, widths, graph),
         NEW n \in DOMAIN graph.tuples, NEW s \in DOMAIN ids, graph.tuples[n].key = ids[s]
  PROVE  LET m == Cardinality(Before(TuplesOf(ids, graph, s), n)) + 1
         IN  /\ m \in 1..Len(Emitted(ids, graph, s))
             /\ Emitted(ids, graph, s)[m] = graph.tuples[n]
             /\ InstanceNumber(ids, graph, n) + 1 = SumTo(relation_counts(ids, graph), s - 1) + m
<1>. DEFINE of == TuplesOf(ids, graph, s)
            ahead == Before(of, n)
            m == Cardinality(ahead) + 1
            before == UpTo(ids, graph, s - 1)
<1>1. Len(ids) \in Nat /\ DOMAIN ids = 1..Len(ids)
  BY LenProperties DEF IdsFit
<1>2. DOMAIN graph.tuples = 1..Len(graph.tuples) /\ Len(graph.tuples) \in Nat
  BY LenProperties DEF GraphFits, TableFits
<1>3. /\ of \in SUBSET Nat /\ IsFiniteSet(of) /\ Len(Emitted(ids, graph, s)) = Cardinality(of)
      /\ Cardinality(of) \in Nat
      /\ \A i \in 1..Cardinality(of) : Emitted(ids, graph, s)[i] = graph.tuples[Place(of, i)]
  BY EmittedFacts
<1>4. n \in of /\ n \in Nat
  BY <1>2 DEF TuplesOf
<1>5. {l \in DOMAIN graph.tuples :
         \E r, q \in Relations(ids) : /\ ids[r] = graph.tuples[l].key
                                      /\ ids[q] = graph.tuples[n].key
                                      /\ r < q \/ (r = q /\ l < n)} = before \cup ahead
  <2>1. \A q \in DOMAIN ids : ids[q] = graph.tuples[n].key <=> q = s
    BY DEF IdsFit
  <2>2. ASSUME NEW l \in DOMAIN graph.tuples
        PROVE  (\E r, q \in DOMAIN ids : /\ ids[r] = graph.tuples[l].key
                                         /\ ids[q] = graph.tuples[n].key
                                         /\ r < q \/ (r = q /\ l < n))
                 <=> l \in before \/ l \in ahead
    <3>1. (\E r, q \in DOMAIN ids : /\ ids[r] = graph.tuples[l].key
                                    /\ ids[q] = graph.tuples[n].key
                                    /\ r < q \/ (r = q /\ l < n))
            <=> \/ \E r \in DOMAIN ids : r < s /\ ids[r] = graph.tuples[l].key
                \/ ids[s] = graph.tuples[l].key /\ l < n
      BY <2>1
    <3>2. l \in before <=> \E r \in DOMAIN ids : r < s /\ ids[r] = graph.tuples[l].key
      <4>1. \A r : r \in 1..(s - 1) <=> r \in DOMAIN ids /\ r < s
        BY <1>1
      <4>. QED  BY <4>1 DEF UpTo
    <3>3. l \in ahead <=> ids[s] = graph.tuples[l].key /\ l < n
      BY DEF Before, TuplesOf
    <3>. QED  BY <3>1, <3>2, <3>3
  <2>3. before \cup ahead \subseteq DOMAIN graph.tuples
    BY DEF Before, TuplesOf, UpTo
  <2>. HIDE DEF before, ahead
  <2>. QED  BY <2>2, <2>3 DEF Relations
<1>6. InstanceNumber(ids, graph, n) = Cardinality(before \cup ahead)
  BY <1>5 DEF InstanceNumber
<1>7. /\ IsFiniteSet(before)
      /\ Cardinality(before) = SumTo(relation_counts(ids, graph), s - 1)
  <2>1. s - 1 \in 0..Len(ids)
    BY <1>1
  <2>. QED  BY <2>1, CountedUpTo
<1>8. before \cap ahead = {}
  <2>1. ASSUME NEW l \in before, l \in ahead
        PROVE  FALSE
    <3>1. PICK r \in 1..(s - 1) : graph.tuples[l].key = ids[r]
      BY DEF UpTo
    <3>2. ids[r] = ids[s] /\ r \in DOMAIN ids /\ r # s
      BY <1>1, <2>1, <3>1 DEF Before, TuplesOf
    <3>. QED  BY <3>2 DEF IdsFit
  <2>. QED  BY <2>1
<1>9. ahead \in SUBSET of /\ n \notin ahead
  BY <1>4 DEF Before
<1>. HIDE DEF of
<1>10. IsFiniteSet(ahead) /\ Cardinality(ahead) \in Nat
  BY <1>3, <1>9, FS_Subset, FS_CardinalityType
<1>11. m \in 1..Cardinality(of)
  <2>1. Cardinality(ahead) < Cardinality(of)
    <3>1. Cardinality(ahead) <= Cardinality(of) /\ Cardinality(ahead) # Cardinality(of)
      BY <1>3, <1>4, <1>9, FS_Subset
    <3>. QED  BY <1>3, <1>10, <3>1
  <2>. QED  BY <1>3, <1>10, <2>1
<1>12. Place(of, m) = n
  <2>1. m \in Nat /\ Cardinality(ahead) = m - 1
    BY <1>10
  <2>. QED  BY <1>3, <1>4, <2>1, PlaceOf
<1>13. Cardinality(before \cup ahead) = Cardinality(before) + Cardinality(ahead)
  <2>. HIDE DEF before, ahead
  <2>1. Cardinality(before \cup ahead)
          = Cardinality(before) + Cardinality(ahead) - Cardinality(before \cap ahead)
    BY <1>7, <1>10, FS_Union
  <2>2. Cardinality(before \cap ahead) = 0 /\ Cardinality(before) \in Nat
    BY <1>7, <1>8, FS_EmptySet, FS_CardinalityType
  <2>. QED  BY <1>10, <2>1, <2>2
<1>14. Cardinality(before) \in Nat
  BY <1>7, FS_CardinalityType
<1>15. InstanceNumber(ids, graph, n) + 1 = SumTo(relation_counts(ids, graph), s - 1) + m
  <2>. HIDE DEF before, ahead
  <2>. QED  BY <1>6, <1>7, <1>10, <1>13, <1>14
<1>. QED  BY <1>3, <1>11, <1>12, <1>15 DEF of

\* Whatever is stored like that is read back.
LEMMA GraphOfStored ==
  ASSUME NEW ids, NEW widths, IdsFit(ids, widths), NEW graphs, GraphsFit(ids, widths, graphs),
         NEW b, Stored(b, ids, widths, graphs), NEW g \in DOMAIN graphs
  PROVE  GraphUnpacks(b.ids, graphs[g], RelationsOfGraph(b, g), EntityTable(graphs),
                      NodeRange(b, g), InstanceRange(b, g))
<1>. DEFINE rows == RelationsOfGraph(b, g)
            table == EntityTable(graphs)
            range == NodeRange(b, g)
            graph == graphs[g]
            counts == relation_counts(ids, graph)
<1>1. b.ids = ids /\ \A h \in DOMAIN graphs : b.counts[h] = relation_counts(ids, graphs[h])
  BY DEF Stored
<1>2. \A h \in DOMAIN graphs : GraphFits(ids, widths, graphs[h])
  BY DEF GraphsFit
<1>3. Len(ids) \in Nat /\ DOMAIN ids = 1..Len(ids)
  BY LenProperties DEF IdsFit
<1>4. DOMAIN graph.tuples = 1..Len(graph.tuples) /\ Len(graph.tuples) \in Nat
      /\ graph.tuples \in Seq(ToSet(graph.tuples))
  BY <1>2, LenProperties DEF GraphFits, TableFits
<1>5. \A r \in DOMAIN ids : /\ rows[r] \in Seq(Seq(Nat)) /\ Len(rows[r]) = counts[r]
                            /\ RowsMean(rows[r], Emitted(ids, graph, r), table, range)
  BY RowsOfGraph
<1>6. InstanceRange(b, g)[2] - InstanceRange(b, g)[1] = Len(graph.tuples)
  <2>. DEFINE sizes == [h \in Graphs(b) |-> SumOf(b.counts[h])]
              start == SumTo(sizes, g - 1)
  <2>1. DOMAIN b.counts = DOMAIN graphs
    BY DEF Stored
  <2>2. \A h \in DOMAIN graphs : sizes[h] = Len(graphs[h].tuples) /\ sizes[h] \in Nat
    <3>1. ASSUME NEW h \in DOMAIN graphs
          PROVE  sizes[h] = Len(graphs[h].tuples) /\ sizes[h] \in Nat
      <4>1. sizes[h] = SumOf(relation_counts(ids, graphs[h]))
        BY <1>1, <2>1 DEF Graphs
      <4>2. SumOf(relation_counts(ids, graphs[h])) = Len(graphs[h].tuples)
        BY <1>2, CountsAddUp
      <4>3. Len(graphs[h].tuples) \in Nat
        BY <1>2, LenProperties DEF GraphFits, TableFits
      <4>. QED  BY <4>1, <4>2, <4>3
    <3>. QED  BY <3>1
  <2>3. start \in Nat
    <3>1. g \in 1..Len(graphs) /\ Len(graphs) \in Nat /\ DOMAIN graphs = 1..Len(graphs)
      BY LenProperties DEF GraphsFit
    <3>2. g - 1 \in Nat /\ \A h \in 1..(g - 1) : h \in DOMAIN graphs
      BY <3>1
    <3>. HIDE DEF sizes
    <3>. QED  BY <2>2, <3>2, SumNat
  <2>4. InstanceRange(b, g) = <<start, start + sizes[g]>>
    BY DEF InstanceRange
  <2>. HIDE DEF start, sizes
  <2>. QED  BY <2>2, <2>3, <2>4
<1>7. rows \in Seq(Seq(Seq(Nat))) /\ Len(rows) = Len(ids)
      /\ \A r \in DOMAIN ids : Lengths(rows)[r] = counts[r]
  <2>1. DOMAIN rows = 1..Len(ids) /\ rows = [r \in 1..Len(ids) |-> rows[r]]
    BY <1>1, <1>3 DEF RelationsOfGraph, Relations
  <2>. HIDE DEF rows, counts
  <2>2. rows \in [1..Len(ids) -> Seq(Seq(Nat))]
    BY <1>3, <1>5, <2>1
  <2>3. rows \in Seq(Seq(Seq(Nat))) /\ Len(rows) = Len(ids)
    BY <1>3, <2>2, LenProperties
  <2>. QED  BY <1>3, <1>5, <2>1, <2>3 DEF Lengths
<1>. DEFINE numbered == NumberedRows(ids, graph, FlattenSeq(rows))
<1>8. ASSUME NEW n \in DOMAIN graph.tuples
      PROVE  numbered[n] \in Seq(Nat) /\ RowMeans(numbered[n], graph.tuples[n].args, table, range)
  <2>1. PICK s \in DOMAIN ids : graph.tuples[n].key = ids[s]
    BY <1>2 DEF GraphFits, TupleFits
  <2>. DEFINE m == Cardinality(Before(TuplesOf(ids, graph, s), n)) + 1
  <2>2. /\ m \in 1..Len(Emitted(ids, graph, s))
        /\ Emitted(ids, graph, s)[m] = graph.tuples[n]
        /\ InstanceNumber(ids, graph, n) + 1 = SumTo(counts, s - 1) + m
    <3>. HIDE DEF graph
    <3>. QED  BY <1>2, <2>1, NumberIs DEF graph
  <2>3. SumTo(counts, s - 1) = SumTo(Lengths(rows), s - 1)
    <3>1. s - 1 \in Nat /\ \A r \in 1..(s - 1) : r \in DOMAIN ids
      BY <1>3
    <3>. HIDE DEF counts, rows
    <3>. QED  BY <1>7, <3>1, SumSame
  <2>4. counts[s] = Len(Emitted(ids, graph, s))
    BY DEF relation_counts, Relations
  <2>5. FlattenSeq(rows)[SumTo(Lengths(rows), s - 1) + m] = rows[s][m]
    <3>1. s \in 1..Len(rows) /\ m \in 1..Len(rows[s])
      BY <1>3, <1>5, <1>7, <2>2, <2>4
    <3>. HIDE DEF rows, m
    <3>. QED  BY <1>7, <3>1, Flattened
  <2>6. numbered[n] = rows[s][m]
    <3>1. numbered[n] = FlattenSeq(rows)[InstanceNumber(ids, graph, n) + 1]
      BY DEF NumberedRows
    <3>. HIDE DEF rows, m, counts, numbered, graph
    <3>. QED  BY <2>2, <2>3, <2>5, <3>1
  <2>7. m \in 1..Len(rows[s])
    BY <1>5, <2>2, <2>4
  <2>8. rows[s][m] \in Seq(Nat)
    <3>. HIDE DEF rows, m
    <3>. QED  BY <1>5, <2>7, ElementOfSeq
  <2>9. RowMeans(rows[s][m], Emitted(ids, graph, s)[m].args, table, range)
    <3>1. DOMAIN Emitted(ids, graph, s) = 1..Len(Emitted(ids, graph, s))
      <4>1. Emitted(ids, graph, s) \in Seq(ToSet(graph.tuples))
        <5>. HIDE DEF graph
        <5>. QED  BY <1>2, EmittedFacts DEF graph
      <4>. QED  BY <4>1, LenProperties
    <3>. HIDE DEF rows, m, table, range, graph
    <3>. QED  BY <1>5, <2>2, <3>1 DEF RowsMean
  <2>. HIDE DEF rows, m, table, range, graph, numbered
  <2>. QED  BY <2>2, <2>6, <2>8, <2>9
<1>9. Len(numbered) = Len(graph.tuples)
  <2>1. numbered = [n \in 1..Len(graph.tuples) |-> numbered[n]]
    BY <1>4 DEF NumberedRows
  <2>. HIDE DEF numbered
  <2>2. numbered \in [1..Len(graph.tuples) -> Seq(Nat)]
    BY <1>4, <1>8, <2>1
  <2>. QED  BY <1>4, <2>2, LenProperties
<1>. HIDE DEF numbered
<1>10. RowsMean(numbered, graph.tuples, table, range)
  BY <1>8, <1>9 DEF RowsMean
<1>. QED  BY <1>1, <1>5, <1>6, <1>10 DEF GraphUnpacks, numbered, Relations

-----------------------------------------------------------------------------
(***************************************************************************)
(* The ways to store a batch.                                              *)
(***************************************************************************)
\* The slots of each relation of a graph.
RowSlots(ids, widths, graph) ==
  [r \in DOMAIN ids |-> relation_counts(ids, graph)[r] * widths[r]]

\* What a graph adds to the column: its pieces one behind the other.
LEMMA ShiftedColumn ==
  ASSUME NEW ids, NEW widths, IdsFit(ids, widths), NEW graphs, GraphsFit(ids, widths, graphs),
         NEW g \in DOMAIN graphs
  PROVE  LET column == Shifted(relation_args(ids, graphs[g]), EntitiesBefore(graphs, g))
             slots == RowSlots(ids, widths, graphs[g])
         IN  /\ relation_args(ids, graphs[g]) \in Seq(Nat)
             /\ column \in Seq(Nat) /\ Len(column) = SumTo(slots, Len(ids)) /\ Len(column) \in Nat
             /\ \A r \in DOMAIN ids :
                  /\ SumTo(slots, r - 1) \in Nat
                  /\ \A k \in 1..Len(Piece(ids, graphs, g, r)) :
                       /\ SumTo(slots, r - 1) + k \in 1..Len(column)
                       /\ column[SumTo(slots, r - 1) + k] = Piece(ids, graphs, g, r)[k]
<1>. DEFINE graph == graphs[g]
            by == EntitiesBefore(graphs, g)
            args == relation_args(ids, graph)
            parts == Buckets(ids, graph)
            slots == RowSlots(ids, widths, graph)
            column == Shifted(args, by)
<1>1. GraphFits(ids, widths, graph)
  BY DEF GraphsFit
<1>2. by \in Nat
  BY TableIs DEF GraphsFit, GraphFits
<1>. HIDE DEF graph
<1>3. /\ Len(ids) \in Nat /\ DOMAIN ids = 1..Len(ids)
      /\ parts \in Seq(Seq(Nat)) /\ Len(parts) = Len(ids)
      /\ \A r \in DOMAIN ids : Lengths(parts)[r] = slots[r]
      /\ args = FlattenSeq(parts)
  BY <1>1, ColumnIs DEF RowSlots
<1>4. \A r \in DOMAIN ids : parts[r] = Bucket(ids, graph, r)
  BY DEF Buckets
<1>. HIDE DEF parts, args, slots
<1>5. \A j \in 0..Len(ids) : SumTo(Lengths(parts), j) = SumTo(slots, j)
  <2>1. ASSUME NEW j \in 0..Len(ids)
        PROVE  SumTo(Lengths(parts), j) = SumTo(slots, j)
    <3>1. j \in Nat /\ \A i \in 1..j : i \in DOMAIN ids
      BY <1>3
    <3>. QED  BY <1>3, <3>1, SumSame
  <2>. QED  BY <2>1
<1>6. Len(ids) \in 0..Len(ids) /\ \A r \in DOMAIN ids : r - 1 \in 0..Len(ids)
  BY <1>3
<1>7. /\ args \in Seq(Nat) /\ Len(args) = SumTo(slots, Len(ids))
      /\ \A r \in DOMAIN ids : \A k \in 1..Len(parts[r]) :
           args[SumTo(slots, r - 1) + k] = parts[r][k]
  BY <1>3, <1>5, <1>6, Flattened
<1>8. ASSUME NEW r \in DOMAIN ids
      PROVE  /\ SumTo(slots, r - 1) \in Nat /\ Len(parts[r]) \in Nat
             /\ SumTo(slots, r - 1) + Len(parts[r]) <= Len(args)
  BY <1>3, <1>5, <1>6, FlattenedPart
<1>9. /\ column \in Seq(Nat) /\ Len(column) = Len(args) /\ Len(args) \in Nat
      /\ \A i \in 1..Len(args) : column[i] = args[i] + by
  <2>1. Len(args) \in Nat /\ DOMAIN args = 1..Len(args) /\ \A i \in 1..Len(args) : args[i] \in Nat
    BY <1>7, LenProperties, ElementOfSeq
  <2>2. column = [i \in 1..Len(args) |-> args[i] + by]
    BY <2>1 DEF Shifted
  <2>. HIDE DEF by, column
  <2>3. \A i \in 1..Len(args) : args[i] + by \in Nat
    BY <1>2, <2>1
  <2>. QED  BY <2>1, <2>2, <2>3, LenProperties
<1>10. ASSUME NEW r \in DOMAIN ids, NEW k \in 1..Len(Piece(ids, graphs, g, r))
       PROVE  /\ SumTo(slots, r - 1) + k \in 1..Len(column)
              /\ column[SumTo(slots, r - 1) + k] = Piece(ids, graphs, g, r)[k]
  <2>1. /\ Len(Piece(ids, graphs, g, r)) = Len(parts[r])
        /\ Piece(ids, graphs, g, r)[k] = parts[r][k] + by
    BY <1>4, PieceIs DEF graph
  <2>. HIDE DEF by, column
  <2>2. SumTo(slots, r - 1) + k \in 1..Len(args)
    BY <1>8, <1>9, <2>1
  <2>. QED  BY <1>7, <1>9, <2>1, <2>2
<1>. QED  BY <1>7, <1>8, <1>9, <1>10 DEF args, slots, graph

\* Graph after graph, as the builder puts it together.
LEMMA BatchStored ==
  ASSUME NEW ids, NEW widths, IdsFit(ids, widths), NEW graphs, GraphsFit(ids, widths, graphs)
  PROVE  /\ Stored(Batch(ids, widths, graphs), ids, widths, graphs)
         /\ \A g \in DOMAIN graphs : \A r \in DOMAIN ids :
              \A k \in 1..Len(Piece(ids, graphs, g, r)) :
                Batch(ids, widths, graphs).args[GraphMajorStart(Batch(ids, widths, graphs), g, r) + k]
                  = Piece(ids, graphs, g, r)[k]
<1>. DEFINE b == Batch(ids, widths, graphs)
            columns == [g \in DOMAIN graphs |->
                          Shifted(relation_args(ids, graphs[g]), EntitiesBefore(graphs, g))]
<1>1. /\ b.ids = ids /\ b.arities = widths /\ b.layout = "graph_major"
      /\ b.node_sizes = [g \in DOMAIN graphs |-> Len(graphs[g].entities)]
      /\ b.counts = [g \in DOMAIN graphs |-> relation_counts(ids, graphs[g])]
      /\ b.args = FlattenSeq(columns)
  BY DEF Batch
<1>. HIDE DEF b
<1>2. /\ Len(graphs) \in Nat /\ DOMAIN graphs = 1..Len(graphs)
      /\ Len(ids) \in Nat /\ DOMAIN ids = 1..Len(ids)
  BY LenProperties DEF GraphsFit, IdsFit
<1>3. \A g \in DOMAIN graphs :
        [r \in Relations(b.ids) |-> Width(b, g, r)] = RowSlots(ids, widths, graphs[g])
  BY <1>1 DEF Width, RowSlots, Relations
<1>4. ASSUME NEW g \in DOMAIN graphs
      PROVE  columns[g] \in Seq(Nat) /\ Len(columns[g]) = GraphWidth(b, g)
  BY <1>1, <1>3, ShiftedColumn DEF GraphWidth
<1>5. /\ columns \in Seq(Seq(Nat)) /\ Len(columns) = Len(graphs)
      /\ Lengths(columns) = [g \in Graphs(b) |-> GraphWidth(b, g)]
  <2>1. columns = [g \in 1..Len(graphs) |-> columns[g]] /\ DOMAIN columns = DOMAIN graphs
    BY <1>2
  <2>2. Graphs(b) = DOMAIN graphs
    BY <1>1 DEF Graphs
  <2>. HIDE DEF columns
  <2>3. columns \in [1..Len(graphs) -> Seq(Nat)]
    BY <1>2, <1>4, <2>1
  <2>4. columns \in Seq(Seq(Nat)) /\ Len(columns) = Len(graphs)
    BY <1>2, <2>3, LenProperties
  <2>5. Lengths(columns) = [g \in DOMAIN graphs |-> Len(columns[g])]
    BY <2>1 DEF Lengths
  <2>6. Lengths(columns) = [g \in DOMAIN graphs |-> GraphWidth(b, g)]
    BY <1>4, <2>5
  <2>. QED  BY <2>2, <2>4, <2>6
<1>6. ASSUME NEW g \in DOMAIN graphs, NEW r \in DOMAIN ids
      PROVE  /\ GraphMajorStart(b, g, r) \in Nat
             /\ \A k \in 1..Len(Piece(ids, graphs, g, r)) :
                  b.args[GraphMajorStart(b, g, r) + k] = Piece(ids, graphs, g, r)[k]
  <2>. DEFINE ahead == SumTo(Lengths(columns), g - 1)
              inside == SumTo(RowSlots(ids, widths, graphs[g]), r - 1)
  <2>1. GraphMajorStart(b, g, r) = ahead + inside
    BY <1>3, <1>5 DEF GraphMajorStart
  <2>2. /\ inside \in Nat
        /\ \A k \in 1..Len(Piece(ids, graphs, g, r)) :
             /\ inside + k \in 1..Len(columns[g])
             /\ columns[g][inside + k] = Piece(ids, graphs, g, r)[k]
    BY ShiftedColumn
  <2>. HIDE DEF columns
  <2>3. g \in 1..Len(columns)
    BY <1>2, <1>5
  <2>4. ahead \in Nat
    BY <1>5, <2>3, FlattenedPart
  <2>5. \A i \in 1..Len(columns[g]) : FlattenSeq(columns)[ahead + i] = columns[g][i]
    BY <1>5, <2>3, Flattened
  <2>. HIDE DEF ahead, inside
  <2>6. ASSUME NEW k \in 1..Len(Piece(ids, graphs, g, r))
        PROVE  b.args[GraphMajorStart(b, g, r) + k] = Piece(ids, graphs, g, r)[k]
    <3>1. (ahead + inside) + k = ahead + (inside + k)
      BY <2>2, <2>4
    <3>. QED  BY <1>1, <2>1, <2>2, <2>5, <3>1
  <2>. QED  BY <2>1, <2>2, <2>4, <2>6
<1>7. ASSUME NEW g \in DOMAIN graphs, NEW r \in DOMAIN ids
      PROVE  Segment(b, SlotStart(b, g, r), Width(b, g, r)) = Piece(ids, graphs, g, r)
  <2>1. SlotStart(b, g, r) = GraphMajorStart(b, g, r)
    BY <1>1 DEF SlotStart
  <2>2. /\ Piece(ids, graphs, g, r) \in Seq(Nat)
        /\ Len(Piece(ids, graphs, g, r)) = Width(b, g, r)
    BY <1>1, PieceIs DEF Width, relation_counts, Relations
  <2>3. Width(b, g, r) \in Nat
    BY <2>2, LenProperties
  <2>. DEFINE start == GraphMajorStart(b, g, r)
              piece == Piece(ids, graphs, g, r)
  <2>4. start \in Nat /\ \A k \in 1..Width(b, g, r) : b.args[start + k] = piece[k]
    BY <1>6, <2>2
  <2>. HIDE DEF start, piece
  <2>5. SubSeq(b.args, start + 1, start + Width(b, g, r)) = piece
    BY <2>2, <2>3, <2>4, CutOut DEF piece
  <2>. QED  BY <2>1, <2>5 DEF Segment, start, piece
<1>. QED  BY <1>1, <1>6, <1>7 DEF Stored, b

\* The pieces of a relation, graph after graph.
PiecesOf(ids, graphs, r) == [g \in DOMAIN graphs |-> Piece(ids, graphs, g, r)]

CountsOf(ids, graphs, r) == [g \in DOMAIN graphs |-> relation_counts(ids, graphs[g])[r]]

LEMMA PiecesAre ==
  ASSUME NEW ids, NEW widths, IdsFit(ids, widths), NEW graphs, GraphsFit(ids, widths, graphs),
         NEW r \in DOMAIN ids
  PROVE  LET pieces == PiecesOf(ids, graphs, r)
             counts == CountsOf(ids, graphs, r)
         IN  /\ pieces \in Seq(Seq(Nat)) /\ Len(pieces) = Len(graphs)
             /\ DOMAIN graphs = 1..Len(graphs) /\ Len(graphs) \in Nat
             /\ \A g \in DOMAIN graphs : counts[g] \in Nat /\ Lengths(pieces)[g] = counts[g] * widths[r]
             /\ \A j \in 0..Len(graphs) :
                  /\ SumTo(counts, j) \in Nat
                  /\ SumTo(Lengths(pieces), j) = SumTo(counts, j) * widths[r]
             /\ FlattenSeq(pieces) \in Seq(Nat)
             /\ Len(FlattenSeq(pieces)) = SumTo(counts, Len(graphs)) * widths[r]
             /\ \A g \in DOMAIN graphs :
                  \A k \in 1..Len(Piece(ids, graphs, g, r)) :
                    /\ SumTo(counts, g - 1) * widths[r] + k \in 1..Len(FlattenSeq(pieces))
                    /\ FlattenSeq(pieces)[SumTo(counts, g - 1) * widths[r] + k]
                         = Piece(ids, graphs, g, r)[k]
<1>. DEFINE pieces == PiecesOf(ids, graphs, r)
            counts == CountsOf(ids, graphs, r)
            w == widths[r]
<1>1. DOMAIN graphs = 1..Len(graphs) /\ Len(graphs) \in Nat /\ w \in Nat
  BY LenProperties DEF GraphsFit, IdsFit
<1>2. ASSUME NEW g \in DOMAIN graphs
      PROVE  /\ pieces[g] = Piece(ids, graphs, g, r)
             /\ pieces[g] \in Seq(Nat) /\ Len(pieces[g]) = counts[g] * w /\ counts[g] \in Nat
  <2>1. Piece(ids, graphs, g, r) \in Seq(Nat)
        /\ Len(Piece(ids, graphs, g, r)) = Len(Emitted(ids, graphs[g], r)) * w
    BY PieceIs
  <2>2. Len(Emitted(ids, graphs[g], r)) \in Nat
    BY EmittedFacts DEF GraphsFit
  <2>3. counts[g] = Len(Emitted(ids, graphs[g], r))
    BY DEF CountsOf, relation_counts, Relations
  <2>. QED  BY <2>1, <2>2, <2>3 DEF PiecesOf
<1>3. pieces \in Seq(Seq(Nat)) /\ Len(pieces) = Len(graphs) /\ DOMAIN pieces = DOMAIN graphs
  <2>1. pieces = [g \in 1..Len(graphs) |-> pieces[g]]
    BY <1>1 DEF PiecesOf
  <2>. HIDE DEF pieces
  <2>2. pieces \in [1..Len(graphs) -> Seq(Nat)]
    BY <1>1, <1>2, <2>1
  <2>. QED  BY <1>1, <2>1, <2>2, LenProperties
<1>. HIDE DEF pieces, counts, w
<1>4. \A g \in DOMAIN graphs : counts[g] \in Nat /\ Lengths(pieces)[g] = counts[g] * w
  BY <1>2, <1>3 DEF Lengths
<1>5. ASSUME NEW j \in 0..Len(graphs)
      PROVE  /\ SumTo(counts, j) \in Nat
             /\ SumTo(Lengths(pieces), j) = SumTo(counts, j) * w
  <2>1. j \in Nat /\ \A i \in 1..j : counts[i] \in Nat /\ Lengths(pieces)[i] = counts[i] * w
    BY <1>1, <1>4
  <2>2. SumTo(counts, j) \in Nat
    BY <2>1, SumNat
  <2>. DEFINE long == Lengths(pieces)
  <2>3. \A i \in 1..j : counts[i] \in Nat /\ long[i] = counts[i] * w
    BY <2>1
  <2>. HIDE DEF long
  <2>4. SumTo(long, j) = SumTo(counts, j) * w
    BY <1>1, <2>1, <2>3, SumScaled, Zenon
  <2>. QED  BY <2>2, <2>4 DEF long
<1>6. /\ FlattenSeq(pieces) \in Seq(Nat)
      /\ Len(FlattenSeq(pieces)) = SumTo(counts, Len(graphs)) * w
  <2>1. Len(graphs) \in 0..Len(graphs)
    BY <1>1
  <2>. QED  BY <1>3, <1>5, <2>1, Flattened
<1>7. ASSUME NEW g \in DOMAIN graphs, NEW k \in 1..Len(Piece(ids, graphs, g, r))
      PROVE  /\ SumTo(counts, g - 1) * w + k \in 1..Len(FlattenSeq(pieces))
             /\ FlattenSeq(pieces)[SumTo(counts, g - 1) * w + k] = Piece(ids, graphs, g, r)[k]
  <2>. DEFINE before == SumTo(Lengths(pieces), g - 1)
  <2>1. g \in 1..Len(pieces) /\ g - 1 \in 0..Len(graphs)
    BY <1>1, <1>3
  <2>2. before = SumTo(counts, g - 1) * w
    BY <1>5, <2>1
  <2>3. /\ before \in Nat /\ Len(pieces[g]) \in Nat /\ Len(FlattenSeq(pieces)) \in Nat
        /\ before + Len(pieces[g]) <= Len(FlattenSeq(pieces))
    BY <1>3, <2>1, FlattenedPart
  <2>4. k \in 1..Len(pieces[g])
    BY <1>2
  <2>5. FlattenSeq(pieces)[before + k] = pieces[g][k]
    BY <1>3, <2>1, <2>4, Flattened
  <2>. HIDE DEF before
  <2>6. before + k \in 1..Len(FlattenSeq(pieces))
    BY <2>3, <2>4
  <2>. QED  BY <1>2, <2>2, <2>5, <2>6
<1>. QED  BY <1>1, <1>3, <1>4, <1>5, <1>6, <1>7 DEF pieces, counts, w

\* Where the rows of a relation start once a batch is regrouped.
TotalOf(ids, graphs, r) == SumTo(CountsOf(ids, graphs, r), Len(graphs))

Regrouped(ids, widths, graphs) == [s \in DOMAIN ids |-> TotalOf(ids, graphs, s) * widths[s]]

\* What regrouping keeps of a batch.
Repacked(p, b, ids, widths, graphs) ==
  /\ p.ids = ids /\ p.arities = widths /\ p.layout = "relation_major"
  /\ p.node_sizes = [g \in DOMAIN graphs |-> Len(graphs[g].entities)]
  /\ p.counts = [g \in DOMAIN graphs |-> relation_counts(ids, graphs[g])]
  /\ Graphs(p) = DOMAIN graphs /\ Len(p.counts) = Len(graphs)
  /\ DOMAIN graphs = 1..Len(graphs) /\ Len(graphs) \in Nat /\ 1 \in DOMAIN graphs
  /\ p.args = IF Len(graphs) > 1 THEN RelationMajorArgs(b) ELSE b.args
  /\ \A r \in DOMAIN ids : TotalCount(p, r) = TotalOf(ids, graphs, r)
  /\ \A r \in DOMAIN ids :
       SumTo([s \in Relations(p.ids) |-> TotalCount(p, s) * p.arities[s]], r - 1)
         = SumTo(Regrouped(ids, widths, graphs), r - 1)
  /\ \A g \in DOMAIN graphs : \A r \in DOMAIN ids :
       Width(p, g, r) = Lengths(PiecesOf(ids, graphs, r))[g]

LEMMA PackedKeeps ==
  ASSUME NEW ids, NEW widths, IdsFit(ids, widths), NEW graphs, GraphsFit(ids, widths, graphs),
         graphs # <<>>
  PROVE  Repacked(Packed(Batch(ids, widths, graphs)), Batch(ids, widths, graphs),
                  ids, widths, graphs)
<1>. DEFINE b == Batch(ids, widths, graphs)
            p == Packed(b)
<1>1. /\ b.ids = ids /\ b.arities = widths /\ b.layout = "graph_major"
      /\ b.node_sizes = [g \in DOMAIN graphs |-> Len(graphs[g].entities)]
      /\ b.counts = [g \in DOMAIN graphs |-> relation_counts(ids, graphs[g])]
      /\ p = [b EXCEPT !.layout = "relation_major",
                       !.args = IF Len(b.counts) > 1 THEN RelationMajorArgs(b) ELSE @]
      /\ \A name \in {"ids", "arities", "layout", "node_sizes", "counts", "args"} :
           name \in DOMAIN b
  BY DEF Batch, Packed
<1>2. /\ Len(graphs) \in Nat /\ DOMAIN graphs = 1..Len(graphs) /\ 1 \in DOMAIN graphs
      /\ DOMAIN ids = 1..Len(ids) /\ Len(ids) \in Nat
  <2>1. graphs \in Seq(ToSet(graphs)) /\ ids \in Seq(ToSet(ids))
    BY DEF GraphsFit, IdsFit
  <2>2. Len(graphs) \in Nat /\ DOMAIN graphs = 1..Len(graphs)
        /\ DOMAIN ids = 1..Len(ids) /\ Len(ids) \in Nat
    BY <2>1, LenProperties
  <2>3. Len(graphs) # 0
    BY <2>1, EmptySeq
  <2>. QED  BY <2>2, <2>3
<1>. HIDE DEF b
<1>3. Len(b.counts) = Len(graphs)
  BY <1>1, <1>2, LenProperties
<1>4. /\ p.ids = ids /\ p.arities = widths /\ p.layout = "relation_major"
      /\ p.node_sizes = b.node_sizes /\ p.counts = b.counts
      /\ p.args = IF Len(graphs) > 1 THEN RelationMajorArgs(b) ELSE b.args
  BY <1>1, <1>3
<1>. HIDE DEF p
<1>5. Graphs(p) = DOMAIN graphs
  BY <1>1, <1>4 DEF Graphs
<1>6. ASSUME NEW r \in DOMAIN ids
      PROVE  TotalCount(p, r) = TotalOf(ids, graphs, r)
  <2>1. [g \in Graphs(p) |-> p.counts[g][r]] = CountsOf(ids, graphs, r)
    BY <1>1, <1>4, <1>5 DEF CountsOf
  <2>. QED  BY <1>3, <1>4, <2>1 DEF TotalCount, TotalOf
<1>7. [s \in Relations(p.ids) |-> TotalCount(p, s) * p.arities[s]] = Regrouped(ids, widths, graphs)
  BY <1>4, <1>6 DEF Relations, Regrouped
<1>8. ASSUME NEW g \in DOMAIN graphs, NEW r \in DOMAIN ids
      PROVE  Width(p, g, r) = Lengths(PiecesOf(ids, graphs, r))[g]
  <2>1. Width(p, g, r) = relation_counts(ids, graphs[g])[r] * widths[r]
    BY <1>1, <1>4 DEF Width
  <2>2. Lengths(PiecesOf(ids, graphs, r))[g] = CountsOf(ids, graphs, r)[g] * widths[r]
    BY PiecesAre
  <2>. QED  BY <2>1, <2>2 DEF CountsOf
<1>9. Repacked(p, b, ids, widths, graphs)
  BY <1>1, <1>2, <1>3, <1>4, <1>5, <1>6, <1>7, <1>8 DEF Repacked
<1>. QED  BY <1>9 DEF p, b

\* Regrouped, a batch has the pieces of each relation one behind the other.
LEMMA PackedColumn ==
  ASSUME NEW ids, NEW widths, IdsFit(ids, widths), NEW graphs, GraphsFit(ids, widths, graphs),
         graphs # <<>>, NEW r \in DOMAIN ids
  PROVE  LET p == Packed(Batch(ids, widths, graphs))
             rows == FlattenSeq(PiecesOf(ids, graphs, r))
             start == SumTo(Regrouped(ids, widths, graphs), r - 1)
         IN  /\ start \in Nat
             /\ \A k \in 1..Len(rows) : p.args[start + k] = rows[k]
<1>. DEFINE b == Batch(ids, widths, graphs)
            p == Packed(b)
            column(s) == FlattenSeq(PiecesOf(ids, graphs, s))
            columns == [s \in DOMAIN ids |-> column(s)]
            long == Regrouped(ids, widths, graphs)
<1>0. Repacked(p, b, ids, widths, graphs)
  BY PackedKeeps
<1>. HIDE DEF p, b
<1>1. /\ Len(graphs) \in Nat /\ DOMAIN graphs = 1..Len(graphs) /\ 1 \in DOMAIN graphs
      /\ p.args = IF Len(graphs) > 1 THEN RelationMajorArgs(b) ELSE b.args
  BY <1>0 DEF Repacked
<1>2. DOMAIN ids = 1..Len(ids) /\ Len(ids) \in Nat
  BY LenProperties DEF IdsFit
<1>3. ASSUME NEW s \in DOMAIN ids
      PROVE  column(s) \in Seq(Nat) /\ Len(column(s)) = long[s] /\ long[s] \in Nat
  <2>1. column(s) \in Seq(Nat) /\ Len(column(s)) = long[s]
    BY PiecesAre DEF Regrouped, TotalOf
  <2>. QED  BY <2>1, LenProperties
<1>. HIDE DEF long
<1>4. columns \in Seq(Seq(Nat)) /\ Len(columns) = Len(ids) /\ DOMAIN columns = DOMAIN ids
      /\ \A s \in DOMAIN ids : columns[s] = column(s) /\ Lengths(columns)[s] = long[s]
  <2>1. columns \in [1..Len(ids) -> Seq(Nat)] /\ DOMAIN columns = DOMAIN ids
    BY <1>2, <1>3
  <2>2. \A s \in DOMAIN ids : columns[s] = column(s)
    OBVIOUS
  <2>. HIDE DEF column, columns
  <2>3. columns \in Seq(Seq(Nat)) /\ Len(columns) = Len(ids)
    BY <1>2, <2>1, SeqOfLength
  <2>. QED  BY <1>3, <2>1, <2>2, <2>3 DEF Lengths
<1>. HIDE DEF columns, column
<1>5. r - 1 \in Nat /\ \A i \in 1..(r - 1) : i \in DOMAIN ids
  BY <1>2
<1>6. SumTo(long, r - 1) \in Nat
  BY <1>3, <1>5, SumNat
<1>7. SumTo(Lengths(columns), r - 1) = SumTo(long, r - 1)
  BY <1>4, <1>5, SumSame
<1>8. /\ b.ids = ids /\ b.layout = "graph_major"
      /\ b.arities = widths
      /\ b.counts = [g \in DOMAIN graphs |-> relation_counts(ids, graphs[g])]
      /\ Graphs(b) = DOMAIN graphs
      /\ \A g \in DOMAIN graphs : \A s \in DOMAIN ids :
           /\ Segment(b, GraphMajorStart(b, g, s), Width(b, g, s)) = Piece(ids, graphs, g, s)
           /\ \A k \in 1..Len(Piece(ids, graphs, g, s)) :
                b.args[GraphMajorStart(b, g, s) + k] = Piece(ids, graphs, g, s)[k]
  <2>1. /\ b.ids = ids /\ b.layout = "graph_major" /\ b.arities = widths
        /\ b.counts = [g \in DOMAIN graphs |-> relation_counts(ids, graphs[g])]
    BY DEF b, Batch
  <2>2. /\ Stored(b, ids, widths, graphs)
        /\ \A g \in DOMAIN graphs : \A s \in DOMAIN ids :
             \A k \in 1..Len(Piece(ids, graphs, g, s)) :
                b.args[GraphMajorStart(b, g, s) + k] = Piece(ids, graphs, g, s)[k]
    BY BatchStored DEF b
  <2>3. \A g \in DOMAIN graphs : \A s \in DOMAIN ids :
          Segment(b, GraphMajorStart(b, g, s), Width(b, g, s)) = Piece(ids, graphs, g, s)
    BY <2>1, <2>2 DEF Stored, SlotStart
  <2>. QED  BY <2>1, <2>2, <2>3 DEF Graphs
<1>9. ASSUME NEW k \in 1..Len(column(r))
      PROVE  p.args[SumTo(long, r - 1) + k] = column(r)[k]
  <2>1. CASE Len(graphs) > 1
    <3>1. RelationMajorArgs(b) = FlattenSeq(columns)
      BY <1>8 DEF RelationMajorArgs, Relations, PiecesOf, columns, column
    <3>2. r \in 1..Len(columns) /\ columns[r] = column(r) /\ k \in 1..Len(columns[r])
      BY <1>2, <1>4
    <3>3. columns \in Seq(Seq(Nat))
      BY <1>4
    <3>4. FlattenSeq(columns)[SumTo(Lengths(columns), r - 1) + k] = columns[r][k]
      BY <3>2, <3>3, Flattened
    <3>. QED  BY <1>1, <1>7, <2>1, <3>1, <3>2, <3>4
  <2>2. CASE ~(Len(graphs) > 1)
    <3>1. DOMAIN graphs = 1..1 /\ p.args = b.args
      BY <1>1, <2>2
    <3>. DEFINE piece == Piece(ids, graphs, 1, r)
    <3>2. piece \in Seq(Nat)
      BY <1>1, PieceIs
    <3>3. PiecesOf(ids, graphs, r) \in [1..1 -> {piece}] /\ DOMAIN PiecesOf(ids, graphs, r) = 1..1
      BY <3>1 DEF PiecesOf
    <3>. HIDE DEF piece
    <3>4. column(r) = piece
      BY <3>2, <3>3, FlattenedOne DEF column
    <3>5. \A i \in 1..(r - 1) : Width(b, 1, i) = long[i]
      <4>1. ASSUME NEW i \in 1..(r - 1)
            PROVE  Width(b, 1, i) = long[i]
        <5>1. i \in DOMAIN ids /\ Width(b, 1, i) = CountsOf(ids, graphs, i)[1] * widths[i]
          BY <1>1, <1>5, <1>8 DEF Width, CountsOf
        <5>2. CountsOf(ids, graphs, i)[1] \in Nat
          BY <1>1, <5>1, PiecesAre
        <5>3. Len(graphs) = 1
          BY <1>1, <2>2
        <5>4. SumTo(CountsOf(ids, graphs, i), 0 + 1)
                = SumTo(CountsOf(ids, graphs, i), 0) + CountsOf(ids, graphs, i)[0 + 1]
              /\ SumTo(CountsOf(ids, graphs, i), 0) = 0
          BY SumSteps
        <5>5. TotalOf(ids, graphs, i) = CountsOf(ids, graphs, i)[1]
          BY <5>2, <5>3, <5>4 DEF TotalOf
        <5>. QED  BY <5>1, <5>5 DEF long, Regrouped
      <4>. QED  BY <4>1
    <3>6. GraphMajorStart(b, 1, r) = SumTo(long, r - 1)
      <4>. DEFINE wide == [s \in Relations(b.ids) |-> Width(b, 1, s)]
                  before == [h \in Graphs(b) |-> GraphWidth(b, h)]
      <4>1. \A i \in 1..(r - 1) : wide[i] = long[i]
        BY <1>5, <1>8, <3>5 DEF Relations
      <4>. HIDE DEF wide
      <4>2. SumTo(wide, r - 1) = SumTo(long, r - 1)
        BY <1>5, <4>1, SumSame
      <4>3. GraphMajorStart(b, 1, r) = SumTo(before, 0) + SumTo(wide, r - 1)
        BY DEF GraphMajorStart, wide
      <4>. HIDE DEF before
      <4>4. SumTo(before, 0) = 0
        BY SumSteps
      <4>. QED  BY <1>6, <4>2, <4>3, <4>4
    <3>. QED  BY <1>1, <1>8, <3>1, <3>4, <3>6 DEF piece
  <2>. QED  BY <2>1, <2>2
<1>. QED  BY <1>6, <1>9 DEF p, long, column, b

\* Where a regrouped batch keeps the piece of a graph.
LEMMA RepackedStart ==
  ASSUME NEW ids, NEW widths, IdsFit(ids, widths), NEW graphs, GraphsFit(ids, widths, graphs),
         NEW p, NEW b, Repacked(p, b, ids, widths, graphs),
         NEW g \in DOMAIN graphs, NEW r \in DOMAIN ids
  PROVE  /\ SlotStart(p, g, r) = RelationMajorStart(p, g, r)
         /\ RelationMajorStart(p, g, r)
              = SumTo(Regrouped(ids, widths, graphs), r - 1)
                + SumTo(Lengths(PiecesOf(ids, graphs, r)), g - 1)
<1>1. SlotStart(p, g, r) = RelationMajorStart(p, g, r)
  BY DEF Repacked, SlotStart
<1>2. SumTo([s \in Relations(p.ids) |-> TotalCount(p, s) * p.arities[s]], r - 1)
        = SumTo(Regrouped(ids, widths, graphs), r - 1)
  BY DEF Repacked
<1>3. [h \in Graphs(p) |-> Width(p, h, r)] = Lengths(PiecesOf(ids, graphs, r))
  BY DEF Repacked, Lengths, PiecesOf
<1>. QED  BY <1>1, <1>2, <1>3 DEF RelationMajorStart

\* Each piece is where the reader looks for it.
LEMMA PackedStored ==
  ASSUME NEW ids, NEW widths, IdsFit(ids, widths), NEW graphs, GraphsFit(ids, widths, graphs),
         graphs # <<>>
  PROVE  Stored(Packed(Batch(ids, widths, graphs)), ids, widths, graphs)
<1>. DEFINE b == Batch(ids, widths, graphs)
            p == Packed(b)
            base(r) == SumTo(Regrouped(ids, widths, graphs), r - 1)
<1>1. Repacked(p, b, ids, widths, graphs)
  BY PackedKeeps
<1>2. \A r \in DOMAIN ids :
        /\ base(r) \in Nat
        /\ \A k \in 1..Len(FlattenSeq(PiecesOf(ids, graphs, r))) :
             p.args[base(r) + k] = FlattenSeq(PiecesOf(ids, graphs, r))[k]
  BY PackedColumn
<1>. HIDE DEF p, b
<1>3. ASSUME NEW g \in DOMAIN graphs, NEW r \in DOMAIN ids
      PROVE  Segment(p, SlotStart(p, g, r), Width(p, g, r)) = Piece(ids, graphs, g, r)
  <2>. DEFINE pieces == PiecesOf(ids, graphs, r)
              piece == Piece(ids, graphs, g, r)
              before == SumTo(Lengths(pieces), g - 1)
  <2>1. /\ pieces \in Seq(Seq(Nat)) /\ Len(pieces) = Len(graphs)
        /\ DOMAIN graphs = 1..Len(graphs)
    BY PiecesAre
  <2>2. pieces[g] = piece /\ DOMAIN pieces = DOMAIN graphs
    BY DEF PiecesOf
  <2>3. SlotStart(p, g, r) = base(r) + before
    BY <1>1, RepackedStart
  <2>4. Width(p, g, r) = Len(piece)
    BY <1>1, <2>2 DEF Repacked, Lengths
  <2>5. piece \in Seq(Nat)
    BY PieceIs
  <2>. HIDE DEF pieces, piece
  <2>6. /\ before \in Nat /\ Len(piece) \in Nat /\ Len(FlattenSeq(pieces)) \in Nat
        /\ before + Len(piece) <= Len(FlattenSeq(pieces))
    BY <2>1, <2>2, FlattenedPart
  <2>7. \A k \in 1..Len(piece) : FlattenSeq(pieces)[before + k] = piece[k]
    <3>1. g \in 1..Len(pieces) /\ pieces \in Seq(Seq(Nat))
      BY <2>1
    <3>2. \A k \in 1..Len(pieces[g]) : FlattenSeq(pieces)[before + k] = pieces[g][k]
      BY <3>1, Flattened
    <3>. QED  BY <2>2, <3>2
  <2>. HIDE DEF before
  <2>. DEFINE start == base(r) + before
  <2>8. start \in Nat
    BY <1>2, <2>6
  <2>9. ASSUME NEW k \in 1..Len(piece)
        PROVE  p.args[start + k] = piece[k]
    <3>1. before + k \in 1..Len(FlattenSeq(pieces)) /\ k \in Nat
      BY <2>6
    <3>2. p.args[base(r) + (before + k)] = FlattenSeq(pieces)[before + k]
      BY <1>2, <3>1 DEF pieces
    <3>3. base(r) \in Nat
      BY <1>2
    <3>. HIDE DEF base
    <3>4. start + k = base(r) + (before + k)
      BY <2>6, <3>1, <3>3
    <3>. QED  BY <2>7, <3>2, <3>4
  <2>. HIDE DEF start
  <2>10. SubSeq(p.args, start + 1, start + Len(piece)) = piece
    BY <2>5, <2>6, <2>8, <2>9, CutOut
  <2>. QED  BY <2>3, <2>4, <2>10 DEF Segment, start, piece
<1>4. Stored(p, ids, widths, graphs)
  BY <1>1, <1>3 DEF Stored, Repacked
<1>. QED  BY <1>4 DEF p, b

\* All rows of a relation are the rows of each graph, one behind the other.
LEMMA PackedRows ==
  ASSUME NEW ids, NEW widths, IdsFit(ids, widths), NEW graphs, GraphsFit(ids, widths, graphs),
         graphs # <<>>, NEW r \in DOMAIN ids
  PROVE  LET p == Packed(Batch(ids, widths, graphs))
         IN  RelationsOfBatch(p)[r]
               = FlattenSeq([g \in DOMAIN graphs |-> RelationsOfGraph(p, g)[r]])
<1>. DEFINE b == Batch(ids, widths, graphs)
            p == Packed(b)
            base == SumTo(Regrouped(ids, widths, graphs), r - 1)
            pieces == PiecesOf(ids, graphs, r)
            whole == FlattenSeq(pieces)
            counts == CountsOf(ids, graphs, r)
            w == widths[r]
            n == Len(graphs)
            total == SumTo(counts, n)
            parts == [g \in DOMAIN graphs |-> RelationsOfGraph(p, g)[r]]
            rows == Matrix(whole, total, w)
<1>1. Repacked(p, b, ids, widths, graphs)
  BY PackedKeeps
<1>2. base \in Nat /\ \A k \in 1..Len(whole) : p.args[base + k] = whole[k]
  BY PackedColumn
<1>3. Stored(p, ids, widths, graphs)
  BY PackedStored
<1>. HIDE DEF p, b
<1>4. /\ pieces \in Seq(Seq(Nat)) /\ DOMAIN graphs = 1..n /\ n \in Nat
      /\ \A g \in DOMAIN graphs : counts[g] \in Nat
      /\ \A j \in 0..n : SumTo(counts, j) \in Nat
      /\ whole \in Seq(Nat) /\ Len(whole) = total * w
      /\ \A g \in DOMAIN graphs : \A k \in 1..Len(Piece(ids, graphs, g, r)) :
           whole[SumTo(counts, g - 1) * w + k] = Piece(ids, graphs, g, r)[k]
  BY PiecesAre
<1>5. w \in Nat /\ total \in Nat /\ 1 \in DOMAIN graphs
  BY <1>1, <1>4 DEF IdsFit, Repacked
<1>. HIDE DEF base, pieces
<1>6. RelationsOfBatch(p)[r] = rows
  <2>1. RelationMajorStart(p, 1, r) = base
    <3>1. RelationMajorStart(p, 1, r)
            = base + SumTo(Lengths(pieces), 0)
      BY <1>1, <1>5, RepackedStart DEF base, pieces
    <3>2. SumTo(Lengths(pieces), 0) = 0
      BY SumSteps
    <3>. QED  BY <1>2, <3>1, <3>2
  <2>2. TotalCount(p, r) = total /\ p.arities[r] = w /\ p.layout = "relation_major" /\ p.ids = ids
    BY <1>1 DEF Repacked, TotalOf
  <2>. HIDE DEF whole, total, w
  <2>3. total * w \in Nat
    BY <1>5
  <2>4. SubSeq(p.args, base + 1, base + total * w) = whole
    BY <1>2, <1>4, <2>3, CutOut
  <2>. QED  BY <2>1, <2>2, <2>4 DEF RelationsOfBatch, Segment, Relations
<1>7. /\ rows \in Seq(Seq(Nat)) /\ Len(rows) = total
      /\ \A m \in 1..total : Len(rows[m]) = w
                             /\ \A k \in 1..w : rows[m][k] = whole[(m - 1) * w + k]
  <2>1. whole \in Seq(Nat) /\ Len(whole) = total * w /\ total \in Nat /\ w \in Nat
    BY <1>4, <1>5
  <2>. HIDE DEF whole, total, w
  <2>2. /\ Matrix(whole, total, w) \in Seq(Seq(Nat)) /\ Len(Matrix(whole, total, w)) = total
        /\ \A m \in 1..total :
             /\ Len(Matrix(whole, total, w)[m]) = w
             /\ \A k \in 1..w : /\ (m - 1) * w + k \in 1..Len(whole)
                                /\ Matrix(whole, total, w)[m][k] = whole[(m - 1) * w + k]
    BY <2>1, MatrixIs, Zenon
  <2>. QED  BY <2>2, Zenon
<1>8. ASSUME NEW g \in DOMAIN graphs
      PROVE  /\ parts[g] \in Seq(Seq(Nat)) /\ Len(parts[g]) = counts[g]
             /\ parts[g] = Matrix(Piece(ids, graphs, g, r), counts[g], w)
  <2>1. counts[g] = relation_counts(ids, graphs[g])[r]
    BY DEF CountsOf
  <2>. QED  BY <1>3, <2>1, RowsOfGraph
<1>9. /\ parts \in Seq(Seq(Seq(Nat))) /\ Len(parts) = n
      /\ \A g \in 1..n : Lengths(parts)[g] = counts[g]
  <2>1. DOMAIN parts = 1..n /\ parts \in [1..n -> Seq(Seq(Nat))]
    BY <1>4, <1>8
  <2>. HIDE DEF parts, n
  <2>2. parts \in Seq(Seq(Seq(Nat))) /\ Len(parts) = n
    BY <1>4, <2>1, SeqOfLength
  <2>. QED  BY <1>4, <1>8, <2>1, <2>2 DEF Lengths
<1>. HIDE DEF parts, n, rows
<1>10. \A j \in 0..n : SumTo(Lengths(parts), j) = SumTo(counts, j)
  <2>1. ASSUME NEW j \in 0..n
        PROVE  SumTo(Lengths(parts), j) = SumTo(counts, j)
    <3>1. j \in Nat /\ \A i \in 1..j : Lengths(parts)[i] = counts[i]
      BY <1>4, <1>9
    <3>. QED  BY <3>1, SumSame
  <2>. QED  BY <2>1
<1>. HIDE DEF whole, w
<1>11. ASSUME NEW g \in 1..n, NEW m \in 1..counts[g]
       PROVE  rows[SumTo(counts, g - 1) + m] = parts[g][m]
  <2>. DEFINE before == SumTo(counts, g - 1)
              piece == Piece(ids, graphs, g, r)
  <2>1. g \in DOMAIN graphs /\ g - 1 \in 0..n /\ g \in 0..n /\ n \in 0..n /\ (g - 1) + 1 = g
        /\ g - 1 \in Nat
    BY <1>4
  <2>2. before \in Nat /\ counts[g] \in Nat /\ before + counts[g] <= total
    <3>1. SumTo(counts, (g - 1) + 1) = before + counts[(g - 1) + 1]
      BY <2>1, SumSteps
    <3>2. SumTo(counts, g) <= SumTo(counts, n)
      BY <1>4, <2>1, SumGrows
    <3>. QED  BY <1>4, <2>1, <3>1, <3>2
  <2>3. piece \in Seq(Nat) /\ Len(piece) = counts[g] * w
    <3>1. Len(piece) = Len(Emitted(ids, graphs[g], r)) * w /\ piece \in Seq(Nat)
      BY <2>1, PieceIs DEF w
    <3>2. counts[g] = Len(Emitted(ids, graphs[g], r))
      BY <2>1 DEF CountsOf, relation_counts, Relations
    <3>. QED  BY <3>1, <3>2
  <2>4. \A k \in 1..Len(piece) : whole[before * w + k] = piece[k]
    BY <1>4, <2>1
  <2>. HIDE DEF before, piece, counts, total
  <2>5. before + m \in 1..total /\ m \in Nat
    BY <1>5, <2>2
  <2>6. parts[g] = Matrix(piece, counts[g], w) /\ parts[g] \in Seq(Seq(Nat))
        /\ Len(parts[g]) = counts[g]
    BY <1>8, <2>1 DEF piece
  <2>7. Len(parts[g][m]) = w
        /\ \A k \in 1..w : /\ (m - 1) * w + k \in 1..Len(piece)
                           /\ parts[g][m][k] = piece[(m - 1) * w + k]
    <3>1. piece \in Seq(Nat) /\ Len(piece) = counts[g] * w /\ counts[g] \in Nat /\ w \in Nat
      BY <1>5, <2>2, <2>3
    <3>2. \A i \in 1..counts[g] :
             /\ Len(Matrix(piece, counts[g], w)[i]) = w
             /\ \A k \in 1..w : /\ (i - 1) * w + k \in 1..Len(piece)
                                /\ Matrix(piece, counts[g], w)[i][k] = piece[(i - 1) * w + k]
      BY <3>1, MatrixIs, Zenon
    <3>. QED  BY <2>6, <3>2, Zenon
  <2>8. rows[before + m] \in Seq(Nat) /\ parts[g][m] \in Seq(Nat)
    BY <1>7, <2>5, <2>6, ElementOfSeq
  <2>9. ASSUME NEW k \in 1..w
        PROVE  rows[before + m][k] = parts[g][m][k]
    <3>1. rows[before + m][k] = whole[((before + m) - 1) * w + k]
      BY <1>7, <2>5
    <3>2. parts[g][m][k] = whole[before * w + ((m - 1) * w + k)]
      BY <2>4, <2>7
    <3>3. ((before + m) - 1) * w + k = before * w + ((m - 1) * w + k)
      BY <1>5, <2>2, <2>5
    <3>. QED  BY <3>1, <3>2, <3>3
  <2>10. Len(rows[before + m]) = w
    BY <1>7, <2>5
  <2>11. rows[before + m] = parts[g][m]
    BY <2>7, <2>8, <2>9, <2>10, SeqEqual
  <2>. QED  BY <2>11 DEF before
<1>12. FlattenSeq(parts) = rows
  <2>1. Len(rows) = SumTo(Lengths(parts), Len(parts))
    <3>1. n \in 0..n
      BY <1>4
    <3>. QED  BY <1>7, <1>9, <1>10, <3>1
  <2>2. ASSUME NEW g \in 1..Len(parts), NEW m \in 1..Len(parts[g])
        PROVE  rows[SumTo(Lengths(parts), g - 1) + m] = parts[g][m]
    <3>1. g \in 1..n /\ g - 1 \in 0..n /\ g \in DOMAIN graphs
      <4>1. n \in Nat /\ Len(parts) = n /\ DOMAIN graphs = 1..n
        BY <1>4, <1>9
      <4>. QED  BY <4>1
    <3>2. m \in 1..counts[g]
      BY <1>8, <3>1, Zenon
    <3>. QED  BY <1>10, <1>11, <3>1, <3>2
  <2>. QED  BY <1>7, <1>9, <2>1, <2>2, IsFlattened
<1>. QED  BY <1>6, <1>12 DEF parts, rows, p, b

\* The fields of a carrier.
CarrierWith(ids, widths, sizes, counts, args) ==
  [ids |-> ids, arities |-> widths, layout |-> "graph_major",
   node_sizes |-> sizes, counts |-> counts, args |-> args]

LEMMA CarrierIs ==
  ASSUME NEW ids, NEW widths, NEW sizes, NEW counts, NEW args
  PROVE  /\ CarrierWith(ids, widths, sizes, counts, args).node_sizes = sizes
         /\ CarrierWith(ids, widths, sizes, counts, args).counts = counts
         /\ CarrierWith(ids, widths, sizes, counts, args).args = args
BY DEF CarrierWith

\* The carrier of one graph.
LEMMA SingleIs ==
  ASSUME NEW ids, NEW widths, IdsFit(ids, widths), NEW graph, GraphFits(ids, widths, graph)
  PROVE  Batch(ids, widths, <<graph>>)
           = CarrierWith(ids, widths, Alone(Len(graph.entities)), Alone(relation_counts(ids, graph)),
                     relation_args(ids, graph))
<1>. DEFINE args == relation_args(ids, graph)
            one == <<graph>>
            columns == [g \in 1..1 |-> Shifted(relation_args(ids, one[g]), EntitiesBefore(one, g))]
<1>1. DOMAIN one = 1..1 /\ one[1] = graph /\ \A g \in 1..1 : one[g] = graph
  OBVIOUS
<1>2. args \in Seq(Nat)
  BY ColumnIs, Flattened
<1>3. EntitiesBefore(one, 1) = 0
  <2>. DEFINE f == [i \in DOMAIN one |-> Len(one[i].entities)]
  <2>1. EntitiesBefore(one, 1) = SumTo(f, 0)
    BY DEF EntitiesBefore
  <2>. HIDE DEF f
  <2>. QED  BY <2>1, SumSteps
<1>. HIDE DEF args, one
<1>4. Shifted(args, 0) = args
  <2>1. Len(args) \in Nat /\ DOMAIN args = 1..Len(args) /\ \A i \in 1..Len(args) : args[i] \in Nat
    BY <1>2, LenProperties, ElementOfSeq
  <2>2. Shifted(args, 0) = [i \in 1..Len(args) |-> args[i]]
    BY <2>1 DEF Shifted
  <2>3. Shifted(args, 0) \in Seq(Nat) /\ Len(Shifted(args, 0)) = Len(args)
    <3>1. Shifted(args, 0) \in [1..Len(args) -> Nat]
      BY <2>1, <2>2
    <3>. HIDE DEF args
    <3>. QED  BY <2>1, <3>1, SeqOfLength
  <2>4. \A i \in 1..Len(args) : Shifted(args, 0)[i] = args[i]
    BY <2>2
  <2>. QED  BY <1>2, <2>3, <2>4, SeqEqual
<1>5. columns = [g \in 1..1 |-> args]
  BY <1>1, <1>3, <1>4 DEF args
<1>6. FlattenSeq(columns) = args
  <2>1. columns \in [1..1 -> {args}] /\ DOMAIN columns = 1..1
    BY <1>5
  <2>. HIDE DEF columns
  <2>. QED  BY <1>2, <2>1, FlattenedOne
<1>7. Batch(ids, widths, one)
        = [ids |-> ids, arities |-> widths, layout |-> "graph_major",
           node_sizes |-> [g \in 1..1 |-> Len(one[g].entities)],
           counts |-> [g \in 1..1 |-> relation_counts(ids, one[g])],
           args |-> FlattenSeq(columns)]
  BY <1>1 DEF Batch
<1>. HIDE DEF columns
<1>8. /\ [g \in 1..1 |-> Len(one[g].entities)] = Alone(Len(graph.entities))
      /\ [g \in 1..1 |-> relation_counts(ids, one[g])] = Alone(relation_counts(ids, graph))
  BY <1>1 DEF Alone
<1>. QED  BY <1>6, <1>7, <1>8 DEF CarrierWith, args, one

\* Carriers of single graphs collate to the batch of all of them.
LEMMA CollatedIs ==
  ASSUME NEW ids, NEW widths, IdsFit(ids, widths), NEW graphs, GraphsFit(ids, widths, graphs),
         graphs # <<>>
  PROVE  Collated([k \in DOMAIN graphs |-> Batch(ids, widths, <<graphs[k]>>)])
           = Batch(ids, widths, graphs)
<1>. DEFINE carriers == [k \in DOMAIN graphs |-> Batch(ids, widths, <<graphs[k]>>)]
            n == Len(graphs)
            sizes == [k \in DOMAIN graphs |-> Len(graphs[k].entities)]
            counts == [k \in DOMAIN graphs |-> relation_counts(ids, graphs[k])]
            added == [k \in DOMAIN carriers |-> SumOf(carriers[k].node_sizes)]
            columns == [k \in DOMAIN graphs |->
                          Shifted(relation_args(ids, graphs[k]), EntitiesBefore(graphs, k))]
<1>1. n \in Nat /\ DOMAIN graphs = 1..n /\ 1 \in DOMAIN graphs
  <2>1. graphs \in Seq(ToSet(graphs))
    BY DEF GraphsFit
  <2>2. n \in Nat /\ DOMAIN graphs = 1..n
    BY <2>1, LenProperties
  <2>3. n # 0
    BY <2>1, EmptySeq
  <2>. QED  BY <2>2, <2>3
<1>. HIDE DEF n
<1>2. ASSUME NEW k \in DOMAIN graphs
      PROVE  /\ carriers[k] = CarrierWith(ids, widths, Alone(sizes[k]), Alone(counts[k]),
                                     relation_args(ids, graphs[k]))
             /\ carriers[k].node_sizes = Alone(sizes[k])
             /\ carriers[k].counts = Alone(counts[k])
             /\ carriers[k].args = relation_args(ids, graphs[k])
  <2>1. GraphFits(ids, widths, graphs[k])
    BY DEF GraphsFit
  <2>2. Batch(ids, widths, <<graphs[k]>>)
          = CarrierWith(ids, widths, Alone(Len(graphs[k].entities)),
                    Alone(relation_counts(ids, graphs[k])), relation_args(ids, graphs[k]))
    BY <2>1, SingleIs
  <2>3. carriers[k] = CarrierWith(ids, widths, Alone(sizes[k]), Alone(counts[k]),
                              relation_args(ids, graphs[k]))
    BY <2>2
  <2>. HIDE DEF carriers
  <2>4. LET c == CarrierWith(ids, widths, Alone(sizes[k]), Alone(counts[k]),
                         relation_args(ids, graphs[k]))
        IN  /\ c.node_sizes = Alone(sizes[k]) /\ c.counts = Alone(counts[k])
            /\ c.args = relation_args(ids, graphs[k])
    BY CarrierIs
  <2>. HIDE DEF sizes, counts
  <2>. QED  BY <2>3, <2>4
<1>3. DOMAIN carriers = DOMAIN graphs
  OBVIOUS
<1>. HIDE DEF carriers
<1>4. \A k \in DOMAIN graphs : sizes[k] \in Nat
  BY LenProperties DEF GraphsFit, GraphFits, TableFits
<1>5. ASSUME NEW k \in DOMAIN graphs
      PROVE  added[k] = sizes[k]
  <2>. DEFINE size == sizes[k]
              one == Alone(size)
  <2>1. carriers[k].node_sizes = one
    BY <1>2
  <2>2. size \in Nat
    BY <1>4
  <2>. HIDE DEF size
  <2>3. Len(one) = 1 /\ one[1] = size
    BY <2>2, AloneIs
  <2>. HIDE DEF one
  <2>4. SumTo(one, 0 + 1) = SumTo(one, 0) + one[0 + 1] /\ SumTo(one, 0) = 0
    BY SumSteps
  <2>5. SumOf(one) = size
    BY <2>2, <2>3, <2>4 DEF SumOf
  <2>. QED  BY <1>3, <2>1, <2>5 DEF size
<1>6. added = sizes
  BY <1>3, <1>5
<1>7. [k \in DOMAIN carriers |-> Shifted(carriers[k].args, SumTo(added, k - 1))] = columns
  <2>1. \A k \in DOMAIN graphs : SumTo(added, k - 1) = EntitiesBefore(graphs, k)
    BY <1>6 DEF EntitiesBefore
  <2>. HIDE DEF added
  <2>2. \A k \in DOMAIN graphs : carriers[k].args = relation_args(ids, graphs[k])
    BY <1>2
  <2>. QED  BY <1>3, <2>1, <2>2
<1>8. FlattenSeq([k \in DOMAIN carriers |-> carriers[k].node_sizes]) = sizes
  <2>. DEFINE s == [k \in DOMAIN carriers |-> carriers[k].node_sizes]
  <2>1. \A k \in 1..n : s[k] = Alone(sizes[k]) /\ sizes[k] \in Nat
    BY <1>1, <1>2, <1>3, <1>4
  <2>2. DOMAIN s = 1..n /\ s = [k \in 1..n |-> s[k]] /\ sizes \in [1..n -> Nat]
    BY <1>1, <1>3, <1>4
  <2>. HIDE DEF s, sizes
  <2>3. \A k \in 1..n : s[k] \in Seq(Nat) /\ Len(s[k]) = 1 /\ s[k][1] = sizes[k]
    <3>1. ASSUME NEW k \in 1..n
          PROVE  s[k] \in Seq(Nat) /\ Len(s[k]) = 1 /\ s[k][1] = sizes[k]
      <4>. DEFINE x == sizes[k]
      <4>1. s[k] = Alone(x) /\ x \in Nat
        BY <2>1
      <4>. HIDE DEF x
      <4>2. s[k] \in Seq(Nat) /\ Len(s[k]) = 1 /\ s[k][1] = x
        BY <4>1, AloneIs
      <4>. QED  BY <4>2 DEF x
    <3>. QED  BY <3>1
  <2>4. s \in Seq(Seq(Nat)) /\ Len(s) = n
    <3>1. s \in [1..n -> Seq(Nat)]
      BY <2>2, <2>3
    <3>. QED  BY <1>1, <3>1, SeqOfLength
  <2>5. sizes \in Seq(Nat) /\ Len(sizes) = n
    BY <1>1, <2>2, SeqOfLength
  <2>6. FlattenSeq(s) = sizes
    BY <1>1, <2>3, <2>4, <2>5, FlattenedOnes
  <2>. QED  BY <2>6 DEF s
<1>9. FlattenSeq([k \in DOMAIN carriers |-> carriers[k].counts]) = counts
  <2>. DEFINE s == [k \in DOMAIN carriers |-> carriers[k].counts]
              T == {counts[k] : k \in DOMAIN graphs}
  <2>1. \A k \in 1..n : s[k] = Alone(counts[k]) /\ counts[k] \in T
    BY <1>1, <1>2, <1>3
  <2>2. DOMAIN s = 1..n /\ s = [k \in 1..n |-> s[k]] /\ counts \in [1..n -> T]
    BY <1>1, <1>3
  <2>. HIDE DEF s, counts, T
  <2>3. \A k \in 1..n : s[k] \in Seq(T) /\ Len(s[k]) = 1 /\ s[k][1] = counts[k]
    <3>1. ASSUME NEW k \in 1..n
          PROVE  s[k] \in Seq(T) /\ Len(s[k]) = 1 /\ s[k][1] = counts[k]
      <4>. DEFINE x == counts[k]
      <4>1. s[k] = Alone(x) /\ x \in T
        BY <2>1
      <4>. HIDE DEF x
      <4>2. s[k] \in Seq(T) /\ Len(s[k]) = 1 /\ s[k][1] = x
        BY <4>1, AloneIs
      <4>. QED  BY <4>2 DEF x
    <3>. QED  BY <3>1
  <2>4. s \in Seq(Seq(T)) /\ Len(s) = n
    <3>1. s \in [1..n -> Seq(T)]
      BY <2>2, <2>3
    <3>. QED  BY <1>1, <3>1, SeqOfLength
  <2>5. counts \in Seq(T) /\ Len(counts) = n
    BY <1>1, <2>2, SeqOfLength
  <2>6. FlattenSeq(s) = counts
    BY <1>1, <2>3, <2>4, <2>5, FlattenedOnes
  <2>. QED  BY <2>6 DEF s
<1>10. Batch(ids, widths, graphs)
         = CarrierWith(ids, widths, sizes, counts, FlattenSeq(columns))
  BY DEF Batch, CarrierWith
<1>11. Collated(carriers)
         = [carriers[1] EXCEPT !.node_sizes = sizes, !.counts = counts,
                               !.args = FlattenSeq(columns)]
  <2>. HIDE DEF sizes, counts, columns
  <2>. QED  BY <1>7, <1>8, <1>9 DEF Collated, added
<1>. HIDE DEF columns, sizes, counts
<1>12. [carriers[1] EXCEPT !.node_sizes = sizes, !.counts = counts, !.args = FlattenSeq(columns)]
         = CarrierWith(ids, widths, sizes, counts, FlattenSeq(columns))
  <2>. DEFINE first == Alone(sizes[1])
              others == Alone(counts[1])
              args == relation_args(ids, graphs[1])
              longer == FlattenSeq(columns)
  <2>1. carriers[1] = CarrierWith(ids, widths, first, others, args)
    BY <1>1, <1>2
  <2>. HIDE DEF first, others, args, longer
  <2>2. [CarrierWith(ids, widths, first, others, args) EXCEPT !.node_sizes = sizes]
          = CarrierWith(ids, widths, sizes, others, args)
    BY DEF CarrierWith
  <2>3. [CarrierWith(ids, widths, sizes, others, args) EXCEPT !.counts = counts]
          = CarrierWith(ids, widths, sizes, counts, args)
    BY DEF CarrierWith
  <2>4. [CarrierWith(ids, widths, sizes, counts, args) EXCEPT !.args = longer]
          = CarrierWith(ids, widths, sizes, counts, longer)
    BY DEF CarrierWith
  <2>5. [carriers[1] EXCEPT !.node_sizes = sizes, !.counts = counts, !.args = longer]
          = CarrierWith(ids, widths, sizes, counts, longer)
    BY <2>1, <2>2, <2>3, <2>4
  <2>. QED  BY <2>5 DEF longer
<1>. QED  BY <1>10, <1>11, <1>12 DEF carriers

-----------------------------------------------------------------------------
(***************************************************************************)
(* Every way to read a batch.                                              *)
(***************************************************************************)
LEMMA StoredUnpacks ==
  ASSUME NEW ids, NEW widths, IdsFit(ids, widths), NEW graphs, GraphsFit(ids, widths, graphs),
         NEW b, Stored(b, ids, widths, graphs),
         \A r \in DOMAIN ids :
           RelationsOfBatch(b)[r] = FlattenSeq([g \in DOMAIN graphs |-> RelationsOfGraph(b, g)[r]])
  PROVE  Unpacks(b, graphs)
<1>1. \A g \in DOMAIN graphs :
        GraphUnpacks(b.ids, graphs[g], RelationsOfGraph(b, g), EntityTable(graphs),
                     NodeRange(b, g), InstanceRange(b, g))
  BY GraphOfStored
<1>2. b.ids = ids
  BY DEF Stored
<1>. DEFINE rows(r) == FlattenSeq([g \in DOMAIN graphs |-> RelationsOfGraph(b, g)[r]])
            read(r) == IF b.layout = "relation_major"
                       THEN Matrix(Segment(b, RelationMajorStart(b, 1, r),
                                           TotalCount(b, r) * b.arities[r]),
                                   TotalCount(b, r), b.arities[r])
                       ELSE FlattenSeq([g \in Graphs(b) |-> RelationsOfGraph(b, g)[r]])
<1>3. RelationsOfBatch(b) = [r \in DOMAIN ids |-> read(r)]
  BY <1>2 DEF RelationsOfBatch, Relations
<1>4. \A r \in DOMAIN ids : RelationsOfBatch(b)[r] = rows(r)
  OBVIOUS
<1>. HIDE DEF read, rows
<1>5. RelationsOfBatch(b) = [r \in DOMAIN ids |-> rows(r)]
  BY <1>3, <1>4
<1>. QED  BY <1>1, <1>2, <1>5 DEF Unpacks, Relations, rows

\* Tuples that fit their relations are read back as they were emitted, from the batch,
\* from the batch regrouped by relation, and from single graphs collated to a batch.
THEOREM TuplesUnpack ==
  ASSUME NEW ids, NEW widths, IdsFit(ids, widths), NEW graphs, GraphsFit(ids, widths, graphs)
  PROVE  GraphsUnpack(ids, widths, graphs)
<1>. DEFINE b == Batch(ids, widths, graphs)
            p == Packed(b)
            singles == [k \in DOMAIN graphs |-> Batch(ids, widths, <<graphs[k]>>)]
<1>1. ASSUME graphs # <<>>
      PROVE  Unpacks(b, graphs)
  <2>1. Stored(b, ids, widths, graphs)
    BY BatchStored
  <2>2. b.layout = "graph_major"
    BY DEF Batch
  <2>. HIDE DEF b
  <2>3. \A r \in DOMAIN ids :
          RelationsOfBatch(b)[r]
            = FlattenSeq([g \in DOMAIN graphs |-> RelationsOfGraph(b, g)[r]])
    BY <2>1, <2>2 DEF RelationsOfBatch, Relations, Graphs, Stored
  <2>. QED  BY <2>1, <2>3, StoredUnpacks
<1>2. ASSUME graphs # <<>>
      PROVE  Unpacks(p, graphs)
  <2>1. Stored(p, ids, widths, graphs)
    BY <1>2, PackedStored
  <2>2. \A r \in DOMAIN ids :
          RelationsOfBatch(p)[r]
            = FlattenSeq([g \in DOMAIN graphs |-> RelationsOfGraph(p, g)[r]])
    BY <1>2, PackedRows
  <2>. HIDE DEF p
  <2>. QED  BY <2>1, <2>2, StoredUnpacks
<1>3. ASSUME graphs # <<>>
      PROVE  Collated(singles) = b
  BY <1>3, CollatedIs
<1>. HIDE DEF b, singles
<1>4. EveryWayUnpacks(b, singles, graphs)
  BY <1>1, <1>2, <1>3 DEF EveryWayUnpacks
<1>. QED  BY <1>4 DEF GraphsUnpack, b, singles

-----------------------------------------------------------------------------
\* A pool has what is used.
LEMMA PoolSet ==
  ASSUME NEW T, NEW s \in Seq(T)
  PROVE  PoolOf(s) \in Seq(T) /\ ToSet(PoolOf(s)) = ToSet(s)
<1>1. FirstUses(s) \in SUBSET DOMAIN s
  BY DEF FirstUses
<1>2. PoolOf(s) \in Seq(T) /\ ToSet(PoolOf(s)) = {s[n] : n \in FirstUses(s)}
  BY <1>1, ChosenSet DEF PoolOf
<1>3. ASSUME NEW i \in DOMAIN s
      PROVE  \E n \in FirstUses(s) : s[n] = s[i]
  <2>. DEFINE same == {j \in DOMAIN s : s[j] = s[i]}
  <2>1. same \subseteq Nat /\ same # {}
    BY LenProperties
  <2>2. PICK n \in same : \A j \in same : n <= j
    BY <2>1, NatLeast
  <2>. QED  BY <2>2 DEF FirstUses
<1>. QED  BY <1>1, <1>2, <1>3 DEF ToSet

-----------------------------------------------------------------------------
(***************************************************************************)
(* The elements of a set in some order.  Ordered is a fold, and that is a  *)
(* recursive function on the subsets; it exists for finite ones.           *)
(***************************************************************************)
Some(s) == CHOOSE x \in s : TRUE

ListedIn(g, s) == IF s = {} THEN <<>> ELSE Append(g[s \ {Some(s)}], Some(s))

Lists(g, subsets) == g = [s \in subsets |-> ListedIn(g, s)]

Upto(S, n) == {s \in SUBSET S : Cardinality(s) <= n}

LEMMA OrderedIs ==
  ASSUME NEW S
  PROVE  Ordered(S) = (CHOOSE g : Lists(g, SUBSET S))[S]
BY DEF Ordered, FoldSet, MapThenFoldSet, Lists, ListedIn, Some

LEMMA SomeOne ==
  ASSUME NEW s, IsFiniteSet(s), s # {}
  PROVE  /\ Some(s) \in s
         /\ s \ {Some(s)} \subseteq s /\ IsFiniteSet(s \ {Some(s)})
         /\ Cardinality(s) \in Nat /\ Cardinality(s \ {Some(s)}) \in Nat
         /\ Cardinality(s) = Cardinality(s \ {Some(s)}) + 1
<1>1. Some(s) \in s
  BY DEF Some
<1>2. IsFiniteSet(s \ {Some(s)}) /\ Cardinality(s) \in Nat
  BY FS_CardinalityType, FS_Subset
<1>3. Cardinality(s \ {Some(s)}) = Cardinality(s) - 1
  BY <1>1, FS_RemoveElement
<1>4. Cardinality(s \ {Some(s)}) \in Nat
  BY <1>2, FS_CardinalityType
<1>. QED  BY <1>1, <1>2, <1>3, <1>4

LEMMA ListingExists ==
  ASSUME NEW S, IsFiniteSet(S)
  PROVE  \E g : Lists(g, SUBSET S)
<1>. DEFINE Listed == {n \in Nat : \E g : Lists(g, Upto(S, n))}
<1>0. \A s \in SUBSET S : IsFiniteSet(s) /\ Cardinality(s) \in Nat
  BY FS_Subset, FS_CardinalityType
<1>1. 0 \in Listed
  <2>. DEFINE g == [s \in Upto(S, 0) |-> <<>>]
  <2>1. \A s \in Upto(S, 0) : s = {}
    BY <1>0, FS_EmptySet DEF Upto
  <2>2. Lists(g, Upto(S, 0))
    BY <2>1 DEF Lists, ListedIn
  <2>. QED  BY <2>2
<1>2. ASSUME NEW n \in Nat, n \in Listed
      PROVE  n + 1 \in Listed
  <2>1. PICK g : Lists(g, Upto(S, n))
    BY <1>2
  <2>. DEFINE h == [s \in Upto(S, n + 1) |-> ListedIn(g, s)]
  <2>2. \A s \in Upto(S, n) : g[s] = ListedIn(g, s)
    BY <2>1 DEF Lists
  <2>3. ASSUME NEW s \in Upto(S, n + 1)
        PROVE  ListedIn(g, s) = ListedIn(h, s)
    <3>1. CASE s = {}
      BY <3>1 DEF ListedIn
    <3>2. CASE s # {}
      <4>. DEFINE rest == s \ {Some(s)}
      <4>1. s \in SUBSET S /\ Cardinality(s) <= n + 1
        BY DEF Upto
      <4>2. /\ rest \subseteq s /\ Cardinality(rest) \in Nat /\ Cardinality(s) \in Nat
            /\ Cardinality(s) = Cardinality(rest) + 1
        BY <3>2, <4>1, <1>0, SomeOne
      <4>3. rest \in SUBSET S /\ Cardinality(rest) <= n
        BY <4>1, <4>2
      <4>4. rest \in Upto(S, n) /\ rest \in Upto(S, n + 1)
        BY <4>3, <4>2 DEF Upto
      <4>. HIDE DEF rest
      <4>5. h[rest] = g[rest]
        BY <4>4, <2>2
      <4>. HIDE DEF h
      <4>. QED  BY <4>5, <3>2 DEF ListedIn, rest
    <3>. QED  BY <3>1, <3>2
  <2>4. Lists(h, Upto(S, n + 1))
    <3>1. h = [s \in Upto(S, n + 1) |-> ListedIn(h, s)]
      BY <2>3
    <3>. QED  BY <3>1 DEF Lists
  <2>. HIDE DEF h
  <2>. QED  BY <2>4
<1>. HIDE DEF Listed
<1>3. \A n \in Nat : n \in Listed
  BY <1>1, <1>2, AllReached
<1>4. Cardinality(S) \in Nat /\ Upto(S, Cardinality(S)) = SUBSET S
  <2>1. Cardinality(S) \in Nat
    BY <1>0
  <2>2. \A s \in SUBSET S : Cardinality(s) <= Cardinality(S)
    BY FS_Subset
  <2>. QED  BY <2>1, <2>2 DEF Upto
<1>. QED  BY <1>3, <1>4 DEF Listed

\* A listing of s: all its elements, each once.
IsListing(list, s) ==
  /\ list \in Seq(s)
  /\ ToSet(list) = s
  /\ \A i, j \in DOMAIN list : list[i] = list[j] => i = j

LEMMA AppendLists ==
  ASSUME NEW s, NEW x \in s, NEW list, IsListing(list, s \ {x})
  PROVE  IsListing(Append(list, x), s)
<1>. DEFINE more == Append(list, x)
            n == Len(list)
<1>1. list \in Seq(s) /\ DOMAIN list = 1..n /\ n \in Nat
  <2>1. list \in Seq(s \ {x}) /\ ToSet(list) \subseteq s
    BY DEF IsListing
  <2>. QED  BY <2>1, EntriesIn, LenProperties
<1>2. /\ more \in Seq(s) /\ Len(more) = n + 1 /\ DOMAIN more = 1..(n + 1)
      /\ \A i \in 1..n : more[i] = list[i]
      /\ more[n + 1] = x
  BY <1>1, AppendProperties, LenProperties
<1>3. \A i \in 1..n : list[i] \in s \ {x}
  BY <1>1 DEF IsListing, ToSet
<1>4. \A i, j \in 1..n : list[i] = list[j] => i = j
  BY <1>1 DEF IsListing
<1>. HIDE DEF more, n
<1>5. \A i, j \in 1..(n + 1) : more[i] = more[j] => i = j
  <2>1. ASSUME NEW i \in 1..(n + 1), NEW j \in 1..(n + 1), more[i] = more[j]
        PROVE  i = j
    <3>1. (i \in 1..n \/ i = n + 1) /\ (j \in 1..n \/ j = n + 1)
      BY <1>1
    <3>. QED  BY <2>1, <3>1, <1>2, <1>3, <1>4
  <2>. QED  BY <2>1
<1>6. ToSet(more) = s
  <2>1. ASSUME NEW y \in s
        PROVE  y \in ToSet(more)
    <3>1. CASE y = x
      <4>1. n + 1 \in 1..(n + 1)
        BY <1>1
      <4>. QED  BY <3>1, <4>1, <1>2 DEF ToSet
    <3>2. CASE y # x
      <4>1. PICK i \in 1..n : list[i] = y
        BY <3>2, <1>1 DEF IsListing, ToSet
      <4>2. i \in 1..(n + 1) /\ more[i] = y
        BY <4>1, <1>1, <1>2
      <4>. QED  BY <4>2, <1>2 DEF ToSet
    <3>. QED  BY <3>1, <3>2
  <2>2. ToSet(more) \subseteq s
    BY <1>2, OwnEntries
  <2>. QED  BY <2>1, <2>2
<1>7. IsListing(more, s)
  BY <1>2, <1>5, <1>6 DEF IsListing
<1>. QED  BY <1>7 DEF more

LEMMA OrderedLists ==
  ASSUME NEW S, IsFiniteSet(S)
  PROVE  IsListing(Ordered(S), S)
<1>1. PICK g : Lists(g, SUBSET S) /\ Ordered(S) = g[S]
  BY ListingExists, OrderedIs
<1>2. \A s \in SUBSET S : g[s] = ListedIn(g, s)
  BY <1>1 DEF Lists
<1>3. \A s \in SUBSET S : IsFiniteSet(s) /\ Cardinality(s) \in Nat
  BY FS_Subset, FS_CardinalityType
<1>. DEFINE Right == {n \in Nat : \A s \in SUBSET S : Cardinality(s) = n => IsListing(g[s], s)}
<1>4. 0 \in Right
  <2>1. ASSUME NEW s \in SUBSET S, Cardinality(s) = 0
        PROVE  IsListing(g[s], s)
    <3>1. s = {}
      BY <2>1, <1>3, FS_EmptySet
    <3>2. g[s] = <<>>
      BY <3>1, <1>2 DEF ListedIn
    <3>. QED  BY <3>1, <3>2 DEF IsListing, ToSet
  <2>. QED  BY <2>1
<1>5. ASSUME NEW n \in Nat, n \in Right
      PROVE  n + 1 \in Right
  <2>1. ASSUME NEW s \in SUBSET S, Cardinality(s) = n + 1
        PROVE  IsListing(g[s], s)
    <3>1. s # {}
      BY <2>1, FS_EmptySet
    <3>. DEFINE rest == s \ {Some(s)}
    <3>2. /\ Some(s) \in s /\ rest \subseteq s /\ Cardinality(rest) \in Nat
          /\ Cardinality(s) = Cardinality(rest) + 1
      BY <3>1, <1>3, SomeOne
    <3>3. rest \in SUBSET S /\ Cardinality(rest) = n
      BY <2>1, <3>2
    <3>. HIDE DEF rest
    <3>4. IsListing(g[rest], rest)
      BY <3>3, <1>5
    <3>5. g[s] = Append(g[rest], Some(s))
      BY <3>1, <1>2 DEF ListedIn, rest
    <3>. QED  BY <3>2, <3>4, <3>5, AppendLists DEF rest
  <2>. QED  BY <2>1
<1>. HIDE DEF Right
<1>6. Cardinality(S) \in Right
  BY <1>3, <1>4, <1>5, AllReached
<1>. QED  BY <1>1, <1>6 DEF Right
-----------------------------------------------------------------------------
(***************************************************************************)
(* Vectors.                                                                *)
(***************************************************************************)
LEMMA PoolVector ==
  ASSUME NEW s, IsVector(s)
  PROVE  IsVector(PoolOf(s)) /\ ToSet(PoolOf(s)) = ToSet(s)
BY PoolSet, VectorFacts DEF IsVector

LEMMA OrderedVector ==
  ASSUME NEW S, IsFiniteSet(S)
  PROVE  /\ IsVector(Ordered(S)) /\ ToSet(Ordered(S)) = S
         /\ \A i, j \in DOMAIN Ordered(S) : Ordered(S)[i] = Ordered(S)[j] => i = j
BY OrderedLists DEF IsListing, IsVector

-----------------------------------------------------------------------------
(***************************************************************************)
(* Lanes.                                                                  *)
(***************************************************************************)
AreGoals(goals, layers) ==
  /\ IsVector(goals)
  /\ \A goal \in ToSet(goals) : IsLiteral(goal.literal) /\ goal.level \in 0..layers

AreLanes(lanes) ==
  /\ IsFiniteSet(lanes.objects) /\ AreFacts(lanes.static) /\ AreFacts(lanes.facts)
  /\ AreGoals(lanes.goals, lanes.layers) /\ lanes.layers \in Nat
  /\ AreActions(lanes.actions) /\ IsHistory(lanes.history)

LEMMA LevelsFit ==
  ASSUME NEW layers, IsVector(layers), layers # <<>>, NEW literal
  PROVE  GoalLevel(layers, literal) \in 0..(Len(layers) - 1)
<1>. DEFINE levels == {0} \cup {l - 1 : l \in {k \in DOMAIN layers : literal \in ToSet(layers[k])}}
<1>1. Len(layers) \in Nat /\ DOMAIN layers = 1..Len(layers)
  BY VectorFacts
<1>2. Len(layers) # 0
  BY VectorFacts, EmptySeq
<1>3. Len(layers) - 1 \in Nat
  BY <1>1, <1>2
<1>4. levels \subseteq 0..(Len(layers) - 1) /\ levels # {}
  BY <1>1, <1>3
<1>5. Max(levels) \in 0..(Len(layers) - 1)
  <2>. HIDE DEF levels
  <2>. QED  BY <1>3, <1>4, Greatest
<1>. QED  BY <1>5 DEF GoalLevel

LEMMA LayersFit ==
  ASSUME NEW in, IsOwnedInput(in)
  PROVE  /\ IsVector(EffectiveLayers(in)) /\ EffectiveLayers(in) # <<>>
         /\ \A layer \in ToSet(EffectiveLayers(in)) : AreLiterals(layer)
<1>1. /\ IsVector(in.layers) /\ in.layers # <<>>
      /\ \A layer \in ToSet(in.layers) \cup {in.default_goals} : AreLiterals(layer)
  BY DEF IsOwnedInput, AreLayers
<1>2. CASE in.use_default_goals
  <2>. DEFINE own == <<in.default_goals>>
              rest == Tail(in.layers)
  <2>1. rest \in Seq(ToSet(in.layers))
    <3>1. in.layers \in Seq(ToSet(in.layers)) /\ in.layers # <<>>
      BY <1>1, VectorFacts
    <3>. QED  BY <3>1, HeadTailProperties
  <2>2. IsVector(rest) /\ ToSet(rest) \subseteq ToSet(in.layers)
    BY <2>1, IntoVector
  <2>3. IsVector(own) /\ ToSet(own) = {in.default_goals} /\ Len(own) = 1
    BY OneVector
  <2>. HIDE DEF own, rest
  <2>4. /\ IsVector(own \o rest) /\ ToSet(own \o rest) = ToSet(own) \cup ToSet(rest)
        /\ Len(own \o rest) = Len(own) + Len(rest)
    BY <2>2, <2>3, JoinedVectors
  <2>5. own \o rest # <<>>
    BY <2>2, <2>3, <2>4, VectorFacts
  <2>6. EffectiveLayers(in) = own \o rest
    BY <1>2 DEF EffectiveLayers, own, rest
  <2>7. \A layer \in ToSet(own) \cup ToSet(rest) : AreLiterals(layer)
    BY <1>1, <2>2, <2>3
  <2>. QED  BY <2>4, <2>5, <2>6, <2>7
<1>3. CASE ~in.use_default_goals
  <2>1. EffectiveLayers(in) = in.layers
    BY <1>3 DEF EffectiveLayers
  <2>. QED  BY <1>1, <2>1
<1>. QED  BY <1>2, <1>3

LEMMA GoalsFit ==
  ASSUME NEW layers, IsVector(layers), layers # <<>>,
         \A layer \in ToSet(layers) : AreLiterals(layer)
  PROVE  AreGoals(PreparedGoals(layers), Len(layers) - 1)
<1>. DEFINE ordered == FlattenSeq(layers)
            n == Len(ordered)
            goals == PreparedGoals(layers)
<1>1. /\ Len(layers) \in Nat /\ DOMAIN layers = 1..Len(layers)
      /\ layers = [i \in 1..Len(layers) |-> layers[i]]
      /\ \A i \in 1..Len(layers) : AreLiterals(layers[i])
  BY VectorFacts
<1>2. /\ IsVector(ordered)
      /\ ToSet(ordered) = UNION {ToSet(layers[i]) : i \in 1..Len(layers)}
  BY <1>1, FlattenedVectors DEF AreLiterals
<1>3. \A literal \in ToSet(ordered) : IsLiteral(literal)
  BY <1>1, <1>2 DEF AreLiterals
<1>4. n \in Nat /\ DOMAIN ordered = 1..n /\ \A i \in 1..n : ordered[i] \in ToSet(ordered)
  BY <1>2, VectorFacts
<1>5. goals = [i \in 1..n |-> [literal |-> ordered[i], level |-> GoalLevel(layers, ordered[i])]]
  BY <1>4 DEF PreparedGoals
<1>. HIDE DEF ordered, n
<1>6. DOMAIN goals = 1..n /\ goals = [i \in 1..n |-> goals[i]]
  BY <1>5
<1>. HIDE DEF goals
<1>7. IsVector(goals) /\ ToSet(goals) = {goals[i] : i \in 1..n}
  BY <1>4, <1>6, VectorOf
<1>8. ASSUME NEW i \in 1..n
      PROVE  IsLiteral(goals[i].literal) /\ goals[i].level \in 0..(Len(layers) - 1)
  <2>1. goals[i].literal = ordered[i] /\ goals[i].level = GoalLevel(layers, ordered[i])
    BY <1>5
  <2>. QED  BY <2>1, <1>3, <1>4, LevelsFit
<1>9. AreGoals(goals, Len(layers) - 1)
  BY <1>7, <1>8 DEF AreGoals
<1>. QED  BY <1>9 DEF goals

LEMMA OwnedLanesFit ==
  ASSUME NEW in, IsOwnedInput(in)
  PROVE  AreLanes(OwnedLanes(in))
<1>1. AreGoals(PreparedGoals(EffectiveLayers(in)), Len(EffectiveLayers(in)) - 1)
  BY LayersFit, GoalsFit
<1>2. Len(EffectiveLayers(in)) - 1 \in Nat
  BY LayersFit, VectorFacts
<1>. QED  BY <1>1, <1>2 DEF OwnedLanes, AreLanes, IsOwnedInput, AreLayers

\* What the encoder reads of the history is of the history.
LEMMA HistoryFits ==
  ASSUME NEW history, IsHistory(history), NEW max_steps
  PROVE  IsVector(OrderedHistory(history, max_steps))
         /\ ToSet(OrderedHistory(history, max_steps)) \subseteq ToSet(history)
<1>. DEFINE entries == NearEntries(history, max_steps)
            T == ToSet(entries)
            ages == {-entries[i].dt : i \in DOMAIN entries}
            byAge == [age \in ages |-> OfAge(entries, age)]
            oldest == InOrder(byAge)
<1>1. IsVector(entries) /\ T \subseteq ToSet(history)
  <2>. DEFINE places == {i \in DOMAIN history : Near(history[i], max_steps)}
  <2>1. /\ IsVector(Chosen(history, places))
        /\ ToSet(Chosen(history, places)) = {history[n] : n \in places}
    BY ChosenVector DEF IsHistory, IsEntry
  <2>2. \A i \in DOMAIN history : history[i] \in ToSet(history)
    BY DEF ToSet
  <2>. QED  BY <2>1, <2>2 DEF NearEntries
<1>2. \A entry \in T : entry.dt \in Int
  BY <1>1 DEF IsHistory, IsEntry
<1>. HIDE DEF entries
<1>3. /\ Len(entries) \in Nat /\ DOMAIN entries = 1..Len(entries)
      /\ \A i \in DOMAIN entries : entries[i] \in T
  BY <1>1, VectorFacts
<1>4. ages \in SUBSET Int /\ IsFiniteSet(ages)
  <2>1. \A i \in DOMAIN entries : -entries[i].dt \in Int
    BY <1>2, <1>3
  <2>2. IsFiniteSet(DOMAIN entries)
    <3>1. 1 \in Int /\ Len(entries) \in Int
      BY <1>3
    <3>. QED  BY <3>1, <1>3, FS_Interval
  <2>. DEFINE Age == [i \in DOMAIN entries |-> -entries[i].dt]
  <2>3. ages = {Age[i] : i \in DOMAIN entries}
    OBVIOUS
  <2>4. Age \in Surjection(DOMAIN entries, ages)
    BY <2>3 DEF Surjection
  <2>5. IsFiniteSet(ages)
    BY <2>2, <2>4, FS_Surjection
  <2>. QED  BY <2>1, <2>5
<1>5. \A age \in ages : OfAge(entries, age) \in Seq(T)
  <2>1. ASSUME NEW age \in ages
        PROVE  OfAge(entries, age) \in Seq(T)
    <3>. DEFINE places == {i \in DOMAIN entries : -entries[i].dt = age}
    <3>1. places \in SUBSET DOMAIN entries
      OBVIOUS
    <3>2. entries \in Seq(T)
      BY <1>1, VectorFacts
    <3>. HIDE DEF T
    <3>3. Chosen(entries, places) \in Seq(T)
      BY <3>1, <3>2, ChosenSet
    <3>. QED  BY <3>3 DEF OfAge
  <2>. QED  BY <2>1
<1>. HIDE DEF T
<1>6. DOMAIN byAge = ages /\ byAge \in [ages -> Seq(T)]
  BY <1>5
<1>. HIDE DEF byAge
<1>7. oldest \in Seq(Seq(T))
  BY <1>4, <1>6, InOrderType
<1>8. Reverse(oldest) \in Seq(Seq(T))
  BY <1>7, ReversedSet
<1>9. FlattenSeq(Reverse(oldest)) \in Seq(T)
  BY <1>8, FlattenedSet
<1>10. OrderedHistory(history, max_steps) = FlattenSeq(Reverse(oldest))
  BY DEF OrderedHistory, OldestFirst, entries, byAge
<1>. QED  BY <1>1, <1>9, <1>10, IntoVector DEF T
-----------------------------------------------------------------------------
(***************************************************************************)
(* What an encoder prepares: goals, literals of the history, and rows.     *)
(***************************************************************************)
LanesReady(c, lanes) ==
  /\ AreLanes(lanes) /\ ValidLanes(lanes)
  /\ lanes.layers <= c.max_goal_level /\ c.max_goal_level \in Nat

GoalIs(lanes, goal) ==
  /\ IsLiteral(goal.literal) /\ goal.level \in 0..lanes.layers
  /\ ValidAtom(lanes, goal.literal.atom)

GoalsAre(lanes, goals) == IsVector(goals) /\ \A goal \in ToSet(goals) : GoalIs(lanes, goal)

LEMMA ByCategoryAre ==
  ASSUME NEW c, NEW lanes, LanesReady(c, lanes)
  PROVE  GoalsAre(lanes, ByCategory(lanes.goals))
<1>. DEFINE goals == lanes.goals
            parts == [k \in DOMAIN Categories |-> GoalsOfCategory(goals, Categories[k])]
<1>1. IsVector(goals) /\ \A i \in DOMAIN goals : goals[i] \in ToSet(goals)
  BY VectorFacts DEF LanesReady, AreLanes, AreGoals
<1>2. \A goal \in ToSet(goals) : GoalIs(lanes, goal)
  BY DEF LanesReady, AreLanes, AreGoals, ValidLanes, GoalIs, ToSet
<1>3. DOMAIN parts = 1..3 /\ parts = [k \in 1..3 |-> parts[k]]
  BY DEF Categories
<1>. HIDE DEF goals
<1>4. \A k \in 1..3 : IsVector(parts[k]) /\ ToSet(parts[k]) \subseteq ToSet(goals)
  <2>1. ASSUME NEW k \in 1..3
        PROVE  IsVector(parts[k]) /\ ToSet(parts[k]) \subseteq ToSet(goals)
    <3>. DEFINE places == {i \in DOMAIN goals :
                             CategoryOf(goals[i].literal.atom) = Categories[k]}
    <3>1. parts[k] = Chosen(goals, places)
      BY <1>3 DEF GoalsOfCategory
    <3>2. places \in SUBSET DOMAIN goals
      OBVIOUS
    <3>. HIDE DEF places
    <3>3. IsVector(Chosen(goals, places)) /\ ToSet(Chosen(goals, places)) = {goals[n] : n \in places}
      BY <1>1, <3>2, ChosenVector
    <3>. QED  BY <3>1, <3>2, <3>3, <1>1
  <2>. QED  BY <2>1
<1>. HIDE DEF parts
<1>5. /\ IsVector(FlattenSeq(parts))
      /\ ToSet(FlattenSeq(parts)) = UNION {ToSet(parts[k]) : k \in 1..3}
  <2>1. 3 \in Nat
    OBVIOUS
  <2>. QED  BY <1>3, <1>4, <2>1, FlattenedVectors
<1>6. ByCategory(goals) = FlattenSeq(parts)
  BY DEF ByCategory, parts
<1>. QED  BY <1>2, <1>4, <1>5, <1>6 DEF GoalsAre, goals

LEMMA ConsideredAre ==
  ASSUME NEW c, NEW lanes, LanesReady(c, lanes)
  PROVE  /\ GoalsAre(lanes, ConsideredGoals(c, lanes))
         /\ ToSet(ConsideredGoals(c, lanes)) \subseteq ToSet(ByCategory(lanes.goals))
         /\ \A goal \in ToSet(ConsideredGoals(c, lanes)) : GoalConsidered(c, goal.literal)
<1>. DEFINE goals == ByCategory(lanes.goals)
            places == {i \in DOMAIN goals : GoalConsidered(c, goals[i].literal)}
<1>1. GoalsAre(lanes, goals)
  BY ByCategoryAre
<1>. HIDE DEF goals
<1>2. IsVector(Chosen(goals, places)) /\ ToSet(Chosen(goals, places)) = {goals[n] : n \in places}
  BY <1>1, ChosenVector DEF GoalsAre
<1>3. ConsideredGoals(c, lanes) = Chosen(goals, places)
  BY DEF ConsideredGoals, goals
<1>4. \A n \in places : goals[n] \in ToSet(goals) /\ GoalConsidered(c, goals[n].literal)
  BY DEF ToSet
<1>. HIDE DEF places
<1>. QED  BY <1>1, <1>2, <1>3, <1>4 DEF GoalsAre, goals

\* An anchored goal has a row.
LEMMA AnchoredAre ==
  ASSUME NEW c, NEW lanes, LanesReady(c, lanes)
  PROVE  /\ IsVector(GoalRows(c, lanes))
         /\ \A goal \in ToSet(ByCategory(lanes.goals)) :
              Kept(c, goal.literal.atom) /\ HasAnchor(c, LevelSource(goal.level)) =>
                GoalRow(goal.literal, goal.level) \in ToSet(GoalRows(c, lanes))
<1>. DEFINE goals == ByCategory(lanes.goals)
            At_(source) == {i \in DOMAIN goals : /\ Kept(c, goals[i].literal.atom)
                                                 /\ LevelSource(goals[i].level) = source
                                                 /\ HasAnchor(c, source)}
            first == Chosen(goals, At_("goals"))
            second == Chosen(goals, At_("subgoals"))
            anchored == AnchoredGoals(c, lanes)
            rows == GoalRows(c, lanes)
<1>1. IsVector(goals)
  BY ByCategoryAre DEF GoalsAre
<1>. HIDE DEF goals
<1>2. /\ IsVector(first) /\ ToSet(first) = {goals[n] : n \in At_("goals")}
      /\ IsVector(second) /\ ToSet(second) = {goals[n] : n \in At_("subgoals")}
  <2>1. At_("goals") \in SUBSET DOMAIN goals /\ At_("subgoals") \in SUBSET DOMAIN goals
    OBVIOUS
  <2>. HIDE DEF At_
  <2>. QED  BY <1>1, <2>1, ChosenVector
<1>3. anchored = first \o second
  BY DEF AnchoredGoals, goals
<1>. HIDE DEF first, second, anchored
<1>4. IsVector(anchored) /\ ToSet(anchored) = ToSet(first) \cup ToSet(second)
  BY <1>2, <1>3, JoinedVectors
<1>5. /\ Len(anchored) \in Nat /\ DOMAIN anchored = 1..Len(anchored)
  BY <1>4, VectorFacts
<1>6. rows = [i \in 1..Len(anchored) |-> GoalRow(anchored[i].literal, anchored[i].level)]
  BY <1>5 DEF GoalRows, RowsOfGoals, anchored
<1>. HIDE DEF rows
<1>7. IsVector(rows) /\ ToSet(rows) = {rows[i] : i \in 1..Len(anchored)}
  <2>1. DOMAIN rows = 1..Len(anchored) /\ rows = [i \in 1..Len(anchored) |-> rows[i]]
    BY <1>6
  <2>. QED  BY <1>5, <2>1, VectorOf
<1>8. ASSUME NEW goal \in ToSet(goals), Kept(c, goal.literal.atom),
             HasAnchor(c, LevelSource(goal.level))
      PROVE  GoalRow(goal.literal, goal.level) \in ToSet(rows)
  <2>1. PICK n \in DOMAIN goals : goals[n] = goal
    BY DEF ToSet
  <2>2. LevelSource(goal.level) \in {"goals", "subgoals"}
    BY DEF LevelSource
  <2>3. n \in At_("goals") \/ n \in At_("subgoals")
    BY <1>8, <2>1, <2>2
  <2>4. goal \in ToSet(anchored)
    BY <1>2, <1>4, <2>1, <2>3
  <2>5. PICK i \in 1..Len(anchored) : anchored[i] = goal
    BY <1>5, <2>4 DEF ToSet
  <2>6. rows[i] = GoalRow(goal.literal, goal.level)
    BY <1>6, <2>5
  <2>. QED  BY <1>7, <2>6
<1>. QED  BY <1>7, <1>8 DEF goals, rows

RecentAre(lanes, recent) ==
  /\ IsVector(recent)
  /\ \A entry \in ToSet(recent) :
       /\ AreLiterals(entry.literals)
       /\ \A literal \in ToSet(entry.literals) : ValidAtom(lanes, literal.atom)

LEMMA RecentFits ==
  ASSUME NEW c, NEW lanes, LanesReady(c, lanes)
  PROVE  RecentAre(lanes, RecentHistory(lanes))
<1>. DEFINE recent == RecentHistory(lanes)
<1>1. IsHistory(lanes.history)
  BY DEF LanesReady, AreLanes
<1>2. /\ \A entry \in ToSet(lanes.history) : entry.dt < 0
      /\ \A entry \in ToSet(lanes.history) : \A literal \in ToSet(entry.literals) :
           ValidAtom(lanes, literal.atom)
  BY DEF LanesReady, ValidLanes, ToSet
<1>3. IsVector(recent) /\ ToSet(recent) \subseteq ToSet(lanes.history)
  BY <1>1, <1>2, HistoryFits DEF RecentHistory
<1>. QED  BY <1>1, <1>2, <1>3 DEF RecentAre, IsHistory, IsEntry

\* The literals that are said, each with an entry of the history.
SaidIs(c, lanes, x) ==
  LET recent == RecentHistory(lanes)
  IN  /\ x.entry \in DOMAIN recent /\ x.dt = recent[x.entry].dt
      /\ IsLiteral(x.literal) /\ ValidAtom(lanes, x.literal.atom)
      /\ Kept(c, x.literal.atom)

LEMMA SaidAre ==
  ASSUME NEW c, NEW lanes, LanesReady(c, lanes)
  PROVE  /\ IsVector(SaidLiterals(c, lanes))
         /\ \A x \in ToSet(SaidLiterals(c, lanes)) : SaidIs(c, lanes, x)
<1>. DEFINE recent == RecentHistory(lanes)
            n == Len(recent)
            kept == [i \in 1..n |-> KeptLiterals(c, recent[i].literals)]
            parts == [i \in 1..n |-> InEntry(kept[i], recent[i].dt, i)]
<1>1. RecentAre(lanes, recent)
  BY RecentFits
<1>2. /\ n \in Nat /\ DOMAIN recent = 1..n
      /\ \A i \in 1..n : /\ AreLiterals(recent[i].literals)
                         /\ \A literal \in ToSet(recent[i].literals) : ValidAtom(lanes, literal.atom)
  BY <1>1, VectorFacts DEF RecentAre
<1>3. SaidLiterals(c, lanes) = FlattenSeq(parts)
  BY <1>2 DEF SaidLiterals, HistoryLiterals
<1>. HIDE DEF recent, n
<1>4. \A i \in 1..n : /\ IsVector(kept[i])
                      /\ \A literal \in ToSet(kept[i]) :
                           literal \in ToSet(recent[i].literals) /\ Kept(c, literal.atom)
  <2>1. ASSUME NEW i \in 1..n
        PROVE  /\ IsVector(kept[i])
               /\ \A literal \in ToSet(kept[i]) :
                    literal \in ToSet(recent[i].literals) /\ Kept(c, literal.atom)
    <3>. DEFINE literals == recent[i].literals
                places == {k \in DOMAIN literals : Kept(c, literals[k].atom)}
    <3>1. IsVector(literals)
      BY <1>2 DEF AreLiterals
    <3>2. kept[i] = Chosen(literals, places)
      BY DEF KeptLiterals
    <3>. HIDE DEF literals
    <3>3. /\ IsVector(Chosen(literals, places))
          /\ ToSet(Chosen(literals, places)) = {literals[k] : k \in places}
      BY <3>1, ChosenVector
    <3>4. \A k \in places : literals[k] \in ToSet(literals) /\ Kept(c, literals[k].atom)
      BY DEF ToSet
    <3>. HIDE DEF kept
    <3>. QED  BY <3>2, <3>3, <3>4 DEF literals
  <2>. QED  BY <2>1
<1>. HIDE DEF kept
<1>5. \A i \in 1..n : /\ IsVector(parts[i])
                      /\ \A x \in ToSet(parts[i]) :
                           x.entry = i /\ x.dt = recent[i].dt /\ x.literal \in ToSet(kept[i])
  <2>1. ASSUME NEW i \in 1..n
        PROVE  /\ IsVector(parts[i])
               /\ \A x \in ToSet(parts[i]) :
                    x.entry = i /\ x.dt = recent[i].dt /\ x.literal \in ToSet(kept[i])
    <3>. DEFINE m == Len(kept[i])
                part == InEntry(kept[i], recent[i].dt, i)
    <3>1. m \in Nat /\ DOMAIN kept[i] = 1..m /\ \A k \in 1..m : kept[i][k] \in ToSet(kept[i])
      BY <1>4, VectorFacts
    <3>2. part = [k \in 1..m |-> [dt |-> recent[i].dt, entry |-> i, literal |-> kept[i][k]]]
      BY <3>1 DEF InEntry
    <3>. HIDE DEF m, part
    <3>3. DOMAIN part = 1..m /\ part = [k \in 1..m |-> part[k]]
      BY <3>2
    <3>4. IsVector(part) /\ ToSet(part) = {part[k] : k \in 1..m}
      BY <3>1, <3>3, VectorOf
    <3>5. \A k \in 1..m : /\ part[k].entry = i /\ part[k].dt = recent[i].dt
                          /\ part[k].literal \in ToSet(kept[i])
      BY <3>1, <3>2
    <3>6. parts[i] = part
      BY DEF part
    <3>. QED  BY <3>4, <3>5, <3>6
  <2>. QED  BY <2>1
<1>6. /\ IsVector(FlattenSeq(parts))
      /\ ToSet(FlattenSeq(parts)) = UNION {ToSet(parts[i]) : i \in 1..n}
  <2>1. DOMAIN parts = 1..n /\ parts = [i \in 1..n |-> parts[i]]
    OBVIOUS
  <2>. HIDE DEF parts
  <2>. QED  BY <1>2, <1>5, <2>1, FlattenedVectors
<1>. HIDE DEF parts
<1>7. ASSUME NEW x \in ToSet(FlattenSeq(parts))
      PROVE  SaidIs(c, lanes, x)
  <2>1. PICK i \in 1..n : x \in ToSet(parts[i])
    BY <1>6
  <2>2. x.entry = i /\ x.dt = recent[i].dt /\ x.literal \in ToSet(kept[i])
    BY <1>5, <2>1
  <2>3. x.literal \in ToSet(recent[i].literals) /\ Kept(c, x.literal.atom)
    BY <1>4, <2>2
  <2>4. IsLiteral(x.literal) /\ ValidAtom(lanes, x.literal.atom)
    BY <1>2, <2>3 DEF AreLiterals
  <2>. QED  BY <1>2, <2>2, <2>3, <2>4 DEF SaidIs, recent
<1>. QED  BY <1>3, <1>6, <1>7
LEMMA PredicatesInVector ==
  ASSUME NEW said, IsVector(said)
  PROVE  /\ IsVector(PredicatesIn(said))
         /\ \A x \in ToSet(said) : x.literal.atom.predicate \in ToSet(PredicatesIn(said))
<1>. DEFINE n == Len(said)
            uses == PredicatesIn(said)
<1>1. n \in Nat /\ DOMAIN said = 1..n
  BY VectorFacts
<1>2. uses = [i \in 1..n |-> said[i].literal.atom.predicate]
  BY <1>1 DEF PredicatesIn
<1>. HIDE DEF uses, n
<1>3. DOMAIN uses = 1..n /\ uses = [i \in 1..n |-> uses[i]]
  BY <1>2
<1>4. IsVector(uses) /\ ToSet(uses) = {uses[i] : i \in 1..n}
  BY <1>1, <1>3, VectorOf
<1>5. \A x \in ToSet(said) : x.literal.atom.predicate \in ToSet(uses)
  BY <1>1, <1>2, <1>4 DEF ToSet
<1>. QED  BY <1>4, <1>5 DEF uses

LEMMA PredicatesOfVector ==
  ASSUME NEW facts, IsVector(facts)
  PROVE  /\ IsVector(PredicatesOf(facts))
         /\ \A atom \in ToSet(facts) : atom.predicate \in ToSet(PredicatesOf(facts))
<1>. DEFINE n == Len(facts)
            uses == PredicatesOf(facts)
<1>1. n \in Nat /\ DOMAIN facts = 1..n
  BY VectorFacts
<1>2. uses = [i \in 1..n |-> facts[i].predicate]
  BY <1>1 DEF PredicatesOf
<1>. HIDE DEF uses, n
<1>3. DOMAIN uses = 1..n /\ uses = [i \in 1..n |-> uses[i]]
  BY <1>2
<1>4. IsVector(uses) /\ ToSet(uses) = {uses[i] : i \in 1..n}
  BY <1>1, <1>3, VectorOf
<1>5. \A atom \in ToSet(facts) : atom.predicate \in ToSet(uses)
  BY <1>1, <1>2, <1>4 DEF ToSet
<1>. QED  BY <1>4, <1>5 DEF uses

LEMMA FactsVector ==
  ASSUME NEW c, NEW facts, AreFacts(facts)
  PROVE  /\ IsVector(FactsToEmit(c, facts))
         /\ ToSet(FactsToEmit(c, facts)) = {atom \in facts : FactEmitted(c, atom)}
<1>1. IsFiniteSet({atom \in facts : FactEmitted(c, atom)})
  BY FS_Subset DEF AreFacts
<1>. QED  BY <1>1, OrderedVector DEF FactsToEmit

\* Predicates are met wherever a tuple will have their node.
PredicatesMet(c, lanes, uses) ==
  /\ \A atom \in lanes.static \cup lanes.facts : FactEmitted(c, atom) => atom.predicate \in uses
  /\ \A goal \in ToSet(ConsideredGoals(c, lanes)) :
       EmittedDerivations(c, Membership(lanes), goal.literal) # {} =>
         goal.literal.atom.predicate \in uses
  /\ \A x \in ToSet(SaidLiterals(c, lanes)) : x.literal.atom.predicate \in uses

LEMMA UsesMet ==
  ASSUME NEW c, NEW lanes, LanesReady(c, lanes)
  PROVE  IsVector(PredicateUses(c, lanes)) /\ PredicatesMet(c, lanes, ToSet(PredicateUses(c, lanes)))
<1>. DEFINE static == FactsToEmit(c, lanes.static)
            facts == FactsToEmit(c, lanes.facts)
            goals == ConsideredGoals(c, lanes)
            places == {i \in DOMAIN goals :
                         EmittedDerivations(c, Membership(lanes), goals[i].literal) # {}}
            chosen == EmittedGoals(c, lanes)
            said == SaidLiterals(c, lanes)
            first == FactPredicates(c, lanes)
            second == PredicatesIn(chosen)
            third == PredicatesIn(said)
            uses == PredicateUses(c, lanes)
<1>1. /\ IsVector(static) /\ ToSet(static) = {atom \in lanes.static : FactEmitted(c, atom)}
      /\ IsVector(facts) /\ ToSet(facts) = {atom \in lanes.facts : FactEmitted(c, atom)}
  BY FactsVector DEF LanesReady, AreLanes
<1>2. /\ IsVector(first)
      /\ \A atom \in ToSet(static) \cup ToSet(facts) : atom.predicate \in ToSet(first)
  <2>. HIDE DEF static, facts
  <2>1. IsVector(static \o facts) /\ ToSet(static \o facts) = ToSet(static) \cup ToSet(facts)
    BY <1>1, JoinedVectors
  <2>2. first = PredicatesOf(static \o facts)
    BY DEF FactPredicates, static, facts
  <2>. QED  BY <2>1, <2>2, PredicatesOfVector
<1>3. IsVector(goals)
  BY ConsideredAre DEF GoalsAre
<1>. HIDE DEF goals
<1>4. chosen = Chosen(goals, places)
  BY DEF EmittedGoals, goals
<1>5. IsVector(chosen) /\ ToSet(chosen) = {goals[n] : n \in places}
  <2>1. places \in SUBSET DOMAIN goals
    OBVIOUS
  <2>. HIDE DEF places
  <2>. QED  BY <1>3, <1>4, <2>1, ChosenVector
<1>6. IsVector(said)
  BY SaidAre
<1>. HIDE DEF chosen, said
<1>7. /\ IsVector(second)
      /\ \A goal \in ToSet(chosen) : goal.literal.atom.predicate \in ToSet(second)
      /\ IsVector(third)
      /\ \A x \in ToSet(said) : x.literal.atom.predicate \in ToSet(third)
  BY <1>5, <1>6, PredicatesInVector
<1>8. uses = (first \o second) \o third
  BY DEF PredicateUses, chosen, said
<1>. HIDE DEF first, second, third, uses
<1>9. IsVector(first \o second) /\ ToSet(first \o second) = ToSet(first) \cup ToSet(second)
  BY <1>2, <1>7, JoinedVectors
<1>10. IsVector(uses) /\ ToSet(uses) = (ToSet(first) \cup ToSet(second)) \cup ToSet(third)
  BY <1>7, <1>8, <1>9, JoinedVectors
<1>11. \A atom \in lanes.static \cup lanes.facts :
         FactEmitted(c, atom) => atom.predicate \in ToSet(uses)
  BY <1>1, <1>2, <1>10
<1>12. ASSUME NEW goal \in ToSet(goals),
              EmittedDerivations(c, Membership(lanes), goal.literal) # {}
       PROVE  goal.literal.atom.predicate \in ToSet(uses)
  <2>1. PICK i \in DOMAIN goals : goals[i] = goal
    BY DEF ToSet
  <2>2. i \in places
    BY <1>12, <2>1
  <2>3. goal \in ToSet(chosen)
    BY <1>5, <2>1, <2>2
  <2>. QED  BY <1>7, <1>10, <2>3
<1>13. \A x \in ToSet(said) : x.literal.atom.predicate \in ToSet(uses)
  BY <1>7, <1>10
<1>. QED  BY <1>10, <1>11, <1>12, <1>13 DEF PredicatesMet, goals, said, uses

\* The entity table has a row for whatever a tuple will refer to.
TableHolds(c, lanes, table) ==
  /\ \A o \in lanes.objects : ObjectRow(o) \in table
  /\ \A goal \in ToSet(ByCategory(lanes.goals)) :
       Kept(c, goal.literal.atom) /\ HasAnchor(c, LevelSource(goal.level)) =>
         GoalRow(goal.literal, goal.level) \in table
  /\ \A action \in ToSet(lanes.actions) : ActionRow(action) \in table
  /\ \A i \in DOMAIN RecentHistory(lanes) : HistoryRow(RecentHistory(lanes)[i].dt, i) \in table
  /\ HasAnchor(c, "history") =>
       \A x \in ToSet(SaidLiterals(c, lanes)) :
         HistoryTargetRow(x.dt, x.entry, x.literal) \in table
  /\ c.use_predicate_virtual_nodes =>
       \A p \in ToSet(PredicateUses(c, lanes)) : PredicateRow(p) \in table

LEMMA ObjectRowsVector ==
  ASSUME NEW objects, IsFiniteSet(objects)
  PROVE  /\ IsVector(ObjectRows(objects))
         /\ \A o \in objects : ObjectRow(o) \in ToSet(ObjectRows(objects))
<1>. DEFINE ordered == Ordered(objects)
            n == Len(ordered)
            rows == ObjectRows(objects)
<1>1. IsVector(ordered) /\ ToSet(ordered) = objects
  BY OrderedVector
<1>. HIDE DEF ordered
<1>2. n \in Nat /\ DOMAIN ordered = 1..n
  BY <1>1, VectorFacts
<1>3. rows = [i \in 1..n |-> ObjectRow(ordered[i])]
  BY <1>2 DEF ObjectRows, ordered
<1>. HIDE DEF rows, n
<1>4. DOMAIN rows = 1..n /\ rows = [i \in 1..n |-> rows[i]]
  BY <1>3
<1>5. IsVector(rows) /\ ToSet(rows) = {rows[i] : i \in 1..n}
  BY <1>2, <1>4, VectorOf
<1>6. \A o \in objects : \E i \in 1..n : ordered[i] = o
  BY <1>1, <1>2 DEF ToSet
<1>7. \A o \in objects : ObjectRow(o) \in ToSet(rows)
  BY <1>3, <1>5, <1>6
<1>. QED  BY <1>5, <1>7 DEF rows

LEMMA ActionRowsVector ==
  ASSUME NEW lanes, IsVector(lanes.actions)
  PROVE  /\ IsVector(ActionRows(lanes))
         /\ \A action \in ToSet(lanes.actions) : ActionRow(action) \in ToSet(ActionRows(lanes))
<1>. DEFINE actions == lanes.actions
            n == Len(actions)
            rows == ActionRows(lanes)
<1>1. n \in Nat /\ DOMAIN actions = 1..n
  BY VectorFacts
<1>2. rows = [i \in 1..n |-> ActionRow(actions[i])]
  BY <1>1 DEF ActionRows
<1>. HIDE DEF rows, n, actions
<1>3. DOMAIN rows = 1..n /\ rows = [i \in 1..n |-> rows[i]]
  BY <1>2
<1>4. IsVector(rows) /\ ToSet(rows) = {rows[i] : i \in 1..n}
  BY <1>1, <1>3, VectorOf
<1>5. \A action \in ToSet(actions) : ActionRow(action) \in ToSet(rows)
  BY <1>1, <1>2, <1>4 DEF ToSet
<1>. QED  BY <1>4, <1>5 DEF rows, actions

LEMMA HistoryRowsVector ==
  ASSUME NEW recent, IsVector(recent)
  PROVE  /\ IsVector(HistoryRows(recent))
         /\ \A i \in DOMAIN recent : HistoryRow(recent[i].dt, i) \in ToSet(HistoryRows(recent))
<1>. DEFINE n == Len(recent)
            rows == HistoryRows(recent)
<1>1. n \in Nat /\ DOMAIN recent = 1..n
  BY VectorFacts
<1>2. rows = [i \in 1..n |-> HistoryRow(recent[i].dt, i)]
  BY <1>1 DEF HistoryRows
<1>. HIDE DEF rows, n
<1>3. DOMAIN rows = 1..n /\ rows = [i \in 1..n |-> rows[i]]
  BY <1>2
<1>4. IsVector(rows) /\ ToSet(rows) = {rows[i] : i \in 1..n}
  BY <1>1, <1>3, VectorOf
<1>5. \A i \in 1..n : HistoryRow(recent[i].dt, i) \in ToSet(rows)
  BY <1>2, <1>4
<1>. QED  BY <1>1, <1>4, <1>5 DEF rows

LEMMA TargetRowsVector ==
  ASSUME NEW c, NEW said, IsVector(said)
  PROVE  /\ IsVector(HistoryTargetRows(c, said))
         /\ HasAnchor(c, "history") =>
              \A x \in ToSet(said) :
                HistoryTargetRow(x.dt, x.entry, x.literal) \in ToSet(HistoryTargetRows(c, said))
<1>1. CASE ~HasAnchor(c, "history")
  <2>1. HistoryTargetRows(c, said) = <<>>
    BY <1>1 DEF HistoryTargetRows
  <2>. QED  BY <1>1, <2>1, EmptyVector
<1>2. CASE HasAnchor(c, "history")
  <2>. DEFINE n == Len(said)
              rows == HistoryTargetRows(c, said)
  <2>1. n \in Nat /\ DOMAIN said = 1..n
    BY VectorFacts
  <2>2. rows = [i \in 1..n |-> HistoryTargetRow(said[i].dt, said[i].entry, said[i].literal)]
    BY <1>2, <2>1 DEF HistoryTargetRows
  <2>. HIDE DEF rows, n
  <2>3. DOMAIN rows = 1..n /\ rows = [i \in 1..n |-> rows[i]]
    BY <2>2
  <2>4. IsVector(rows) /\ ToSet(rows) = {rows[i] : i \in 1..n}
    BY <2>1, <2>3, VectorOf
  <2>5. \A x \in ToSet(said) : HistoryTargetRow(x.dt, x.entry, x.literal) \in ToSet(rows)
    BY <2>1, <2>2, <2>4 DEF ToSet
  <2>. QED  BY <2>4, <2>5 DEF rows
<1>. QED  BY <1>1, <1>2

LEMMA PredicateRowsVector ==
  ASSUME NEW c, NEW uses, IsVector(uses)
  PROVE  /\ IsVector(PredicateRows(c, uses))
         /\ c.use_predicate_virtual_nodes =>
              \A p \in ToSet(uses) : PredicateRow(p) \in ToSet(PredicateRows(c, uses))
<1>1. CASE ~c.use_predicate_virtual_nodes
  <2>1. PredicateRows(c, uses) = <<>>
    BY <1>1 DEF PredicateRows
  <2>. QED  BY <1>1, <2>1, EmptyVector
<1>2. CASE c.use_predicate_virtual_nodes
  <2>. DEFINE n == Len(uses)
              rows == PredicateRows(c, uses)
  <2>1. n \in Nat /\ DOMAIN uses = 1..n
    BY VectorFacts
  <2>2. rows = [i \in 1..n |-> PredicateRow(uses[i])]
    BY <1>2, <2>1 DEF PredicateRows
  <2>. HIDE DEF rows, n
  <2>3. DOMAIN rows = 1..n /\ rows = [i \in 1..n |-> rows[i]]
    BY <2>2
  <2>4. IsVector(rows) /\ ToSet(rows) = {rows[i] : i \in 1..n}
    BY <2>1, <2>3, VectorOf
  <2>5. \A p \in ToSet(uses) : PredicateRow(p) \in ToSet(rows)
    BY <2>1, <2>2, <2>4 DEF ToSet
  <2>. QED  BY <2>4, <2>5 DEF rows
<1>. QED  BY <1>1, <1>2

LEMMA EntitiesHold ==
  ASSUME NEW c, NEW lanes, LanesReady(c, lanes)
  PROVE  IsVector(Entities(c, lanes)) /\ TableHolds(c, lanes, ToSet(Entities(c, lanes)))
<1>. DEFINE r1 == ObjectRows(lanes.objects)
            r2 == GoalRows(c, lanes)
            r3 == ActionRows(lanes)
            r4 == HistoryRows(RecentHistory(lanes))
            r5 == HistoryTargetRows(c, SaidLiterals(c, lanes))
            r6 == PredicateRows(c, PredicateUses(c, lanes))
            table == Entities(c, lanes)
<1>1. /\ IsVector(r1)
      /\ \A o \in lanes.objects : ObjectRow(o) \in ToSet(r1)
  BY ObjectRowsVector DEF LanesReady, AreLanes
<1>2. /\ IsVector(r2)
      /\ \A goal \in ToSet(ByCategory(lanes.goals)) :
           Kept(c, goal.literal.atom) /\ HasAnchor(c, LevelSource(goal.level)) =>
             GoalRow(goal.literal, goal.level) \in ToSet(r2)
  BY AnchoredAre
<1>3. /\ IsVector(r3)
      /\ \A action \in ToSet(lanes.actions) : ActionRow(action) \in ToSet(r3)
  BY ActionRowsVector DEF LanesReady, AreLanes, AreActions
<1>4. /\ IsVector(r4)
      /\ \A i \in DOMAIN RecentHistory(lanes) : HistoryRow(RecentHistory(lanes)[i].dt, i) \in ToSet(r4)
  BY RecentFits, HistoryRowsVector DEF RecentAre
<1>5. /\ IsVector(r5)
      /\ HasAnchor(c, "history") =>
           \A x \in ToSet(SaidLiterals(c, lanes)) :
             HistoryTargetRow(x.dt, x.entry, x.literal) \in ToSet(r5)
  BY SaidAre, TargetRowsVector
<1>6. /\ IsVector(r6)
      /\ c.use_predicate_virtual_nodes =>
           \A p \in ToSet(PredicateUses(c, lanes)) : PredicateRow(p) \in ToSet(r6)
  BY UsesMet, PredicateRowsVector
<1>7. table = PoolOf(((((r1 \o r2) \o r3) \o r4) \o r5) \o r6)
  BY DEF Entities
<1>. HIDE DEF r1, r2, r3, r4, r5, r6, table
<1>. DEFINE s2 == r1 \o r2
            s3 == s2 \o r3
            s4 == s3 \o r4
            s5 == s4 \o r5
            s6 == s5 \o r6
<1>8. IsVector(s2) /\ ToSet(s2) = ToSet(r1) \cup ToSet(r2)
  BY <1>1, <1>2, JoinedVectors
<1>. HIDE DEF s2
<1>9. IsVector(s3) /\ ToSet(s3) = ToSet(s2) \cup ToSet(r3)
  BY <1>8, <1>3, JoinedVectors
<1>. HIDE DEF s3
<1>10. IsVector(s4) /\ ToSet(s4) = ToSet(s3) \cup ToSet(r4)
  BY <1>9, <1>4, JoinedVectors
<1>. HIDE DEF s4
<1>11. IsVector(s5) /\ ToSet(s5) = ToSet(s4) \cup ToSet(r5)
  BY <1>10, <1>5, JoinedVectors
<1>. HIDE DEF s5
<1>12. IsVector(s6) /\ ToSet(s6) = ToSet(s5) \cup ToSet(r6)
  BY <1>11, <1>6, JoinedVectors
<1>13. table = PoolOf(s6)
  BY <1>7 DEF s2, s3, s4, s5
<1>. HIDE DEF s6
<1>14. IsVector(table) /\ ToSet(table) = ToSet(s6)
  BY <1>12, <1>13, PoolVector
<1>15. ToSet(table) = ToSet(r1) \cup ToSet(r2) \cup ToSet(r3) \cup ToSet(r4) \cup ToSet(r5)
                        \cup ToSet(r6)
  BY <1>8, <1>9, <1>10, <1>11, <1>12, <1>14
<1>16. TableHolds(c, lanes, ToSet(table))
  BY <1>1, <1>2, <1>3, <1>4, <1>5, <1>6, <1>15 DEF TableHolds
<1>. QED  BY <1>14, <1>16 DEF table
-----------------------------------------------------------------------------
(***************************************************************************)
(* What an encoder emits.  A tuple fits when the schema has its relation   *)
(* with its arity, and its arguments are rows of the table.                *)
(***************************************************************************)
TupleReady(c, table, tuple) ==
  RowAccepted(FlatSchema(c), tuple) /\ tuple.args \in Seq(table)

LEMMA ArgumentRowsFit ==
  ASSUME NEW arguments, IsVector(arguments), NEW table,
         \A o \in ToSet(arguments) : ObjectRow(o) \in table
  PROVE  ArgumentRows(arguments) \in Seq(table) /\ Len(ArgumentRows(arguments)) = Len(arguments)
<1>1. /\ Len(arguments) \in Nat /\ DOMAIN arguments = 1..Len(arguments)
      /\ \A i \in 1..Len(arguments) : arguments[i] \in ToSet(arguments)
  BY VectorFacts
<1>2. ArgumentRows(arguments) \in [1..Len(arguments) -> table]
  BY <1>1 DEF ArgumentRows
<1>. QED  BY <1>1, <1>2, SeqOfLength

\* build_flat_tuple_args: as many entities as the layout has slots.
LEMMA AtomRowFits ==
  ASSUME NEW c, c.use_predicate_virtual_nodes \in BOOLEAN,
         NEW lanes, NEW table, \A o \in lanes.objects : ObjectRow(o) \in table,
         NEW key, NEW atom, ValidAtom(lanes, atom), IsVector(atom.arguments),
         c.use_predicate_virtual_nodes => PredicateRow(atom.predicate) \in table,
         NEW auxiliary \in Seq(table), NEW slots, Len(slots) = Len(auxiliary)
  PROVE  /\ AtomRow(c, key, atom, auxiliary).key = key
         /\ AtomRow(c, key, atom, auxiliary).args \in Seq(table)
         /\ Len(AtomRow(c, key, atom, auxiliary).args)
              = EncodedArity(Layout(slots, c.use_predicate_virtual_nodes, Arity[atom.predicate]))
<1>. DEFINE node == IF c.use_predicate_virtual_nodes THEN <<PredicateRow(atom.predicate)>> ELSE <<>>
            arguments == ArgumentRows(atom.arguments)
            args == Tuple(auxiliary, node, arguments)
<1>1. /\ arguments \in Seq(table) /\ Len(arguments) = Arity[atom.predicate]
      /\ Arity[atom.predicate] \in Nat
  <2>1. Len(atom.arguments) = Arity[atom.predicate] /\ ToSet(atom.arguments) \subseteq lanes.objects
        /\ atom.predicate \in Predicates
    BY DEF ValidAtom
  <2>2. Arity[atom.predicate] \in Nat
    BY <2>1, SchemaAssumption
  <2>. QED  BY <2>1, <2>2, ArgumentRowsFit
<1>2. node \in Seq(table) /\ Len(node) = IF c.use_predicate_virtual_nodes THEN 1 ELSE 0
  <2>1. CASE c.use_predicate_virtual_nodes
    <3>1. node = <<PredicateRow(atom.predicate)>> /\ PredicateRow(atom.predicate) \in table
      BY <2>1
    <3>. QED  BY <2>1, <3>1
  <2>2. CASE ~c.use_predicate_virtual_nodes
    BY <2>2
  <2>. QED  BY <2>1, <2>2
<1>. HIDE DEF node, arguments
<1>3. /\ auxiliary \o node \in Seq(table)
      /\ Len(auxiliary \o node) = Len(auxiliary) + Len(node)
  BY <1>2, ConcatProperties
<1>4. /\ args \in Seq(table)
      /\ Len(args) = (Len(auxiliary) + Len(node)) + Len(arguments)
  <2>1. args = (auxiliary \o node) \o arguments
    BY DEF Tuple
  <2>. HIDE DEF args
  <2>. QED  BY <1>1, <1>3, <2>1, ConcatProperties
<1>5. Len(args) = EncodedArity(Layout(slots, c.use_predicate_virtual_nodes, Arity[atom.predicate]))
  <2>1. EncodedArity(Layout(slots, c.use_predicate_virtual_nodes, Arity[atom.predicate]))
          = Len(slots) + (IF c.use_predicate_virtual_nodes THEN 1 ELSE 0) + Arity[atom.predicate]
    BY DEF EncodedArity, Layout
  <2>2. Len(auxiliary) \in Nat
    BY LenProperties
  <2>. HIDE DEF args
  <2>. QED  BY <1>1, <1>2, <1>4, <2>1, <2>2
<1>6. AtomRow(c, key, atom, auxiliary) = [key |-> key, args |-> args]
  BY DEF AtomRow, Row, node, arguments
<1>. HIDE DEF args
<1>. QED  BY <1>4, <1>5, <1>6

\* A tuple of an atom under a key that the schema has with these slots.
HasEntry(c, key, slots, p) ==
  \E e \in FlatSchema(c) :
    e.key = key /\ e.layout = Layout(slots, c.use_predicate_virtual_nodes, Arity[p])

LEMMA AtomRowReady ==
  ASSUME NEW c, c.use_predicate_virtual_nodes \in BOOLEAN,
         NEW lanes, NEW table, \A o \in lanes.objects : ObjectRow(o) \in table,
         NEW key, NEW atom, ValidAtom(lanes, atom), IsVector(atom.arguments),
         c.use_predicate_virtual_nodes => PredicateRow(atom.predicate) \in table,
         NEW auxiliary \in Seq(table), NEW slots, Len(slots) = Len(auxiliary),
         HasEntry(c, key, slots, atom.predicate)
  PROVE  TupleReady(c, table, AtomRow(c, key, atom, auxiliary))
<1>. DEFINE tuple == AtomRow(c, key, atom, auxiliary)
            layout == Layout(slots, c.use_predicate_virtual_nodes, Arity[atom.predicate])
<1>1. tuple.key = key /\ tuple.args \in Seq(table) /\ Len(tuple.args) = EncodedArity(layout)
  BY AtomRowFits
<1>. HIDE DEF tuple, layout
<1>2. PICK e \in FlatSchema(c) : e.key = key /\ e.layout = layout
  BY DEF HasEntry, layout
<1>3. RowAccepted(FlatSchema(c), tuple)
  BY <1>1, <1>2 DEF RowAccepted
<1>. QED  BY <1>1, <1>3 DEF TupleReady, tuple

-----------------------------------------------------------------------------
(***************************************************************************)
(* The schema has an entry for each kind of tuple.                         *)
(***************************************************************************)
LEMMA EntryMade ==
  ASSUME NEW c, NEW keyed, NEW slots, NEW usage, NEW key, NEW p, <<key, p>> \in keyed,
         Entries(c, keyed, slots, usage) \subseteq FlatSchema(c)
  PROVE  HasEntry(c, key, slots, p)
<1>. DEFINE e == [key    |-> key,
                  layout |-> Layout(slots, c.use_predicate_virtual_nodes, Arity[p]),
                  usage  |-> usage]
<1>1. e \in Entries(c, keyed, slots, usage)
  <2>1. <<key, p>>[1] = key /\ <<key, p>>[2] = p
    OBVIOUS
  <2>. QED  BY <2>1 DEF Entries
<1>. QED  BY <1>1 DEF HasEntry

LEMMA StateInSchema ==
  ASSUME NEW c, NEW p \in Predicates, ~Ignored(c, Arity[p])
  PROVE  HasEntry(c, StateRelation(p), <<>>, p)
<1>. DEFINE kept == {q \in Predicates : ~Ignored(c, Arity[q])}
            keyed == StateKeys(kept)
<1>1. <<StateRelation(p), p>> \in keyed
  BY DEF StateKeys
<1>2. Entries(c, keyed, <<>>, "state") \subseteq FlatSchema(c)
  <2>. HIDE DEF keyed
  <2>. QED  BY DEF FlatSchema, keyed
<1>. HIDE DEF keyed
<1>. QED  BY <1>1, <1>2, EntryMade

LEMMA HistoryInSchema ==
  ASSUME NEW c, NEW p \in Predicates, ~Ignored(c, Arity[p]), NEW positive \in BOOLEAN
  PROVE  HasEntry(c, HistoryRelation(p, positive), HistorySlots(c), p)
<1>. DEFINE kept == {q \in Predicates : ~Ignored(c, Arity[q])}
            keyed == HistoryKeys(kept)
<1>1. <<HistoryRelation(p, positive), p>> \in keyed
  BY DEF HistoryKeys
<1>2. Entries(c, keyed, HistorySlots(c), "history") \subseteq FlatSchema(c)
  <2>. HIDE DEF keyed
  <2>. QED  BY DEF FlatSchema, keyed
<1>. HIDE DEF keyed
<1>. QED  BY <1>1, <1>2, EntryMade

LEMMA GoalInSchema ==
  ASSUME NEW c, NEW p \in Predicates, ~Ignored(c, Arity[p]), p \notin TopTypes,
         NEW positive \in BOOLEAN, NEW level \in GoalLevels(c), "plain" \in c.derivations
  PROVE  HasEntry(c, GoalOf(p, positive, level, ""), GoalSlots(c, level), p)
<1>. DEFINE regular == {q \in Predicates : ~Ignored(c, Arity[q])} \ TopTypes
            keyed == GoalKeys(regular, level, "")
<1>1. <<GoalOf(p, positive, level, ""), p>> \in keyed
  <2>. DEFINE none == ""
  <2>1. p \in regular
    OBVIOUS
  <2>. HIDE DEF regular, none
  <2>2. <<GoalOf(p, positive, level, none), p>> \in GoalKeys(regular, level, none)
    BY <2>1 DEF GoalKeys
  <2>. QED  BY <2>2 DEF none
<1>2. Entries(c, keyed, GoalSlots(c, level), "goal") \subseteq FlatSchema(c)
  <2>1. Entries(c, keyed, GoalSlots(c, level), "goal")
          \subseteq UNION {Entries(c, GoalKeys(regular, l, ""), GoalSlots(c, l), "goal") :
                             l \in GoalLevels(c)}
    OBVIOUS
  <2>. HIDE DEF keyed
  <2>. QED  BY <2>1 DEF FlatSchema
<1>. HIDE DEF keyed
<1>. QED  BY <1>1, <1>2, EntryMade

LEMMA DerivationInSchema ==
  ASSUME NEW c, NEW p \in Predicates, ~Ignored(c, Arity[p]), p \notin TopTypes,
         NEW positive \in BOOLEAN, NEW level \in GoalLevels(c),
         NEW derivation \in c.derivations \ {"plain"}
  PROVE  HasEntry(c, GoalOf(p, positive, level, derivation), <<>>, p)
<1>. DEFINE regular == {q \in Predicates : ~Ignored(c, Arity[q])} \ TopTypes
            derived(d) == (UNION {GoalKeys(regular, l, d) : l \in GoalLevels(c)})
                            \cup LiteralKeys(c, regular, d)
            keyed == derived(derivation)
<1>1. <<GoalOf(p, positive, level, derivation), p>> \in keyed
  <2>1. p \in regular
    OBVIOUS
  <2>. HIDE DEF regular
  <2>2. <<GoalOf(p, positive, level, derivation), p>> \in GoalKeys(regular, level, derivation)
    BY <2>1 DEF GoalKeys
  <2>. QED  BY <2>2
<1>2. Entries(c, keyed, <<>>, "goal_derivation") \subseteq FlatSchema(c)
  <2>1. Entries(c, keyed, <<>>, "goal_derivation")
          \subseteq UNION {Entries(c, derived(d), <<>>, "goal_derivation") :
                             d \in c.derivations \ {"plain"}}
    <3>. HIDE DEF derived
    <3>. QED  OBVIOUS
  <2>. HIDE DEF keyed
  <2>. QED  BY <2>1 DEF FlatSchema
<1>. HIDE DEF keyed
<1>. QED  BY <1>1, <1>2, EntryMade

LEMMA ActionInSchema ==
  ASSUME NEW c, NEW schema \in Schemas
  PROVE  \E e \in FlatSchema(c) :
           /\ e.key = ActionRelation(schema)
           /\ e.layout = Layout(<<"action">>, FALSE, SchemaArity[schema])
<1>. DEFINE e == [key    |-> ActionRelation(schema),
                  layout |-> Layout(<<"action">>, FALSE, SchemaArity[schema]),
                  usage  |-> "action"]
<1>1. e \in ActionEntriesOf("action")
  BY DEF ActionEntriesOf
<1>2. ActionEntriesOf("action") \subseteq FlatSchema(c)
  BY DEF FlatSchema
<1>3. e.key = ActionRelation(schema) /\ e.layout = Layout(<<"action">>, FALSE, SchemaArity[schema])
  OBVIOUS
<1>. HIDE DEF e
<1>. QED  BY <1>1, <1>2, <1>3

-----------------------------------------------------------------------------
(***************************************************************************)
(* The tuples, lane after lane.                                            *)
(***************************************************************************)
TuplesReady(c, table, tuples) ==
  IsVector(tuples) /\ \A tuple \in ToSet(tuples) : TupleReady(c, table, tuple)

TableReady(c, lanes, table) ==
  /\ LanesReady(c, lanes) /\ TableHolds(c, lanes, table)
  /\ c.use_predicate_virtual_nodes \in BOOLEAN

LEMMA FactTuplesFit ==
  ASSUME NEW c, NEW lanes, NEW table, TableReady(c, lanes, table),
         NEW facts, AreFacts(facts), facts \subseteq lanes.static \cup lanes.facts
  PROVE  TuplesReady(c, table, FactTuples(c, facts))
<1>. DEFINE emitted == FactsToEmit(c, facts)
            n == Len(emitted)
            tuples == FactTuples(c, facts)
<1>1. IsVector(emitted) /\ ToSet(emitted) = {atom \in facts : FactEmitted(c, atom)}
  BY FactsVector
<1>2. n \in Nat /\ DOMAIN emitted = 1..n /\ \A i \in 1..n : emitted[i] \in ToSet(emitted)
  BY <1>1, VectorFacts
<1>3. tuples = [i \in 1..n |->
                  AtomRow(c, StateRelation(emitted[i].predicate), emitted[i], <<>>)]
  BY <1>2 DEF FactTuples
<1>4. ASSUME NEW atom \in ToSet(emitted)
      PROVE  TupleReady(c, table, AtomRow(c, StateRelation(atom.predicate), atom, <<>>))
  <2>1. atom \in lanes.static \cup lanes.facts /\ FactEmitted(c, atom) /\ IsVector(atom.arguments)
    BY <1>1 DEF AreFacts, IsAtom
  <2>2. ValidAtom(lanes, atom)
    BY <2>1 DEF TableReady, LanesReady, ValidLanes
  <2>3. ~Ignored(c, Arity[atom.predicate])
    BY <2>1 DEF FactEmitted, Kept
  <2>4. atom.predicate \in Predicates
    BY <2>2 DEF ValidAtom
  <2>5. HasEntry(c, StateRelation(atom.predicate), <<>>, atom.predicate)
    BY <2>3, <2>4, StateInSchema
  <2>6. /\ c.use_predicate_virtual_nodes \in BOOLEAN
        /\ \A o \in lanes.objects : ObjectRow(o) \in table
    BY DEF TableReady, TableHolds
  <2>7. c.use_predicate_virtual_nodes => PredicateRow(atom.predicate) \in table
    <3>1. atom.predicate \in ToSet(PredicateUses(c, lanes))
      BY <2>1, UsesMet DEF TableReady, PredicatesMet
    <3>. QED  BY <3>1 DEF TableReady, TableHolds
  <2>. DEFINE none == <<>>
              key == StateRelation(atom.predicate)
  <2>8. none \in Seq(table) /\ Len(none) = Len(none) /\ HasEntry(c, key, none, atom.predicate)
    BY <2>5
  <2>. HIDE DEF none, key
  <2>9. TupleReady(c, table, AtomRow(c, key, atom, none))
    BY <2>1, <2>2, <2>6, <2>7, <2>8, AtomRowReady
  <2>. QED  BY <2>9 DEF none, key
<1>. HIDE DEF tuples, emitted, n
<1>5. DOMAIN tuples = 1..n /\ tuples = [i \in 1..n |-> tuples[i]]
  BY <1>3
<1>6. IsVector(tuples) /\ ToSet(tuples) = {tuples[i] : i \in 1..n}
  BY <1>2, <1>5, VectorOf
<1>7. \A i \in 1..n : TupleReady(c, table, tuples[i])
  BY <1>2, <1>3, <1>4
<1>. QED  BY <1>6, <1>7 DEF TuplesReady, tuples

LEMMA JoinedTuples ==
  ASSUME NEW c, NEW table, NEW s, NEW t, TuplesReady(c, table, s), TuplesReady(c, table, t)
  PROVE  TuplesReady(c, table, s \o t)
<1>1. IsVector(s \o t) /\ ToSet(s \o t) = ToSet(s) \cup ToSet(t)
  BY JoinedVectors DEF TuplesReady
<1>. QED  BY <1>1 DEF TuplesReady

\* The goals that are emitted: what is known of one.
GoalMet(c, lanes, goal) ==
  /\ GoalIs(lanes, goal) /\ GoalConsidered(c, goal.literal)
  /\ goal \in ToSet(ByCategory(lanes.goals))

LEMMA GoalKnown ==
  ASSUME NEW c, NEW lanes, LanesReady(c, lanes), NEW goal, GoalMet(c, lanes, goal)
  PROVE  /\ ValidAtom(lanes, goal.literal.atom) /\ IsVector(goal.literal.atom.arguments)
         /\ goal.literal.positive \in BOOLEAN /\ goal.level \in GoalLevels(c)
         /\ goal.literal.atom.predicate \in Predicates \ TopTypes
         /\ ~Ignored(c, Arity[goal.literal.atom.predicate])
<1>1. lanes.layers <= c.max_goal_level /\ c.max_goal_level \in Nat /\ lanes.layers \in Nat
  BY DEF LanesReady, AreLanes
<1>2. goal.level \in 0..lanes.layers
  BY DEF GoalMet, GoalIs
<1>3. goal.level \in GoalLevels(c)
  BY <1>1, <1>2 DEF GoalLevels
<1>. QED  BY <1>3 DEF GoalMet, GoalIs, IsLiteral, IsAtom, GoalConsidered, Kept, ValidAtom

LEMMA PlainGoalFits ==
  ASSUME NEW c, NEW lanes, NEW table, TableReady(c, lanes, table),
         NEW goal, GoalMet(c, lanes, goal),
         c.use_predicate_virtual_nodes => PredicateRow(goal.literal.atom.predicate) \in table,
         "plain" \in c.derivations
  PROVE  TupleReady(c, table, PlainGoal(c, goal))
<1>. DEFINE atom == goal.literal.atom
            p == atom.predicate
            positive == goal.literal.positive
            level == goal.level
            auxiliary == IF HasAnchor(c, LevelSource(level))
                         THEN <<GoalRow(goal.literal, level)>> ELSE <<>>
            slots == GoalSlots(c, level)
            key == GoalOf(p, positive, level, "")
<1>1. /\ ValidAtom(lanes, atom) /\ IsVector(atom.arguments) /\ positive \in BOOLEAN
      /\ level \in GoalLevels(c) /\ p \in Predicates /\ p \notin TopTypes /\ ~Ignored(c, Arity[p])
  BY GoalKnown DEF TableReady
<1>2. auxiliary \in Seq(table) /\ Len(slots) = Len(auxiliary)
  <2>1. CASE HasAnchor(c, LevelSource(level))
    <3>1. GoalRow(goal.literal, level) \in table
      BY <2>1 DEF TableReady, TableHolds, GoalMet, GoalConsidered
    <3>2. auxiliary = <<GoalRow(goal.literal, level)>> /\ slots = <<SlotOf(LevelSource(level))>>
      BY <2>1 DEF GoalSlots
    <3>. QED  BY <3>1, <3>2
  <2>2. CASE ~HasAnchor(c, LevelSource(level))
    <3>1. auxiliary = <<>> /\ slots = <<>>
      BY <2>2 DEF GoalSlots
    <3>. QED  BY <3>1
  <2>. QED  BY <2>1, <2>2
<1>3. PlainGoal(c, goal) = AtomRow(c, key, atom, auxiliary)
  BY DEF PlainGoal, GoalOf, GoalRelation, Literal, Atom
<1>4. /\ c.use_predicate_virtual_nodes \in BOOLEAN
      /\ \A o \in lanes.objects : ObjectRow(o) \in table
      /\ c.use_predicate_virtual_nodes => PredicateRow(p) \in table
  BY DEF TableReady, TableHolds
<1>. HIDE DEF positive, level
<1>5. HasEntry(c, key, slots, p)
  <2>. HIDE DEF p
  <2>. QED  BY <1>1, GoalInSchema
<1>. HIDE DEF auxiliary, slots, key
<1>. QED  BY <1>1, <1>2, <1>3, <1>4, <1>5, AtomRowReady

LEMMA DerivedGoalFits ==
  ASSUME NEW c, NEW lanes, NEW table, TableReady(c, lanes, table),
         NEW goal, GoalMet(c, lanes, goal),
         c.use_predicate_virtual_nodes => PredicateRow(goal.literal.atom.predicate) \in table,
         NEW derivation \in c.derivations \ {"plain"}
  PROVE  TupleReady(c, table, DerivedGoal(c, goal, derivation))
<1>. DEFINE atom == goal.literal.atom
            p == atom.predicate
            positive == goal.literal.positive
            level == goal.level
            none == <<>>
            key == GoalOf(p, positive, level, derivation)
<1>1. /\ ValidAtom(lanes, atom) /\ IsVector(atom.arguments) /\ positive \in BOOLEAN
      /\ level \in GoalLevels(c) /\ p \in Predicates /\ p \notin TopTypes /\ ~Ignored(c, Arity[p])
  BY GoalKnown DEF TableReady
<1>2. none \in Seq(table) /\ Len(none) = Len(none)
  OBVIOUS
<1>3. DerivedGoal(c, goal, derivation) = AtomRow(c, key, atom, none)
  BY DEF DerivedGoal, GoalOf, GoalRelation, Literal, Atom
<1>4. /\ c.use_predicate_virtual_nodes \in BOOLEAN
      /\ \A o \in lanes.objects : ObjectRow(o) \in table
      /\ c.use_predicate_virtual_nodes => PredicateRow(p) \in table
  BY DEF TableReady, TableHolds
<1>. HIDE DEF positive, level
<1>5. HasEntry(c, key, none, p)
  <2>. HIDE DEF p
  <2>. QED  BY <1>1, DerivationInSchema
<1>. HIDE DEF none, key
<1>. QED  BY <1>1, <1>2, <1>3, <1>4, <1>5, AtomRowReady

LEMMA GoalTuplesOfFit ==
  ASSUME NEW c, NEW lanes, NEW table, TableReady(c, lanes, table),
         NEW goal, GoalMet(c, lanes, goal),
         NEW emitted, emitted \subseteq c.derivations, IsFiniteSet(emitted),
         emitted # {} /\ c.use_predicate_virtual_nodes =>
           PredicateRow(goal.literal.atom.predicate) \in table
  PROVE  TuplesReady(c, table, GoalTuplesOf(c, goal, emitted))
<1>. DEFINE others == Ordered(emitted \ {"plain"})
            n == Len(others)
            plain == IF "plain" \in emitted THEN <<PlainGoal(c, goal)>> ELSE <<>>
            derived == [k \in DOMAIN others |-> DerivedGoal(c, goal, others[k])]
<1>1. IsVector(others) /\ ToSet(others) = emitted \ {"plain"}
  <2>1. IsFiniteSet(emitted \ {"plain"})
    BY FS_Subset
  <2>. QED  BY <2>1, OrderedVector
<1>2. n \in Nat /\ DOMAIN others = 1..n /\ \A k \in 1..n : others[k] \in ToSet(others)
  BY <1>1, VectorFacts
<1>. HIDE DEF others, n
<1>3. TuplesReady(c, table, plain)
  <2>1. CASE "plain" \in emitted
    <3>1. plain = <<PlainGoal(c, goal)>>
      BY <2>1
    <3>2. TupleReady(c, table, PlainGoal(c, goal))
      BY <2>1, PlainGoalFits
    <3>. HIDE DEF plain
    <3>. QED  BY <3>1, <3>2, OneVector DEF TuplesReady
  <2>2. CASE "plain" \notin emitted
    <3>1. plain = <<>>
      BY <2>2
    <3>. HIDE DEF plain
    <3>. QED  BY <3>1, EmptyVector DEF TuplesReady
  <2>. QED  BY <2>1, <2>2
<1>4. TuplesReady(c, table, derived)
  <2>1. \A k \in 1..n : TupleReady(c, table, DerivedGoal(c, goal, others[k]))
    <3>1. ASSUME NEW k \in 1..n
          PROVE  TupleReady(c, table, DerivedGoal(c, goal, others[k]))
      <4>. DEFINE derivation == others[k]
      <4>1. derivation \in c.derivations \ {"plain"} /\ emitted # {}
        BY <1>1, <1>2
      <4>. HIDE DEF derivation
      <4>2. TupleReady(c, table, DerivedGoal(c, goal, derivation))
        BY <4>1, DerivedGoalFits
      <4>. QED  BY <4>2 DEF derivation
    <3>. QED  BY <3>1
  <2>2. derived = [k \in 1..n |-> DerivedGoal(c, goal, others[k])]
    BY <1>2
  <2>. HIDE DEF derived
  <2>3. DOMAIN derived = 1..n /\ derived = [k \in 1..n |-> derived[k]]
    BY <2>2
  <2>4. IsVector(derived) /\ ToSet(derived) = {derived[k] : k \in 1..n}
    BY <1>2, <2>3, VectorOf
  <2>. QED  BY <2>1, <2>2, <2>4 DEF TuplesReady
<1>5. GoalTuplesOf(c, goal, emitted) = plain \o derived
  BY DEF GoalTuplesOf, others
<1>. HIDE DEF plain, derived
<1>. QED  BY <1>3, <1>4, <1>5, JoinedTuples

LEMMA FlattenedTuples ==
  ASSUME NEW c, NEW table, NEW n \in Nat, NEW parts, DOMAIN parts = 1..n,
         parts = [i \in 1..n |-> parts[i]],
         \A i \in 1..n : TuplesReady(c, table, parts[i])
  PROVE  TuplesReady(c, table, FlattenSeq(parts))
<1>1. /\ IsVector(FlattenSeq(parts))
      /\ ToSet(FlattenSeq(parts)) = UNION {ToSet(parts[i]) : i \in 1..n}
  BY FlattenedVectors DEF TuplesReady
<1>. QED  BY <1>1 DEF TuplesReady

LEMMA GoalTuplesFit ==
  ASSUME NEW c, NEW lanes, NEW table, TableReady(c, lanes, table)
  PROVE  TuplesReady(c, table, GoalTuples(c, lanes))
<1>. DEFINE goals == ConsideredGoals(c, lanes)
            n == Len(goals)
            facts == Membership(lanes)
            parts == [i \in 1..n |->
                        GoalTuplesOf(c, goals[i], EmittedDerivations(c, facts, goals[i].literal))]
<1>1. /\ GoalsAre(lanes, goals) /\ ToSet(goals) \subseteq ToSet(ByCategory(lanes.goals))
      /\ \A goal \in ToSet(goals) : GoalConsidered(c, goal.literal)
  BY ConsideredAre DEF TableReady
<1>2. n \in Nat /\ DOMAIN goals = 1..n /\ \A i \in 1..n : goals[i] \in ToSet(goals)
  BY <1>1, VectorFacts DEF GoalsAre
<1>3. ASSUME NEW goal \in ToSet(goals)
      PROVE  TuplesReady(c, table,
               GoalTuplesOf(c, goal, EmittedDerivations(c, facts, goal.literal)))
  <2>. DEFINE emitted == EmittedDerivations(c, facts, goal.literal)
  <2>1. emitted \subseteq c.derivations /\ IsFiniteSet(emitted)
    <3>. DEFINE own == {} \cup {"plain"} \cup {"[sat]"} \cup {"[unsat]"}
    <3>1. emitted \subseteq own /\ emitted \subseteq c.derivations
      BY DEF EmittedDerivations
    <3>2. IsFiniteSet(own)
      BY FS_EmptySet, FS_AddElement
    <3>. HIDE DEF emitted, own
    <3>. QED  BY <3>1, <3>2, FS_Subset
  <2>2. GoalMet(c, lanes, goal)
    BY <1>1 DEF GoalMet, GoalsAre
  <2>3. emitted # {} /\ c.use_predicate_virtual_nodes =>
          PredicateRow(goal.literal.atom.predicate) \in table
    BY UsesMet DEF TableReady, TableHolds, PredicatesMet
  <2>. HIDE DEF emitted
  <2>4. TuplesReady(c, table, GoalTuplesOf(c, goal, emitted))
    BY <2>1, <2>2, <2>3, GoalTuplesOfFit
  <2>. QED  BY <2>4 DEF emitted
<1>4. GoalTuples(c, lanes) = FlattenSeq(parts)
  BY <1>2 DEF GoalTuples
<1>. HIDE DEF goals, n, facts
<1>5. \A i \in 1..n : TuplesReady(c, table, parts[i])
  BY <1>2, <1>3
<1>6. DOMAIN parts = 1..n /\ parts = [i \in 1..n |-> parts[i]]
  OBVIOUS
<1>. HIDE DEF parts
<1>. QED  BY <1>2, <1>4, <1>5, <1>6, FlattenedTuples

LEMMA ActionTuplesFit ==
  ASSUME NEW c, NEW lanes, NEW table, TableReady(c, lanes, table)
  PROVE  TuplesReady(c, table, ActionTuples(lanes))
<1>. DEFINE unique == PoolOf(lanes.actions)
            n == Len(unique)
            tuples == ActionTuples(lanes)
<1>1. IsVector(unique) /\ ToSet(unique) = ToSet(lanes.actions)
  BY PoolVector DEF TableReady, LanesReady, AreLanes, AreActions
<1>2. n \in Nat /\ DOMAIN unique = 1..n /\ \A i \in 1..n : unique[i] \in ToSet(unique)
  BY <1>1, VectorFacts
<1>3. tuples = [i \in 1..n |-> ActionTuple(ActionRow(unique[i]), unique[i])]
  BY <1>2 DEF ActionTuples
<1>4. ASSUME NEW action \in ToSet(unique)
      PROVE  TupleReady(c, table, ActionTuple(ActionRow(action), action))
  <2>. DEFINE schema == action.action
              row == ActionRow(action)
              arguments == ArgumentRows(action.arguments)
              tuple == ActionTuple(row, action)
              layout == Layout(<<"action">>, FALSE, SchemaArity[schema])
  <2>1. action \in ToSet(lanes.actions)
    BY <1>1
  <2>2. ValidAction(lanes, action)
    BY <2>1 DEF TableReady, LanesReady, ValidLanes, ToSet
  <2>3. /\ schema \in Schemas /\ Len(action.arguments) = SchemaArity[schema]
        /\ ToSet(action.arguments) \subseteq lanes.objects /\ SchemaArity[schema] \in Nat
    BY <2>2, SchemaAssumption DEF ValidAction
  <2>4. IsVector(action.arguments)
    BY <2>1 DEF TableReady, LanesReady, AreLanes, AreActions
  <2>5. arguments \in Seq(table) /\ Len(arguments) = SchemaArity[schema]
    BY <2>3, <2>4, ArgumentRowsFit DEF TableReady, TableHolds
  <2>6. row \in table
    BY <2>1 DEF TableReady, TableHolds
  <2>7. tuple.key = ActionRelation(schema) /\ tuple.args = <<row>> \o arguments
    BY DEF ActionTuple, Row
  <2>. HIDE DEF row, arguments, tuple
  <2>8. tuple.args \in Seq(table) /\ Len(tuple.args) = 1 + Len(arguments)
    <3>. DEFINE first == <<row>>
    <3>1. first \in Seq(table) /\ Len(first) = 1 /\ tuple.args = first \o arguments
      BY <2>6, <2>7
    <3>. HIDE DEF first
    <3>2. Len(first \o arguments) = Len(first) + Len(arguments) /\ first \o arguments \in Seq(table)
      BY <2>5, <3>1, ConcatProperties
    <3>3. Len(first \o arguments) = 1 + Len(arguments)
      BY <3>1, <3>2
    <3>. QED  BY <3>1, <3>2, <3>3
  <2>9. EncodedArity(layout) = 1 + SchemaArity[schema]
    BY <2>3 DEF EncodedArity, Layout
  <2>10. PICK e \in FlatSchema(c) : e.key = ActionRelation(schema) /\ e.layout = layout
    BY <2>3, ActionInSchema
  <2>. HIDE DEF layout
  <2>11. RowAccepted(FlatSchema(c), tuple)
    BY <2>5, <2>7, <2>8, <2>9, <2>10 DEF RowAccepted
  <2>. QED  BY <2>8, <2>11 DEF TupleReady, tuple, row
<1>. HIDE DEF tuples, unique, n
<1>5. DOMAIN tuples = 1..n /\ tuples = [i \in 1..n |-> tuples[i]]
  BY <1>3
<1>6. IsVector(tuples) /\ ToSet(tuples) = {tuples[i] : i \in 1..n}
  BY <1>2, <1>5, VectorOf
<1>7. \A i \in 1..n : TupleReady(c, table, tuples[i])
  BY <1>2, <1>3, <1>4
<1>. QED  BY <1>6, <1>7 DEF TuplesReady, tuples

LEMMA HistoryTupleFits ==
  ASSUME NEW c, NEW lanes, NEW table, TableReady(c, lanes, table),
         NEW x \in ToSet(SaidLiterals(c, lanes))
  PROVE  TupleReady(c, table, HistoryTuple(c, x, x.literal))
<1>. DEFINE atom == x.literal.atom
            p == atom.predicate
            positive == x.literal.positive
            target == IF HasAnchor(c, "history")
                      THEN <<HistoryTargetRow(x.dt, x.entry, x.literal)>> ELSE <<>>
            front == IF HasAnchor(c, "history") THEN <<"history_target">> ELSE <<>>
            row == HistoryRow(x.dt, x.entry)
            auxiliary == target \o <<row>>
            slots == front \o <<"history">>
            key == HistoryRelation(p, positive)
<1>1. SaidIs(c, lanes, x)
  BY SaidAre DEF TableReady
<1>2. /\ ValidAtom(lanes, atom) /\ IsVector(atom.arguments) /\ positive \in BOOLEAN
      /\ p \in Predicates /\ ~Ignored(c, Arity[p])
  BY <1>1 DEF SaidIs, IsLiteral, IsAtom, Kept, ValidAtom
<1>3. row \in table
  BY <1>1 DEF SaidIs, TableReady, TableHolds
<1>4. target \in Seq(table) /\ Len(target) \in Nat /\ Len(front) = Len(target)
      /\ front \in Seq({"history_target"})
  <2>1. CASE HasAnchor(c, "history")
    <3>1. HistoryTargetRow(x.dt, x.entry, x.literal) \in table
      BY <2>1 DEF TableReady, TableHolds
    <3>2. target = <<HistoryTargetRow(x.dt, x.entry, x.literal)>> /\ front = <<"history_target">>
      BY <2>1
    <3>. HIDE DEF target, front
    <3>. QED  BY <3>1, <3>2
  <2>2. CASE ~HasAnchor(c, "history")
    <3>1. target = <<>> /\ front = <<>>
      BY <2>2
    <3>. HIDE DEF target, front
    <3>. QED  BY <3>1
  <2>. QED  BY <2>1, <2>2
<1>5. /\ c.use_predicate_virtual_nodes \in BOOLEAN
      /\ \A o \in lanes.objects : ObjectRow(o) \in table
      /\ c.use_predicate_virtual_nodes => PredicateRow(p) \in table
  BY UsesMet DEF TableReady, TableHolds, PredicatesMet
<1>6. HistoryTuple(c, x, x.literal) = AtomRow(c, key, atom, auxiliary)
  BY DEF HistoryTuple
<1>7. slots = HistorySlots(c)
  BY DEF HistorySlots
<1>. HIDE DEF target, front, row
<1>8. auxiliary \in Seq(table) /\ Len(slots) = Len(auxiliary)
  <2>1. <<row>> \in Seq(table) /\ Len(<<row>>) = 1
    BY <1>3
  <2>2. auxiliary \in Seq(table) /\ Len(auxiliary) = Len(target) + 1
    BY <1>4, <2>1, ConcatProperties
  <2>3. <<"history">> \in Seq({"history"}) /\ Len(<<"history">>) = 1
    OBVIOUS
  <2>. DEFINE labels == {"history_target", "history"}
              last == <<"history">>
  <2>4. front \in Seq(labels) /\ last \in Seq(labels) /\ Len(last) = 1
    BY <1>4
  <2>. HIDE DEF labels, last
  <2>5. Len(front \o last) = Len(front) + Len(last)
    BY <2>4, ConcatProperties
  <2>. QED  BY <1>4, <2>2, <2>4, <2>5 DEF last
<1>. HIDE DEF positive, slots, auxiliary
<1>9. HasEntry(c, key, slots, p)
  <2>. HIDE DEF p
  <2>. QED  BY <1>2, <1>7, HistoryInSchema
<1>. HIDE DEF key
<1>. QED  BY <1>2, <1>5, <1>6, <1>8, <1>9, AtomRowReady

LEMMA HistoryTuplesFit ==
  ASSUME NEW c, NEW lanes, NEW table, TableReady(c, lanes, table)
  PROVE  TuplesReady(c, table, HistoryTuples(c, SaidLiterals(c, lanes)))
<1>. DEFINE said == SaidLiterals(c, lanes)
            n == Len(said)
            tuples == HistoryTuples(c, said)
<1>1. IsVector(said)
  BY SaidAre DEF TableReady
<1>2. n \in Nat /\ DOMAIN said = 1..n /\ \A i \in 1..n : said[i] \in ToSet(said)
  BY <1>1, VectorFacts
<1>3. tuples = [i \in 1..n |-> HistoryTuple(c, said[i], said[i].literal)]
  BY <1>2 DEF HistoryTuples
<1>4. \A x \in ToSet(said) : TupleReady(c, table, HistoryTuple(c, x, x.literal))
  BY HistoryTupleFits
<1>. HIDE DEF tuples, said, n
<1>5. DOMAIN tuples = 1..n /\ tuples = [i \in 1..n |-> tuples[i]]
  BY <1>3
<1>6. IsVector(tuples) /\ ToSet(tuples) = {tuples[i] : i \in 1..n}
  BY <1>2, <1>5, VectorOf
<1>7. \A i \in 1..n : TupleReady(c, table, tuples[i])
  BY <1>2, <1>3, <1>4
<1>. QED  BY <1>6, <1>7 DEF TuplesReady, tuples, said

\* Everything the encoder emits was planned: the relation is in the schema, and the
\* arguments are in the table.
LEMMA FlatTuplesFit ==
  ASSUME NEW c, NEW lanes, LanesReady(c, lanes), c.use_predicate_virtual_nodes \in BOOLEAN
  PROVE  TuplesReady(c, ToSet(Entities(c, lanes)), FlatTuples(c, lanes))
<1>. DEFINE table == ToSet(Entities(c, lanes))
            t1 == FactTuples(c, lanes.static)
            t2 == FactTuples(c, lanes.facts)
            t3 == GoalTuples(c, lanes)
            t4 == ActionTuples(lanes)
            t5 == HistoryTuples(c, SaidLiterals(c, lanes))
<1>1. TableReady(c, lanes, table)
  BY EntitiesHold DEF TableReady
<1>2. FlatTuples(c, lanes) = (((t1 \o t2) \o t3) \o t4) \o t5
  BY DEF FlatTuples
<1>3. AreFacts(lanes.static) /\ AreFacts(lanes.facts)
  BY DEF LanesReady, AreLanes
<1>. HIDE DEF table
<1>4. TuplesReady(c, table, t1) /\ TuplesReady(c, table, t2)
  BY <1>1, <1>3, FactTuplesFit
<1>5. TuplesReady(c, table, t3)
  BY <1>1, GoalTuplesFit
<1>6. TuplesReady(c, table, t4)
  BY <1>1, ActionTuplesFit
<1>7. TuplesReady(c, table, t5)
  BY <1>1, HistoryTuplesFit
<1>. HIDE DEF t1, t2, t3, t4, t5
<1>8. TuplesReady(c, table, t1 \o t2)
  BY <1>4, JoinedTuples
<1>9. TuplesReady(c, table, (t1 \o t2) \o t3)
  BY <1>5, <1>8, JoinedTuples
<1>10. TuplesReady(c, table, ((t1 \o t2) \o t3) \o t4)
  BY <1>6, <1>9, JoinedTuples
<1>11. TuplesReady(c, table, (((t1 \o t2) \o t3) \o t4) \o t5)
  BY <1>7, <1>10, JoinedTuples
<1>. QED  BY <1>2, <1>11 DEF table
-----------------------------------------------------------------------------
(***************************************************************************)
(* The schema.  A key spells its entry out: no key can have two entries,   *)
(* and there are finitely many keys.                                       *)
(***************************************************************************)
Polarities == {} \cup {""} \cup {"[+]"} \cup {"[-]"}
Modifiers == {} \cup {""} \cup {"[hist]"}
LevelNames == {} \cup {""} \cup {"[g]"} \cup {"[sg]"} \cup {"[ssg]"} \cup {"[sssg]"}
DerivationNames == {} \cup {""} \cup {"[sat]"} \cup {"[unsat]"}

KeyFrom(polarity, base, modifier, level, derivation) ==
  <<polarity, base, modifier, level, derivation, "">>

IsKey(key) ==
  \E polarity \in Polarities, base \in Predicates \cup Schemas, modifier \in Modifiers,
     level \in LevelNames, derivation \in DerivationNames :
    key = KeyFrom(polarity, base, modifier, level, derivation)

KeySlots(c, key) ==
  IF key[3] = "[hist]" THEN HistorySlots(c)
  ELSE IF key[5] # "" THEN <<>>
  ELSE IF key[4] # "" THEN GoalSlots(c, IF key[4] = "[g]" THEN 0 ELSE 1)
  ELSE IF key[1] # "" THEN GoalSlots(c, 0) ELSE <<>>

KeyUsage(key) ==
  IF key[3] = "[hist]" THEN "history"
  ELSE IF key[5] # "" THEN "goal_derivation"
  ELSE IF key[4] # "" \/ key[1] # "" THEN "goal" ELSE "state"

EntryFor(c, key) ==
  IF key[2] \in Schemas
  THEN [key |-> key, layout |-> Layout(<<"action">>, FALSE, SchemaArity[key[2]]), usage |-> "action"]
  ELSE [key    |-> key,
        layout |-> Layout(KeySlots(c, key), c.use_predicate_virtual_nodes, Arity[key[2]]),
        usage  |-> KeyUsage(key)]

Spelled(c, e) == IsKey(e.key) /\ e = EntryFor(c, e.key)

KeysSpell(c, keyed, slots, usage) ==
  \A k \in keyed : /\ IsKey(k[1]) /\ k[1][2] = k[2] /\ k[2] \in Predicates
                   /\ KeySlots(c, k[1]) = slots /\ KeyUsage(k[1]) = usage

LEMMA EntriesSpell ==
  ASSUME SchemaAccepted, NEW c, NEW keyed, NEW slots, NEW usage, KeysSpell(c, keyed, slots, usage)
  PROVE  \A e \in Entries(c, keyed, slots, usage) : Spelled(c, e)
<1>1. ASSUME NEW e \in Entries(c, keyed, slots, usage)
      PROVE  Spelled(c, e)
  <2>1. PICK k \in keyed :
          e = [key    |-> k[1],
               layout |-> Layout(slots, c.use_predicate_virtual_nodes, Arity[k[2]]),
               usage  |-> usage]
    BY DEF Entries
  <2>. DEFINE key == k[1]
              p == k[2]
  <2>2. /\ IsKey(key) /\ key[2] = p /\ p \in Predicates
        /\ KeySlots(c, key) = slots /\ KeyUsage(key) = usage
    BY DEF KeysSpell
  <2>3. e = [key    |-> key,
             layout |-> Layout(slots, c.use_predicate_virtual_nodes, Arity[p]),
             usage  |-> usage]
    BY <2>1
  <2>. HIDE DEF key, p
  <2>4. e.key = key
    BY <2>3
  <2>5. key[2] \notin Schemas
    BY <2>2 DEF SchemaAccepted
  <2>6. e = EntryFor(c, key)
    BY <2>2, <2>3, <2>5 DEF EntryFor
  <2>. QED  BY <2>2, <2>4, <2>6 DEF Spelled
<1>. QED  BY <1>1

\* A key of these parts.
LEMMA KeyIs ==
  ASSUME NEW polarity \in Polarities, NEW base \in Predicates \cup Schemas,
         NEW modifier \in Modifiers, NEW level \in LevelNames, NEW derivation \in DerivationNames
  PROVE  IsKey(KeyFrom(polarity, base, modifier, level, derivation))
BY DEF IsKey

LEMMA NamesAre ==
  /\ "" \in Polarities /\ \A positive \in BOOLEAN : Polarity(positive) \in Polarities \ {""}
  /\ "" \in Modifiers /\ "[hist]" \in Modifiers
  /\ "" \in LevelNames /\ "" \in DerivationNames
BY DEF Polarities, Polarity, Modifiers, LevelNames, DerivationNames

LEMMA StateKeysSpell ==
  ASSUME NEW c, NEW preds, preds \subseteq Predicates
  PROVE  KeysSpell(c, StateKeys(preds), <<>>, "state")
<1>1. ASSUME NEW k \in StateKeys(preds)
      PROVE  /\ IsKey(k[1]) /\ k[1][2] = k[2] /\ k[2] \in Predicates
             /\ KeySlots(c, k[1]) = <<>> /\ KeyUsage(k[1]) = "state"
  <2>1. PICK p \in preds : k = <<StateRelation(p), p>>
    BY DEF StateKeys
  <2>. DEFINE key == k[1]
  <2>2. key = KeyFrom("", p, "", "", "") /\ k[2] = p /\ p \in Predicates
    BY <2>1 DEF StateRelation, KeyFrom
  <2>. HIDE DEF key
  <2>3. IsKey(key) /\ key[1] = "" /\ key[2] = p /\ key[3] = "" /\ key[4] = "" /\ key[5] = ""
    <3>1. IsKey(key)
      BY <2>2, NamesAre, KeyIs
    <3>. QED  BY <2>2, <3>1 DEF KeyFrom
  <2>4. KeySlots(c, key) = <<>> /\ KeyUsage(key) = "state"
    BY <2>3 DEF KeySlots, KeyUsage
  <2>. QED  BY <2>2, <2>3, <2>4 DEF key
<1>. QED  BY <1>1 DEF KeysSpell

LEMMA HistoryKeysSpell ==
  ASSUME NEW c, NEW preds, preds \subseteq Predicates
  PROVE  KeysSpell(c, HistoryKeys(preds), HistorySlots(c), "history")
<1>1. ASSUME NEW k \in HistoryKeys(preds)
      PROVE  /\ IsKey(k[1]) /\ k[1][2] = k[2] /\ k[2] \in Predicates
             /\ KeySlots(c, k[1]) = HistorySlots(c) /\ KeyUsage(k[1]) = "history"
  <2>1. PICK p \in preds, positive \in BOOLEAN : k = <<HistoryRelation(p, positive), p>>
    BY DEF HistoryKeys
  <2>. DEFINE key == k[1]
              polarity == Polarity(positive)
  <2>2. key = KeyFrom(polarity, p, "[hist]", "", "") /\ k[2] = p /\ p \in Predicates
    BY <2>1 DEF HistoryRelation, DeltaRelation, KeyFrom
  <2>3. polarity \in Polarities
    BY NamesAre
  <2>. HIDE DEF key, polarity
  <2>4. IsKey(key) /\ key[2] = p /\ key[3] = "[hist]"
    <3>1. IsKey(key)
      BY <2>2, <2>3, NamesAre, KeyIs
    <3>. QED  BY <2>2, <3>1 DEF KeyFrom
  <2>5. KeySlots(c, key) = HistorySlots(c) /\ KeyUsage(key) = "history"
    BY <2>4 DEF KeySlots, KeyUsage
  <2>. QED  BY <2>2, <2>4, <2>5 DEF key
<1>. QED  BY <1>1 DEF KeysSpell

\* The name of a goal level, and whether the level is that of the goals.
LEMMA LevelNamed ==
  ASSUME NEW c, FlatConfigAccepted(c), c.max_goal_level \in Nat, NEW level \in GoalLevels(c)
  PROVE  /\ GoalSuffixes[level + 1] \in LevelNames \ {""}
         /\ GoalSlots(c, level) = GoalSlots(c, IF GoalSuffixes[level + 1] = "[g]" THEN 0 ELSE 1)
<1>1. c.max_goal_level < 4
  BY DEF FlatConfigAccepted, GoalSuffixes
<1>2. level \in {0, 1, 2, 3}
  BY <1>1 DEF GoalLevels
<1>3. /\ GoalSuffixes[1] = "[g]" /\ GoalSuffixes[2] = "[sg]" /\ GoalSuffixes[3] = "[ssg]"
      /\ GoalSuffixes[4] = "[sssg]"
  BY DEF GoalSuffixes
<1>4. CASE level = 0
  <2>1. GoalSuffixes[level + 1] = "[g]"
    BY <1>3, <1>4
  <2>. QED  BY <1>4, <2>1 DEF LevelNames
<1>5. CASE level # 0
  <2>1. GoalSuffixes[level + 1] \in {"[sg]", "[ssg]", "[sssg]"}
    BY <1>2, <1>3, <1>5
  <2>2. level > 0
    BY <1>2, <1>5
  <2>3. GoalSlots(c, level) = GoalSlots(c, 1)
    BY <2>2 DEF GoalSlots, LevelSource
  <2>4. GoalSuffixes[level + 1] \in LevelNames /\ GoalSuffixes[level + 1] # ""
        /\ GoalSuffixes[level + 1] # "[g]"
    BY <2>1 DEF LevelNames
  <2>. QED  BY <2>3, <2>4
<1>. QED  BY <1>4, <1>5

LEMMA GoalKeysSpell ==
  ASSUME NEW c, FlatConfigAccepted(c), c.max_goal_level \in Nat, NEW level \in GoalLevels(c),
         NEW preds, preds \subseteq Predicates,
         NEW derivation \in DerivationNames
  PROVE  /\ derivation = "" =>
              KeysSpell(c, GoalKeys(preds, level, derivation), GoalSlots(c, level), "goal")
         /\ derivation # "" =>
              KeysSpell(c, GoalKeys(preds, level, derivation), <<>>, "goal_derivation")
<1>1. ASSUME NEW k \in GoalKeys(preds, level, derivation)
      PROVE  /\ IsKey(k[1]) /\ k[1][2] = k[2] /\ k[2] \in Predicates
             /\ derivation = "" => /\ KeySlots(c, k[1]) = GoalSlots(c, level)
                                   /\ KeyUsage(k[1]) = "goal"
             /\ derivation # "" => /\ KeySlots(c, k[1]) = <<>>
                                   /\ KeyUsage(k[1]) = "goal_derivation"
  <2>1. PICK p \in preds, positive \in BOOLEAN :
          k = <<GoalOf(p, positive, level, derivation), p>>
    BY DEF GoalKeys
  <2>. DEFINE key == k[1]
              polarity == Polarity(positive)
              name == GoalSuffixes[level + 1]
  <2>2. key = KeyFrom(polarity, p, "", name, derivation) /\ k[2] = p /\ p \in Predicates
    BY <2>1 DEF GoalOf, GoalRelation, Literal, Atom, KeyFrom
  <2>3. polarity \in Polarities
    BY NamesAre
  <2>4. /\ name \in LevelNames /\ name # ""
        /\ GoalSlots(c, level) = GoalSlots(c, IF name = "[g]" THEN 0 ELSE 1)
    BY LevelNamed
  <2>. HIDE DEF key, polarity, name
  <2>5. /\ IsKey(key) /\ key[2] = p /\ key[3] = "" /\ key[4] = name /\ key[5] = derivation
    <3>1. IsKey(key)
      BY <2>2, <2>3, <2>4, NamesAre, KeyIs
    <3>. QED  BY <2>2, <3>1 DEF KeyFrom
  <2>6. derivation = "" => KeySlots(c, key) = GoalSlots(c, level) /\ KeyUsage(key) = "goal"
    BY <2>4, <2>5 DEF KeySlots, KeyUsage
  <2>7. derivation # "" => KeySlots(c, key) = <<>> /\ KeyUsage(key) = "goal_derivation"
    BY <2>5 DEF KeySlots, KeyUsage
  <2>. QED  BY <2>2, <2>5, <2>6, <2>7 DEF key
<1>. QED  BY <1>1 DEF KeysSpell

LEMMA LiteralKeysSpell ==
  ASSUME NEW c, NEW preds, preds \subseteq Predicates, NEW derivation \in DerivationNames
  PROVE  /\ derivation = "" =>
              KeysSpell(c, LiteralKeys(c, preds, derivation), GoalSlots(c, 0), "goal")
         /\ derivation # "" =>
              KeysSpell(c, LiteralKeys(c, preds, derivation), <<>>, "goal_derivation")
<1>1. ASSUME NEW k \in LiteralKeys(c, preds, derivation)
      PROVE  /\ IsKey(k[1]) /\ k[1][2] = k[2] /\ k[2] \in Predicates
             /\ derivation = "" => /\ KeySlots(c, k[1]) = GoalSlots(c, 0)
                                   /\ KeyUsage(k[1]) = "goal"
             /\ derivation # "" => /\ KeySlots(c, k[1]) = <<>>
                                   /\ KeyUsage(k[1]) = "goal_derivation"
  <2>1. PICK p \in preds, positive \in BOOLEAN :
          k = <<LiteralUnder(p, positive, derivation), p>>
    BY DEF LiteralKeys
  <2>. DEFINE key == k[1]
              polarity == Polarity(positive)
  <2>2. key = KeyFrom(polarity, p, "", "", derivation) /\ k[2] = p /\ p \in Predicates
    BY <2>1 DEF LiteralUnder, KeyFrom
  <2>3. polarity \in Polarities /\ polarity # ""
    BY NamesAre
  <2>. HIDE DEF key, polarity
  <2>5. /\ IsKey(key) /\ key[1] = polarity /\ key[2] = p /\ key[3] = "" /\ key[4] = ""
        /\ key[5] = derivation
    <3>1. IsKey(key)
      BY <2>2, <2>3, NamesAre, KeyIs
    <3>. QED  BY <2>2, <3>1 DEF KeyFrom
  <2>6. derivation = "" => KeySlots(c, key) = GoalSlots(c, 0) /\ KeyUsage(key) = "goal"
    BY <2>3, <2>5 DEF KeySlots, KeyUsage
  <2>7. derivation # "" => KeySlots(c, key) = <<>> /\ KeyUsage(key) = "goal_derivation"
    BY <2>5 DEF KeySlots, KeyUsage
  <2>. QED  BY <2>2, <2>5, <2>6, <2>7 DEF key
<1>. QED  BY <1>1 DEF KeysSpell

LEMMA ActionsSpell ==
  ASSUME NEW c, NEW e \in ActionEntriesOf("action")
  PROVE  Spelled(c, e)
<1>1. PICK schema \in Schemas :
        e = [key    |-> ActionRelation(schema),
             layout |-> Layout(<<"action">>, FALSE, SchemaArity[schema]),
             usage  |-> "action"]
  BY DEF ActionEntriesOf
<1>. DEFINE key == ActionRelation(schema)
<1>2. key = KeyFrom("", schema, "", "", "")
  BY DEF ActionRelation, KeyFrom
<1>. HIDE DEF key
<1>3. IsKey(key) /\ key[2] = schema
  <2>1. IsKey(key)
    BY <1>2, NamesAre, KeyIs
  <2>. QED  BY <1>2, <2>1 DEF KeyFrom
<1>4. e = [key    |-> key,
           layout |-> Layout(<<"action">>, FALSE, SchemaArity[schema]),
           usage  |-> "action"]
  BY <1>1 DEF key
<1>5. e.key = key /\ e = EntryFor(c, key)
  BY <1>3, <1>4 DEF EntryFor
<1>. QED  BY <1>3, <1>5 DEF Spelled

LEMMA SchemaSpelled ==
  ASSUME SchemaAccepted, NEW c, FlatConfigAccepted(c), c.max_goal_level \in Nat,
         NEW e \in FlatSchema(c)
  PROVE  Spelled(c, e)
<1>. DEFINE kept == {p \in Predicates : ~Ignored(c, Arity[p])}
            regular == kept \ TopTypes
            derived(d) == (UNION {GoalKeys(regular, level, d) : level \in GoalLevels(c)})
                            \cup LiteralKeys(c, regular, d)
<1>1. kept \subseteq Predicates /\ regular \subseteq Predicates
  OBVIOUS
<1>2. /\ c.derivations \subseteq {"plain", "[sat]", "[unsat]"}
      /\ "" \in DerivationNames
      /\ \A d \in c.derivations \ {"plain"} : d \in DerivationNames /\ d # ""
  BY DEF FlatConfigAccepted, DerivationNames
<1>. HIDE DEF kept, regular
<1>3. CASE e \in Entries(c, StateKeys(kept), <<>>, "state")
  <2>. DEFINE keyed == StateKeys(kept)
              none == <<>>
  <2>1. KeysSpell(c, keyed, none, "state")
    BY <1>1, StateKeysSpell
  <2>2. e \in Entries(c, keyed, none, "state")
    BY <1>3
  <2>. HIDE DEF keyed, none
  <2>. QED  BY <2>1, <2>2, EntriesSpell
<1>4. ASSUME NEW level \in GoalLevels(c),
             e \in Entries(c, GoalKeys(regular, level, ""), GoalSlots(c, level), "goal")
      PROVE  Spelled(c, e)
  <2>. DEFINE keyed == GoalKeys(regular, level, "")
              slots == GoalSlots(c, level)
  <2>1. KeysSpell(c, keyed, slots, "goal")
    BY <1>1, <1>2, GoalKeysSpell
  <2>2. e \in Entries(c, keyed, slots, "goal")
    BY <1>4
  <2>. HIDE DEF keyed, slots
  <2>. QED  BY <2>1, <2>2, EntriesSpell
<1>5. CASE e \in Entries(c, LiteralKeys(c, regular, ""), GoalSlots(c, 0), "goal")
  <2>. DEFINE keyed == LiteralKeys(c, regular, "")
              slots == GoalSlots(c, 0)
  <2>1. KeysSpell(c, keyed, slots, "goal")
    BY <1>1, <1>2, LiteralKeysSpell
  <2>2. e \in Entries(c, keyed, slots, "goal")
    BY <1>5
  <2>. HIDE DEF keyed, slots
  <2>. QED  BY <2>1, <2>2, EntriesSpell
<1>6. ASSUME NEW d \in c.derivations \ {"plain"},
             e \in Entries(c, derived(d), <<>>, "goal_derivation")
      PROVE  Spelled(c, e)
  <2>. DEFINE keyed == derived(d)
              none == <<>>
  <2>1. d \in DerivationNames /\ d # ""
    BY <1>2
  <2>2. \A level \in GoalLevels(c) :
          KeysSpell(c, GoalKeys(regular, level, d), none, "goal_derivation")
    BY <1>1, <2>1, GoalKeysSpell
  <2>3. KeysSpell(c, LiteralKeys(c, regular, d), none, "goal_derivation")
    BY <1>1, <2>1, LiteralKeysSpell
  <2>4. e \in Entries(c, keyed, none, "goal_derivation")
    BY <1>6
  <2>. HIDE DEF none
  <2>5. KeysSpell(c, keyed, none, "goal_derivation")
    <3>1. ASSUME NEW k \in keyed
          PROVE  \/ \E level \in GoalLevels(c) : k \in GoalKeys(regular, level, d)
                 \/ k \in LiteralKeys(c, regular, d)
      OBVIOUS
    <3>. HIDE DEF keyed
    <3>. QED  BY <2>2, <2>3, <3>1 DEF KeysSpell
  <2>. HIDE DEF keyed
  <2>. QED  BY <2>4, <2>5, EntriesSpell
<1>7. CASE e \in Entries(c, HistoryKeys(kept), HistorySlots(c), "history")
  <2>. DEFINE keyed == HistoryKeys(kept)
              slots == HistorySlots(c)
  <2>1. KeysSpell(c, keyed, slots, "history")
    BY <1>1, HistoryKeysSpell
  <2>2. e \in Entries(c, keyed, slots, "history")
    BY <1>7
  <2>. HIDE DEF keyed, slots
  <2>. QED  BY <2>1, <2>2, EntriesSpell
<1>8. CASE e \in ActionEntriesOf("action")
  BY <1>8, ActionsSpell
<1>. HIDE DEF derived
<1>9. \/ e \in Entries(c, StateKeys(kept), <<>>, "state")
      \/ \E level \in GoalLevels(c) :
           e \in Entries(c, GoalKeys(regular, level, ""), GoalSlots(c, level), "goal")
      \/ e \in Entries(c, LiteralKeys(c, regular, ""), GoalSlots(c, 0), "goal")
      \/ \E d \in c.derivations \ {"plain"} :
           e \in Entries(c, derived(d), <<>>, "goal_derivation")
      \/ e \in Entries(c, HistoryKeys(kept), HistorySlots(c), "history")
      \/ e \in ActionEntriesOf("action")
  BY DEF FlatSchema, kept, regular, derived
<1>. QED  BY <1>3, <1>4, <1>5, <1>6, <1>7, <1>8, <1>9

\* finalize: no relation is registered twice, and a config that is accepted gives a schema.
LEMMA SchemaIsConsistent ==
  ASSUME SchemaAccepted, NEW c, FlatConfigAccepted(c), c.max_goal_level \in Nat
  PROVE  SchemaConsistent(FlatSchema(c))
<1>1. \A e \in FlatSchema(c) : e = EntryFor(c, e.key)
  BY SchemaSpelled DEF Spelled
<1>. QED  BY <1>1 DEF SchemaConsistent

LEMMA KeysFinite ==
  ASSUME IsFiniteSet(Predicates), IsFiniteSet(Schemas)
  PROVE  \A keys : (\A key \in keys : IsKey(key)) => IsFiniteSet(keys)
<1>. DEFINE Base == Predicates \cup Schemas
            Space == (Polarities \X Base) \X ((Modifiers \X LevelNames) \X DerivationNames)
            Made == [x \in Space |-> KeyFrom(x[1][1], x[1][2], x[2][1][1], x[2][1][2], x[2][2])]
            All == {Made[x] : x \in Space}
<1>1. IsFiniteSet(Base)
  BY FS_Union
<1>2. IsFiniteSet(Polarities)
  BY FS_EmptySet, FS_AddElement DEF Polarities
<1>3. IsFiniteSet(Modifiers)
  BY FS_EmptySet, FS_AddElement DEF Modifiers
<1>4. IsFiniteSet(LevelNames)
  <2>1. IsFiniteSet({} \cup {""} \cup {"[g]"} \cup {"[sg]"})
    BY FS_EmptySet, FS_AddElement
  <2>. QED  BY <2>1, FS_AddElement DEF LevelNames
<1>5. IsFiniteSet(DerivationNames)
  BY FS_EmptySet, FS_AddElement DEF DerivationNames
<1>. HIDE DEF Base
<1>6. IsFiniteSet(Space)
  <2>1. IsFiniteSet(Polarities \X Base)
    BY <1>1, <1>2, FS_Product
  <2>2. IsFiniteSet(Modifiers \X LevelNames)
    BY <1>3, <1>4, FS_Product
  <2>3. IsFiniteSet((Modifiers \X LevelNames) \X DerivationNames)
    BY <1>5, <2>2, FS_Product
  <2>. QED  BY <2>1, <2>3, FS_Product
<1>7. ASSUME NEW key, IsKey(key)
      PROVE  key \in All
  <2>1. PICK polarity \in Polarities, base \in Base, modifier \in Modifiers,
             level \in LevelNames, derivation \in DerivationNames :
          key = KeyFrom(polarity, base, modifier, level, derivation)
    BY <1>7 DEF IsKey, Base
  <2>. DEFINE x == <<<<polarity, base>>, <<<<modifier, level>>, derivation>>>>
  <2>2. x \in Space
    OBVIOUS
  <2>3. Made[x] = key
    BY <2>1, <2>2
  <2>. QED  BY <2>2, <2>3
<1>8. Made \in Surjection(Space, All)
  <2>. HIDE DEF Space
  <2>1. DOMAIN Made = Space
    OBVIOUS
  <2>2. Made = [x \in Space |-> Made[x]]
    OBVIOUS
  <2>. HIDE DEF Made
  <2>. QED  BY <2>1, <2>2 DEF Surjection
<1>. HIDE DEF All, Space, Made
<1>9. IsFiniteSet(All)
  BY <1>6, <1>8, FS_Surjection
<1>. QED  BY <1>7, <1>9, FS_Subset

\* What a config needs for the lemmas to come: those that the encoder accepts have it.
ConfigReady(c) ==
  /\ FlatConfigAccepted(c) /\ c.max_goal_level \in Nat
  /\ c.use_predicate_virtual_nodes \in BOOLEAN

DomainReady == SchemaAccepted /\ IsFiniteSet(Predicates) /\ IsFiniteSet(Schemas)

LEMMA SlotsCounted ==
  ASSUME NEW c, NEW key
  PROVE  Len(KeySlots(c, key)) \in Nat
<1>1. \A level : Len(GoalSlots(c, level)) \in Nat
  BY DEF GoalSlots
<1>2. Len(HistorySlots(c)) \in Nat
  <2>. DEFINE labels == {"history_target", "history"}
              front == IF HasAnchor(c, "history") THEN <<"history_target">> ELSE <<>>
              last == <<"history">>
  <2>1. front \in Seq(labels) /\ last \in Seq(labels)
    <3>1. <<"history_target">> \in Seq(labels) /\ <<>> \in Seq(labels) /\ last \in Seq(labels)
      OBVIOUS
    <3>. HIDE DEF labels
    <3>. QED  BY <3>1
  <2>2. HistorySlots(c) = front \o last
    BY DEF HistorySlots
  <2>. HIDE DEF front, last, labels
  <2>3. front \o last \in Seq(labels)
    BY <2>1, ConcatProperties
  <2>. QED  BY <2>2, <2>3, LenProperties
<1>3. Len(<<>>) \in Nat
  OBVIOUS
<1>. QED  BY <1>1, <1>2, <1>3 DEF KeySlots

\* The width of a relation, and which entry says it.
LEMMA WidthIs ==
  ASSUME DomainReady, NEW c, ConfigReady(c), NEW e \in FlatSchema(c)
  PROVE  LayoutOf(FlatSchema(c), e.key) = e.layout /\ EncodedArity(e.layout) \in Nat
<1>1. SchemaConsistent(FlatSchema(c)) /\ Spelled(c, e)
  BY SchemaIsConsistent, SchemaSpelled DEF DomainReady, ConfigReady
<1>2. LayoutOf(FlatSchema(c), e.key) = e.layout
  <2>. DEFINE chosen == CHOOSE f \in FlatSchema(c) : f.key = e.key
  <2>1. chosen \in FlatSchema(c) /\ chosen.key = e.key
    OBVIOUS
  <2>2. LayoutOf(FlatSchema(c), e.key) = chosen.layout
    BY DEF LayoutOf
  <2>. HIDE DEF chosen
  <2>3. chosen = e
    BY <1>1, <2>1 DEF SchemaConsistent
  <2>. QED  BY <2>2, <2>3
<1>3. EncodedArity(e.layout) \in Nat
  <2>. DEFINE key == e.key
              slots == KeySlots(c, key)
  <2>1. IsKey(key) /\ e = EntryFor(c, key)
    BY <1>1 DEF Spelled
  <2>. HIDE DEF key
  <2>2. key[2] \in Predicates \cup Schemas
    <3>1. PICK polarity \in Polarities, base \in Predicates \cup Schemas, modifier \in Modifiers,
               level \in LevelNames, derivation \in DerivationNames :
            key = KeyFrom(polarity, base, modifier, level, derivation)
      BY <2>1 DEF IsKey
    <3>2. key[2] = base
      BY <3>1 DEF KeyFrom
    <3>. QED  BY <3>2
  <2>3. CASE key[2] \in Schemas
    <3>1. e.layout = Layout(<<"action">>, FALSE, SchemaArity[key[2]])
      BY <2>1, <2>3 DEF EntryFor
    <3>2. EncodedArity(e.layout) = 1 + SchemaArity[key[2]]
      BY <2>3, <3>1, SchemaAssumption DEF EncodedArity, Layout
    <3>. QED  BY <2>3, <3>2, SchemaAssumption
  <2>4. CASE key[2] \notin Schemas
    <3>1. e.layout = Layout(slots, c.use_predicate_virtual_nodes, Arity[key[2]])
      BY <2>1, <2>4 DEF EntryFor
    <3>2. Len(slots) \in Nat
      BY SlotsCounted
    <3>3. Arity[key[2]] \in Nat
      BY <2>2, <2>4, SchemaAssumption
    <3>. HIDE DEF slots
    <3>4. EncodedArity(e.layout)
            = Len(slots) + (IF c.use_predicate_virtual_nodes THEN 1 ELSE 0) + Arity[key[2]]
      BY <3>1 DEF EncodedArity, Layout
    <3>. QED  BY <3>2, <3>3, <3>4
  <2>. QED  BY <2>3, <2>4
<1>. QED  BY <1>2, <1>3

RelationWidths(schema, ids) == [r \in DOMAIN ids |-> EncodedArity(LayoutOf(schema, ids[r]))]

LEMMA RelationsFit ==
  ASSUME DomainReady, NEW c, ConfigReady(c)
  PROVE  /\ IdsFit(RelationIds(FlatSchema(c)),
                   RelationWidths(FlatSchema(c), RelationIds(FlatSchema(c))))
         /\ ToSet(RelationIds(FlatSchema(c))) = {e.key : e \in FlatSchema(c)}
<1>. DEFINE schema == FlatSchema(c)
            keys == {e.key : e \in schema}
            ids == RelationIds(schema)
            widths == RelationWidths(schema, ids)
<1>1. IsFiniteSet(keys)
  <2>1. \A e \in schema : IsKey(e.key)
    BY SchemaSpelled DEF DomainReady, ConfigReady, Spelled
  <2>2. \A key \in keys : IsKey(key)
    BY <2>1
  <2>. QED  BY <2>2, KeysFinite DEF DomainReady
<1>2. ids = Ordered(keys)
  BY DEF RelationIds
<1>3. \A e \in schema : LayoutOf(schema, e.key) = e.layout /\ EncodedArity(e.layout) \in Nat
  BY WidthIs
<1>. HIDE DEF schema
<1>4. \A key \in keys : EncodedArity(LayoutOf(schema, key)) \in Nat
  BY <1>3
<1>. HIDE DEF keys, ids
<1>5. /\ IsVector(ids) /\ ToSet(ids) = keys
      /\ \A r, q \in DOMAIN ids : ids[r] = ids[q] => r = q
  BY <1>1, <1>2, OrderedVector
<1>6. \A r \in DOMAIN ids : ids[r] \in keys
  BY <1>5 DEF ToSet
<1>7. widths \in [DOMAIN ids -> Nat]
  BY <1>4, <1>6 DEF RelationWidths
<1>. HIDE DEF widths
<1>8. IdsFit(ids, widths)
  BY <1>5, <1>7 DEF IdsFit, IsVector
<1>. QED  BY <1>5, <1>8 DEF widths, ids, schema, keys

\* What an encoder makes of lanes it does not refuse can be stored by relation.
LEMMA FlatEncodingFits ==
  ASSUME DomainReady, NEW c, ConfigReady(c), NEW lanes, AreLanes(lanes), ~FlatRefused(c, lanes)
  PROVE  GraphFits(RelationIds(FlatSchema(c)),
                   RelationWidths(FlatSchema(c), RelationIds(FlatSchema(c))),
                   FlatEncode(c, lanes))
<1>. DEFINE schema == FlatSchema(c)
            ids == RelationIds(schema)
            widths == RelationWidths(schema, ids)
            graph == FlatEncode(c, lanes)
            table == ToSet(Entities(c, lanes))
<1>1. LanesReady(c, lanes)
  BY DEF LanesReady, FlatRefused, ConfigReady, AreLanes
<1>2. IsVector(Entities(c, lanes)) /\ TuplesReady(c, table, FlatTuples(c, lanes))
  BY <1>1, EntitiesHold, FlatTuplesFit DEF ConfigReady
<1>3. graph.entities = Entities(c, lanes) /\ graph.tuples = FlatTuples(c, lanes)
  BY DEF FlatEncode
<1>4. ToSet(ids) = {e.key : e \in schema}
  BY RelationsFit
<1>5. \A e \in schema : LayoutOf(schema, e.key) = e.layout
  BY WidthIs
<1>6. ToSet(graph.entities) = table
  BY <1>3
<1>. HIDE DEF graph, table
<1>7. TableFits(graph)
  BY <1>2, <1>3 DEF TableFits, TuplesReady, IsVector
<1>8. ASSUME NEW n \in DOMAIN graph.tuples
      PROVE  TupleFits(ids, widths, graph, graph.tuples[n])
  <2>. DEFINE tuple == graph.tuples[n]
  <2>1. TupleReady(c, table, tuple)
    BY <1>2, <1>3 DEF TuplesReady, ToSet
  <2>. HIDE DEF tuple
  <2>2. tuple.args \in Seq(table) /\ RowAccepted(schema, tuple)
    BY <2>1 DEF TupleReady
  <2>. HIDE DEF schema
  <2>3. PICK e \in schema : e.key = tuple.key /\ EncodedArity(e.layout) = Len(tuple.args)
    BY <2>2 DEF RowAccepted
  <2>4. EncodedArity(LayoutOf(schema, tuple.key)) = Len(tuple.args)
    BY <1>5, <2>3
  <2>5. tuple.key \in ToSet(ids)
    BY <1>4, <2>3
  <2>. HIDE DEF ids
  <2>6. \E r \in DOMAIN ids : tuple.key = ids[r]
    BY <2>5 DEF ToSet
  <2>7. \A r \in DOMAIN ids : tuple.key = ids[r] => Len(tuple.args) = widths[r]
    BY <2>4 DEF RelationWidths
  <2>. HIDE DEF widths
  <2>8. TupleFits(ids, widths, graph, tuple)
    BY <1>6, <2>2, <2>6, <2>7 DEF TupleFits
  <2>. QED  BY <2>8 DEF tuple
<1>. HIDE DEF ids, widths
<1>9. GraphFits(ids, widths, graph)
  BY <1>7, <1>8 DEF GraphFits
<1>. QED  BY <1>9 DEF ids, widths, schema, graph

-----------------------------------------------------------------------------
(***************************************************************************)
(* Sequences of sequences of rows.                                         *)
(***************************************************************************)
\* A sum goes on where it was left.
GoesOn(f, n, g, m) ==
  /\ n \in Nat /\ m \in Nat
  /\ \A i \in 1..n : f[i] \in Nat
  /\ \A i \in 1..m : f[n + i] = g[i] /\ g[i] \in Nat

LEMMA SumGoesOn ==
  ASSUME NEW f, NEW g, NEW n, NEW m, GoesOn(f, n, g, m)
  PROVE  SumTo(f, n + m) = SumTo(f, n) + SumTo(g, m)
<1>. USE DEF GoesOn
<1>. DEFINE Good == {k \in Nat : k <= m => SumTo(f, n + k) = SumTo(f, n) + SumTo(g, k)}
<1>0. SumTo(f, n) \in Nat
  BY SumNat
<1>1. 0 \in Good
  <2>1. SumTo(g, 0) = 0 /\ n + 0 = n
    BY SumSteps
  <2>. QED  BY <1>0, <2>1
<1>2. ASSUME NEW k \in Nat, k \in Good
      PROVE  k + 1 \in Good
  <2>1. SUFFICES ASSUME k + 1 <= m
                 PROVE  SumTo(f, n + (k + 1)) = SumTo(f, n) + SumTo(g, k + 1)
    OBVIOUS
  <2>2. SumTo(f, n + k) = SumTo(f, n) + SumTo(g, k)
    BY <1>2, <2>1
  <2>3. n + k \in Nat /\ n + (k + 1) = (n + k) + 1 /\ k + 1 \in 1..m
    BY <2>1
  <2>4. SumTo(f, (n + k) + 1) = SumTo(f, n + k) + f[(n + k) + 1]
    BY <2>3, SumSteps
  <2>5. f[(n + k) + 1] = g[k + 1] /\ g[k + 1] \in Nat
    BY <2>3
  <2>6. SumTo(g, k + 1) = SumTo(g, k) + g[k + 1]
    BY SumSteps
  <2>7. SumTo(g, k) \in Nat
    <3>1. \A i \in 1..k : g[i] \in Nat
      BY <2>1
    <3>. QED  BY <3>1, SumNat
  <2>. QED  BY <1>0, <2>2, <2>3, <2>4, <2>5, <2>6, <2>7
<1>. HIDE DEF Good
<1>3. \A k \in Nat : k \in Good
  BY <1>1, <1>2, AllReached
<1>. QED  BY <1>3 DEF Good

\* The parts of a concatenation, cut out by their lengths.
LEMMA Sliced ==
  ASSUME NEW T, NEW s \in Seq(Seq(T)), NEW sizes, \A i \in 1..Len(s) : sizes[i] = Len(s[i]),
         NEW i \in 1..Len(s)
  PROVE  CatSlice(FlattenSeq(s), sizes, i) = s[i]
<1>. DEFINE start == SumTo(Lengths(s), i - 1)
<1>1. Len(s) \in Nat /\ DOMAIN s = 1..Len(s) /\ i \in Nat /\ i - 1 \in Nat /\ (i - 1) + 1 = i
  BY LenProperties
<1>2. \A j \in 1..Len(s) : Lengths(s)[j] = sizes[j]
  BY <1>1 DEF Lengths
<1>3. SumTo(sizes, i - 1) = start
  <2>1. \A j \in 1..(i - 1) : sizes[j] = Lengths(s)[j]
    BY <1>1, <1>2
  <2>. QED  BY <1>1, <2>1, SumSame
<1>4. SumTo(sizes, i) = SumTo(sizes, i - 1) + sizes[i]
  BY <1>1, SumSteps
<1>5. start \in Nat /\ Len(s[i]) \in Nat /\ s[i] \in Seq(T)
  BY FlattenedPart, ElementOfSeq
<1>6. \A k \in 1..Len(s[i]) : FlattenSeq(s)[start + k] = s[i][k]
  BY Flattened
<1>. HIDE DEF start
<1>7. SubSeq(FlattenSeq(s), start + 1, start + Len(s[i])) = s[i]
  BY <1>5, <1>6, CutOut
<1>. QED  BY <1>3, <1>4, <1>7 DEF CatSlice

\* A row of a graph among the rows of all.
Counts(counts, w) == \A g \in 1..Len(w) : counts[g] = Len(w[g])

InPlaceAt(w, counts, g, n) ==
  /\ RowOf(counts, g, n) \in 1..Len(FlattenSeq(w))
  /\ RowOf(counts, g, n) = SumTo(Lengths(w), g - 1) + n
  /\ FlattenSeq(w)[RowOf(counts, g, n)] = w[g][n]

LEMMA RowOfAll ==
  ASSUME NEW T, NEW w \in Seq(Seq(T)), NEW counts, Counts(counts, w),
         NEW g \in 1..Len(w), NEW n \in 1..Len(w[g])
  PROVE  InPlaceAt(w, counts, g, n)
<1>1. Len(w) \in Nat /\ DOMAIN w = 1..Len(w) /\ g \in Nat /\ g - 1 \in Nat
  BY LenProperties
<1>2. SumTo(counts, g - 1) = SumTo(Lengths(w), g - 1)
  <2>1. \A j \in 1..(g - 1) : counts[j] = Lengths(w)[j]
    BY <1>1 DEF Counts, Lengths
  <2>. QED  BY <1>1, <2>1, SumSame
<1>3. /\ SumTo(Lengths(w), g - 1) \in Nat /\ Len(w[g]) \in Nat /\ Len(FlattenSeq(w)) \in Nat
      /\ SumTo(Lengths(w), g - 1) + Len(w[g]) <= Len(FlattenSeq(w))
  BY FlattenedPart
<1>4. FlattenSeq(w)[SumTo(Lengths(w), g - 1) + n] = w[g][n]
  BY Flattened
<1>. QED  BY <1>2, <1>3, <1>4 DEF RowOf, InPlaceAt

JoinedParts(w) == [g \in DOMAIN w |-> FlattenSeq(w[g])]

\* Rows of graphs joined graph by graph, or joined at once.
LEMMA JoinedRows ==
  ASSUME NEW T, NEW w \in Seq(Seq(Seq(T)))
  PROVE  /\ FlattenSeq(w) \in Seq(Seq(T))
         /\ FlattenSeq(JoinedParts(w)) = FlattenSeq(FlattenSeq(w))
<1>. DEFINE rows == FlattenSeq(w)
            s == JoinedParts(w)
            count == Lengths(w)
            long == Lengths(rows)
            all == FlattenSeq(rows)
<1>1. Len(w) \in Nat /\ DOMAIN w = 1..Len(w) /\ \A g \in 1..Len(w) : w[g] \in Seq(Seq(T))
  BY LenProperties, ElementOfSeq
<1>2. /\ rows \in Seq(Seq(T)) /\ Len(rows) = SumTo(count, Len(w))
      /\ \A g \in 1..Len(w) : \A n \in 1..Len(w[g]) : rows[SumTo(count, g - 1) + n] = w[g][n]
  BY Flattened
<1>3. \A g \in 1..Len(w) : count[g] = Len(w[g]) /\ count[g] \in Nat
  BY <1>1, LenProperties DEF Lengths
<1>4. \A g \in 1..Len(w) : /\ s[g] = FlattenSeq(w[g]) /\ s[g] \in Seq(T)
                           /\ Len(s[g]) = SumTo(Lengths(w[g]), Len(w[g]))
  BY <1>1, Flattened DEF JoinedParts
<1>5. s \in Seq(Seq(T)) /\ Len(s) = Len(w) /\ DOMAIN s = 1..Len(w)
  <2>1. s = [g \in 1..Len(w) |-> s[g]]
    BY <1>1 DEF JoinedParts
  <2>. HIDE DEF s
  <2>2. s \in [1..Len(w) -> Seq(T)]
    BY <1>4, <2>1
  <2>. QED  BY <1>1, <2>1, <2>2, SeqOfLength
<1>6. /\ Len(rows) \in Nat /\ DOMAIN rows = 1..Len(rows)
      /\ \A i \in 1..Len(rows) : rows[i] \in Seq(T) /\ long[i] = Len(rows[i]) /\ long[i] \in Nat
  <2>. HIDE DEF rows
  <2>. QED  BY <1>2, LenProperties, ElementOfSeq DEF Lengths
<1>7. all \in Seq(T) /\ Len(all) = SumTo(long, Len(rows))
      /\ \A i \in 1..Len(rows) : \A k \in 1..Len(rows[i]) : all[SumTo(long, i - 1) + k] = rows[i][k]
  <2>1. rows \in Seq(Seq(T))
    BY <1>2
  <2>. HIDE DEF rows
  <2>. QED  BY <2>1, Flattened
<1>8. ASSUME NEW g \in 1..Len(w)
      PROVE  /\ SumTo(count, g - 1) \in Nat /\ count[g] \in Nat
             /\ SumTo(count, g - 1) + count[g] <= Len(rows)
             /\ SumTo(count, g) = SumTo(count, g - 1) + count[g]
  <2>1. g - 1 \in Nat /\ (g - 1) + 1 = g
    BY <1>1
  <2>2. SumTo(count, (g - 1) + 1) = SumTo(count, g - 1) + count[(g - 1) + 1]
    BY <2>1, SumSteps
  <2>3. /\ SumTo(Lengths(w), g - 1) \in Nat
        /\ SumTo(Lengths(w), g - 1) + Len(w[g]) <= Len(FlattenSeq(w))
    BY FlattenedPart
  <2>. QED  BY <1>3, <2>1, <2>2, <2>3
<1>. HIDE DEF rows, s, count, long, all
<1>9. ASSUME NEW g \in 1..Len(w), NEW m \in 0..Len(w[g])
      PROVE  SumTo(long, SumTo(count, g - 1) + m)
               = SumTo(long, SumTo(count, g - 1)) + SumTo(Lengths(w[g]), m)
  <2>. DEFINE before == SumTo(count, g - 1)
              own == Lengths(w[g])
  <2>1. before \in Nat /\ count[g] \in Nat /\ before + count[g] <= Len(rows) /\ count[g] = Len(w[g])
    BY <1>3, <1>8
  <2>2. m \in Nat /\ m <= Len(w[g])
    BY <2>1
  <2>. HIDE DEF before
  <2>3. \A i \in 1..before : long[i] \in Nat
    BY <1>6, <2>1
  <2>4. ASSUME NEW i \in 1..m
        PROVE  long[before + i] = own[i] /\ own[i] \in Nat
    <3>1. before + i \in 1..Len(rows) /\ i \in 1..Len(w[g])
      BY <1>6, <2>1, <2>2
    <3>2. rows[before + i] = w[g][i]
      BY <1>2, <3>1 DEF before
    <3>3. DOMAIN w[g] = 1..Len(w[g])
      BY <1>1, LenProperties
    <3>. QED  BY <1>6, <3>1, <3>2, <3>3 DEF Lengths
  <2>. HIDE DEF own
  <2>5. \A i \in 1..m : long[before + i] = own[i] /\ own[i] \in Nat
    BY <2>4
  <2>6. before \in Nat
    BY <2>1
  <2>7. m \in Nat
    BY <2>2
  <2>8. GoesOn(long, before, own, m)
    BY <2>3, <2>5, <2>6, <2>7 DEF GoesOn
  <2>9. SumTo(long, before + m) = SumTo(long, before) + SumTo(own, m)
    BY <2>8, SumGoesOn
  <2>. QED  BY <2>9 DEF before, own
<1>10. \A j \in Nat : j <= Len(w) => SumTo(long, SumTo(count, j)) = SumTo(Lengths(s), j)
  <2>. DEFINE Good == {j \in Nat : j <= Len(w) => SumTo(long, SumTo(count, j)) = SumTo(Lengths(s), j)}
  <2>1. 0 \in Good
    BY SumSteps
  <2>2. ASSUME NEW j \in Nat, j \in Good
        PROVE  j + 1 \in Good
    <3>1. SUFFICES ASSUME j + 1 <= Len(w)
                   PROVE  SumTo(long, SumTo(count, j + 1)) = SumTo(Lengths(s), j + 1)
      OBVIOUS
    <3>2. SumTo(long, SumTo(count, j)) = SumTo(Lengths(s), j)
      BY <1>1, <2>2, <3>1
    <3>3. j + 1 \in 1..Len(w) /\ (j + 1) - 1 = j
      BY <3>1
    <3>4. count[j + 1] = Len(w[j + 1]) /\ count[j + 1] \in Nat
          /\ SumTo(count, j + 1) = SumTo(count, j) + count[j + 1]
      BY <1>3, <1>8, <3>3
    <3>5. Len(w[j + 1]) \in 0..Len(w[j + 1])
      BY <3>4
    <3>6. SumTo(long, SumTo(count, j) + Len(w[j + 1]))
            = SumTo(long, SumTo(count, j)) + SumTo(Lengths(w[j + 1]), Len(w[j + 1]))
      BY <1>9, <3>3, <3>5
    <3>7. Lengths(s)[j + 1] = SumTo(Lengths(w[j + 1]), Len(w[j + 1]))
      BY <1>4, <1>5, <3>3 DEF Lengths
    <3>8. SumTo(Lengths(s), j + 1) = SumTo(Lengths(s), j) + Lengths(s)[j + 1]
      BY SumSteps
    <3>. QED  BY <3>2, <3>4, <3>6, <3>7, <3>8
  <2>. HIDE DEF Good
  <2>3. \A j \in Nat : j \in Good
    BY <2>1, <2>2, AllReached
  <2>. QED  BY <2>3 DEF Good
<1>11. Len(all) = SumTo(Lengths(s), Len(s))
  <2>1. SumTo(long, SumTo(count, Len(w))) = SumTo(Lengths(s), Len(w))
    BY <1>1, <1>10
  <2>. QED  BY <1>2, <1>5, <1>7, <2>1
<1>12. ASSUME NEW g \in 1..Len(s), NEW k \in 1..Len(s[g])
       PROVE  all[SumTo(Lengths(s), g - 1) + k] = s[g][k]
  <2>. DEFINE before == SumTo(count, g - 1)
              own == Lengths(w[g])
  <2>1. g \in 1..Len(w) /\ g - 1 \in Nat /\ g - 1 <= Len(w)
    BY <1>1, <1>5
  <2>2. w[g] \in Seq(Seq(T)) /\ Len(w[g]) \in Nat /\ DOMAIN w[g] = 1..Len(w[g])
    BY <1>1, <2>1, LenProperties
  <2>3. k \in 1..SumTo(own, Len(w[g]))
    BY <1>4, <2>1
  <2>4. \A i \in 1..Len(w[g]) : own[i] = Len(w[g][i]) /\ own[i] \in Nat
    BY <2>2, ElementOfSeq, LenProperties DEF Lengths
  <2>5. before \in Nat /\ before + Len(w[g]) <= Len(rows)
    BY <1>3, <1>8, <2>1
  <2>. HIDE DEF own, before
  <2>6. PICK n \in 1..Len(w[g]) : \E m \in 1..own[n] : k = SumTo(own, n - 1) + m
    BY <2>2, <2>3, <2>4, SumPlace
  <2>7. PICK m \in 1..own[n] : k = SumTo(own, n - 1) + m
    BY <2>6
  <2>8. s[g][k] = w[g][n][m]
    <3>1. m \in 1..Len(w[g][n])
      BY <2>4
    <3>2. FlattenSeq(w[g])[SumTo(own, n - 1) + m] = w[g][n][m]
      BY <2>2, <3>1, Flattened DEF own
    <3>. QED  BY <1>4, <2>1, <2>7, <3>2
  <2>9. rows[before + n] = w[g][n] /\ before + n \in 1..Len(rows)
    <3>1. before + n \in 1..Len(rows)
      <4>. DEFINE lw == Len(w[g])
                  lr == Len(rows)
      <4>1. n \in 1..lw /\ lw \in Nat /\ lr \in Nat /\ before \in Nat /\ before + lw <= lr
        BY <1>6, <2>2, <2>5
      <4>. HIDE DEF lw, lr
      <4>2. before + n \in 1..lr
        BY <4>1
      <4>. QED  BY <4>2 DEF lr
    <3>. QED  BY <1>2, <2>1, <3>1 DEF before
  <2>10. all[SumTo(long, (before + n) - 1) + m] = rows[before + n][m]
    BY <1>7, <2>4, <2>9
  <2>11. n - 1 \in 0..Len(w[g]) /\ (before + n) - 1 = before + (n - 1)
    BY <2>2, <2>5
  <2>12. SumTo(long, before + (n - 1)) = SumTo(long, before) + SumTo(own, n - 1)
    BY <1>9, <2>1, <2>11 DEF own, before
  <2>13. SumTo(long, before) = SumTo(Lengths(s), g - 1)
    BY <1>10, <2>1 DEF before
  <2>14. SumTo(long, before) \in Nat /\ SumTo(own, n - 1) \in Nat
    <3>. DEFINE width == Len(w[g])
    <3>0. before \in Nat /\ width \in Nat /\ Len(rows) \in Nat /\ before + width <= Len(rows)
      BY <1>6, <2>2, <2>5
    <3>. HIDE DEF width
    <3>3. \A i \in 1..before : i \in 1..Len(rows)
      BY <3>0
    <3>1. \A i \in 1..before : long[i] \in Nat
      BY <1>6, <3>3
    <3>2. n - 1 \in Nat /\ \A i \in 1..(n - 1) : own[i] \in Nat
      BY <2>2, <2>4
    <3>. QED  BY <2>5, <3>1, <3>2, SumNat
  <2>15. (SumTo(long, before) + SumTo(own, n - 1)) + m = SumTo(long, before) + (SumTo(own, n - 1) + m)
    BY <2>4, <2>14
  <2>. QED  BY <2>7, <2>8, <2>9, <2>10, <2>11, <2>12, <2>13, <2>15
<1>13. FlattenSeq(s) = all
  BY <1>5, <1>7, <1>11, <1>12, IsFlattened
<1>. QED  BY <1>2, <1>13 DEF s, all, rows

\* Numbers that are counted on.
LEMMA ShiftedIs ==
  ASSUME NEW s \in Seq(Int), NEW by \in Int
  PROVE  /\ Shifted(s, by) \in Seq(Int) /\ Len(Shifted(s, by)) = Len(s) /\ Len(s) \in Nat
         /\ DOMAIN s = 1..Len(s)
         /\ \A k \in 1..Len(s) : s[k] \in Int /\ Shifted(s, by)[k] = s[k] + by
<1>1. Len(s) \in Nat /\ DOMAIN s = 1..Len(s) /\ \A k \in 1..Len(s) : s[k] \in Int
  BY LenProperties, ElementOfSeq
<1>2. Shifted(s, by) \in [1..Len(s) -> Int]
  BY <1>1 DEF Shifted
<1>3. Shifted(s, by) \in Seq(Int) /\ Len(Shifted(s, by)) = Len(s)
  <2>. DEFINE t == Shifted(s, by)
  <2>1. t \in [1..Len(s) -> Int]
    BY <1>2
  <2>. HIDE DEF t
  <2>2. t \in Seq(Int) /\ Len(t) = Len(s)
    BY <1>1, <2>1, SeqOfLength
  <2>. QED  BY <2>2 DEF t
<1>. QED  BY <1>1, <1>3 DEF Shifted

LEMMA ShiftedByNone ==
  ASSUME NEW s \in Seq(Int)
  PROVE  Shifted(s, 0) = s
<1>1. 0 \in Int
  OBVIOUS
<1>2. /\ Shifted(s, 0) \in Seq(Int) /\ Len(Shifted(s, 0)) = Len(s)
      /\ \A k \in 1..Len(s) : s[k] \in Int /\ Shifted(s, 0)[k] = s[k] + 0
  BY <1>1, ShiftedIs
<1>3. \A k \in 1..Len(s) : Shifted(s, 0)[k] = s[k]
  BY <1>2
<1>. QED  BY <1>2, <1>3, SeqEqual

ShiftedRows(rows, by) == [n \in DOMAIN rows |-> Shifted(rows[n], by)]

LEMMA ShiftedRowsAre ==
  ASSUME NEW rows \in Seq(Seq(Int)), NEW by \in Int
  PROVE  /\ ShiftedRows(rows, by) \in Seq(Seq(Int)) /\ Len(ShiftedRows(rows, by)) = Len(rows)
         /\ DOMAIN rows = 1..Len(rows) /\ Len(rows) \in Nat
         /\ \A n \in 1..Len(rows) : ShiftedRows(rows, by)[n] = Shifted(rows[n], by)
         /\ FlattenSeq(ShiftedRows(rows, by)) = Shifted(FlattenSeq(rows), by)
<1>. DEFINE s == ShiftedRows(rows, by)
            whole == FlattenSeq(rows)
            t == Shifted(whole, by)
<1>1. Len(rows) \in Nat /\ DOMAIN rows = 1..Len(rows) /\ \A n \in 1..Len(rows) : rows[n] \in Seq(Int)
  BY LenProperties, ElementOfSeq
<1>2. \A n \in 1..Len(rows) : s[n] = Shifted(rows[n], by)
  BY <1>1 DEF ShiftedRows
<1>3. \A n \in 1..Len(rows) : s[n] \in Seq(Int) /\ Len(s[n]) = Len(rows[n])
  BY <1>1, <1>2, ShiftedIs
<1>4. s \in Seq(Seq(Int)) /\ Len(s) = Len(rows) /\ DOMAIN s = DOMAIN rows
  <2>1. s = [n \in 1..Len(rows) |-> s[n]]
    BY <1>1 DEF ShiftedRows
  <2>. HIDE DEF s
  <2>2. s \in [1..Len(rows) -> Seq(Int)]
    BY <1>3, <2>1
  <2>. QED  BY <1>1, <2>1, <2>2, SeqOfLength
<1>5. whole \in Seq(Int) /\ Len(whole) = SumTo(Lengths(rows), Len(rows))
  BY Flattened
<1>6. t \in Seq(Int) /\ Len(t) = Len(whole) /\ \A k \in 1..Len(whole) : t[k] = whole[k] + by
  <2>. HIDE DEF whole
  <2>. QED  BY <1>5, ShiftedIs
<1>. HIDE DEF s, whole, t
<1>7. Lengths(s) = Lengths(rows)
  BY <1>1, <1>3, <1>4 DEF Lengths
<1>8. Len(t) = SumTo(Lengths(s), Len(s))
  BY <1>4, <1>5, <1>6, <1>7
<1>9. ASSUME NEW i \in 1..Len(s), NEW k \in 1..Len(s[i])
      PROVE  t[SumTo(Lengths(s), i - 1) + k] = s[i][k]
  <2>. DEFINE before == SumTo(Lengths(rows), i - 1)
  <2>1. i \in 1..Len(rows) /\ k \in 1..Len(rows[i])
    BY <1>3, <1>4
  <2>2. /\ before \in Nat /\ Len(rows[i]) \in Nat /\ Len(whole) \in Nat
        /\ before + Len(rows[i]) <= Len(whole)
    BY <2>1, FlattenedPart DEF whole
  <2>3. whole[before + k] = rows[i][k]
    BY <2>1, Flattened DEF whole
  <2>4. s[i][k] = rows[i][k] + by
    BY <1>1, <1>2, <2>1, ShiftedIs
  <2>. HIDE DEF before
  <2>5. before + k \in 1..Len(whole)
    BY <2>1, <2>2
  <2>6. t[before + k] = s[i][k]
    BY <1>6, <2>3, <2>4, <2>5
  <2>. QED  BY <1>7, <2>6 DEF before
<1>10. FlattenSeq(s) = t
  BY <1>4, <1>6, <1>8, <1>9, IsFlattened
<1>. QED  BY <1>1, <1>2, <1>4, <1>10 DEF s, t, whole

\* Columns of rows of numbers, each graph counted on by a number of its own.
RowsBehind(w, by) == [g \in DOMAIN w |-> ShiftedRows(w[g], by[g])]

ColumnBehind(w, by) == [g \in DOMAIN w |-> Shifted(FlattenSeq(w[g]), by[g])]

LEMMA ColumnOfRows ==
  ASSUME NEW w \in Seq(Seq(Seq(Int))), NEW by, \A g \in 1..Len(w) : by[g] \in Int
  PROVE  /\ RowsBehind(w, by) \in Seq(Seq(Seq(Int))) /\ Len(RowsBehind(w, by)) = Len(w)
         /\ Lengths(RowsBehind(w, by)) = Lengths(w)
         /\ \A g \in 1..Len(w) : /\ Len(RowsBehind(w, by)[g]) = Len(w[g])
                                 /\ \A n \in 1..Len(w[g]) :
                                      RowsBehind(w, by)[g][n] = Shifted(w[g][n], by[g])
         /\ FlattenSeq(RowsBehind(w, by)) \in Seq(Seq(Int))
         /\ FlattenSeq(ColumnBehind(w, by)) = FlattenSeq(FlattenSeq(RowsBehind(w, by)))
<1>. DEFINE v == RowsBehind(w, by)
<1>1. Len(w) \in Nat /\ DOMAIN w = 1..Len(w) /\ \A g \in 1..Len(w) : w[g] \in Seq(Seq(Int))
  BY LenProperties, ElementOfSeq
<1>2. ASSUME NEW g \in 1..Len(w)
      PROVE  /\ v[g] = ShiftedRows(w[g], by[g])
             /\ v[g] \in Seq(Seq(Int)) /\ Len(v[g]) = Len(w[g])
             /\ \A n \in 1..Len(w[g]) : v[g][n] = Shifted(w[g][n], by[g])
             /\ FlattenSeq(v[g]) = Shifted(FlattenSeq(w[g]), by[g])
  <2>1. w[g] \in Seq(Seq(Int)) /\ by[g] \in Int /\ v[g] = ShiftedRows(w[g], by[g])
    BY <1>1 DEF RowsBehind
  <2>. QED  BY <2>1, ShiftedRowsAre
<1>3. v \in Seq(Seq(Seq(Int))) /\ Len(v) = Len(w) /\ DOMAIN v = DOMAIN w
  <2>1. v = [g \in 1..Len(w) |-> v[g]]
    BY <1>1 DEF RowsBehind
  <2>. HIDE DEF v
  <2>2. v \in [1..Len(w) -> Seq(Seq(Int))]
    BY <1>2, <2>1
  <2>. QED  BY <1>1, <2>1, <2>2, SeqOfLength
<1>. HIDE DEF v
<1>4. Lengths(v) = Lengths(w)
  BY <1>1, <1>2, <1>3 DEF Lengths
<1>5. JoinedParts(v) = ColumnBehind(w, by)
  BY <1>1, <1>2, <1>3 DEF JoinedParts, ColumnBehind
<1>6. FlattenSeq(v) \in Seq(Seq(Int)) /\ FlattenSeq(JoinedParts(v)) = FlattenSeq(FlattenSeq(v))
  BY <1>3, JoinedRows
<1>. QED  BY <1>2, <1>3, <1>4, <1>5, <1>6 DEF v

-----------------------------------------------------------------------------
(***************************************************************************)
(* The fields of derived graphs, batched.                                  *)
(***************************************************************************)
IsEdgeRow(e) ==
  /\ e.src \in Int /\ e.dst \in Int
  /\ e = [src |-> e.src, dst |-> e.dst, kind |-> e.kind, positions |-> e.positions,
          channels |-> e.channels]

FieldsFit(f) ==
  /\ \A key \in RowKeys : IsVector(f[key])
  /\ \A key \in NodeColumns : f[key] \in Seq(Int)
  /\ f.num_nodes = Len(f.x_ids)
  /\ Cardinality(ObjectPlaces(f.x_ids)) = Len(f.object_names)
  /\ IsVector(f.edges) /\ \A k \in DOMAIN f.edges : IsEdgeRow(f.edges[k])
  /\ f.hyperedge_counts \in Nat /\ Len(f.hyperedge_sizes) = f.hyperedge_counts
  /\ \A k \in 1..f.hyperedge_counts : f.hyperedge_sizes[k] \in Nat
  /\ f.hyperedge_ids = [k \in 1..f.hyperedge_counts |-> k - 1]

AllFieldsFit(fields) == IsVector(fields) /\ \A g \in DOMAIN fields : FieldsFit(fields[g])

LEMMA NativeIs ==
  ASSUME NEW fields
  PROVE  /\ \A key \in RowKeys : NativeBatch(fields)[key] = Concatenated(fields, key)
         /\ \A key \in GraphKeys : NativeBatch(fields)[key] = PerGraph(fields, key)
         /\ \A key \in NodeColumns : NativeBatch(fields)[key] = OnNodes(fields, key)
         /\ NativeBatch(fields).hyperedge_ids = OnHyperedges(fields, "hyperedge_ids")
         /\ NativeBatch(fields).edges
              = FlattenSeq([g \in DOMAIN fields |->
                  EdgesBehind(fields[g].edges, NodesBefore(fields, g))])
<1>. DEFINE keys == ((RowKeys \cup GraphKeys) \cup NodeColumns) \cup {"hyperedge_ids", "edges"}
<1>1. \A key \in keys : NativeBatch(fields)[key] = Batched(fields, key)
  BY DEF NativeBatch
<1>2. /\ \A key \in RowKeys : Batched(fields, key) = Concatenated(fields, key)
      /\ \A key \in GraphKeys : key \notin RowKeys /\ Batched(fields, key) = PerGraph(fields, key)
  BY DEF Batched, RowKeys, GraphKeys
<1>3. \A key \in NodeColumns : /\ key \notin RowKeys /\ key \notin GraphKeys
                               /\ Batched(fields, key) = OnNodes(fields, key)
  BY DEF Batched, RowKeys, GraphKeys, NodeColumns
<1>4. /\ Batched(fields, "hyperedge_ids") = OnHyperedges(fields, "hyperedge_ids")
      /\ Batched(fields, "edges")
           = FlattenSeq([g \in DOMAIN fields |-> EdgesBehind(fields[g].edges, NodesBefore(fields, g))])
  BY DEF Batched, RowKeys, GraphKeys, NodeColumns
<1>5. /\ NativeBatch(fields)["hyperedge_ids"] = OnHyperedges(fields, "hyperedge_ids")
      /\ NativeBatch(fields)["edges"]
           = FlattenSeq([g \in DOMAIN fields |-> EdgesBehind(fields[g].edges, NodesBefore(fields, g))])
  BY <1>1, <1>4
<1>. QED  BY <1>1, <1>2, <1>3, <1>5

\* Parts of a batch.
LEMMA PerGraphParts ==
  ASSUME NEW fields, IsVector(fields), NEW key, \A g \in DOMAIN fields : IsVector(fields[g][key])
  PROVE  \E T : /\ PerGraph(fields, key) \in Seq(Seq(T)) /\ Len(PerGraph(fields, key)) = Len(fields)
                /\ \A g \in DOMAIN fields : fields[g][key] \in Seq(T)
<1>. DEFINE T == UNION {ToSet(fields[g][key]) : g \in DOMAIN fields}
            parts == PerGraph(fields, key)
<1>1. Len(fields) \in Nat /\ DOMAIN fields = 1..Len(fields)
  BY VectorFacts
<1>2. ASSUME NEW g \in DOMAIN fields
      PROVE  fields[g][key] \in Seq(T)
  <2>1. ToSet(fields[g][key]) \subseteq T
    OBVIOUS
  <2>2. fields[g][key] \in Seq(ToSet(fields[g][key]))
    BY DEF IsVector
  <2>. QED  BY <2>1, <2>2, EntriesIn
<1>. HIDE DEF T
<1>3. parts \in [1..Len(fields) -> Seq(T)]
  BY <1>1, <1>2 DEF PerGraph
<1>. HIDE DEF parts
<1>4. parts \in Seq(Seq(T)) /\ Len(parts) = Len(fields)
  BY <1>1, <1>3, SeqOfLength
<1>. QED  BY <1>2, <1>4 DEF parts

\* What lies in front of a graph.
LEMMA BeforeGraph ==
  ASSUME NEW fields, AllFieldsFit(fields), NEW g \in 1..Len(fields)
  PROVE  /\ NodesBefore(fields, g) \in Nat /\ HyperedgesBefore(fields, g) \in Nat
         /\ fields[g].num_nodes \in Nat
         /\ NodesBefore(fields, g) + fields[g].num_nodes
              = SumTo([h \in DOMAIN fields |-> fields[h].num_nodes], g)
<1>. DEFINE nodes == [h \in DOMAIN fields |-> fields[h].num_nodes]
            hyperedges == [h \in DOMAIN fields |-> fields[h].hyperedge_counts]
<1>1. Len(fields) \in Nat /\ DOMAIN fields = 1..Len(fields)
  BY VectorFacts DEF AllFieldsFit
<1>2. \A h \in 1..Len(fields) : nodes[h] = fields[h].num_nodes /\ nodes[h] \in Nat
                                /\ hyperedges[h] = fields[h].hyperedge_counts /\ hyperedges[h] \in Nat
  <2>1. "x_ids" \in RowKeys
    BY DEF RowKeys
  <2>2. SUFFICES ASSUME NEW h \in 1..Len(fields)
                 PROVE  fields[h].num_nodes \in Nat /\ fields[h].hyperedge_counts \in Nat
    BY <1>1
  <2>3. FieldsFit(fields[h])
    BY <1>1 DEF AllFieldsFit
  <2>4. IsVector(fields[h]["x_ids"]) /\ fields[h].num_nodes = Len(fields[h].x_ids)
        /\ fields[h].hyperedge_counts \in Nat
    BY <2>1, <2>3 DEF FieldsFit
  <2>. QED  BY <2>4, VectorFacts
<1>3. g - 1 \in Nat /\ g - 1 \in 0..Len(fields) /\ (g - 1) + 1 = g
  BY <1>1
<1>. HIDE DEF nodes, hyperedges
<1>4. SumTo(nodes, g - 1) \in Nat /\ SumTo(hyperedges, g - 1) \in Nat
  BY <1>1, <1>2, <1>3, SumNat
<1>5. SumTo(nodes, (g - 1) + 1) = SumTo(nodes, g - 1) + nodes[(g - 1) + 1]
  BY <1>3, SumSteps
<1>. QED  BY <1>2, <1>3, <1>4, <1>5 DEF NodesBefore, HyperedgesBefore, nodes, hyperedges

\* The names of a batch, nested again.
LEMMA NamesNest ==
  ASSUME NEW fields, AllFieldsFit(fields)
  PROVE  NestedNames(NativeBatch(fields).object_names, ObjectCounts(NativeBatch(fields)))
           = PerGraph(fields, "object_names")
<1>. DEFINE b == NativeBatch(fields)
            names == PerGraph(fields, "object_names")
            rows == PerGraph(fields, "x_ids")
            sizes == PerGraph(fields, "num_nodes")
            counts == ObjectCounts(b)
<1>1. "object_names" \in RowKeys /\ "x_ids" \in RowKeys /\ "num_nodes" \in GraphKeys
  BY DEF RowKeys, GraphKeys
<1>2. b.object_names = FlattenSeq(names) /\ b.x_ids = FlattenSeq(rows) /\ b.num_nodes = sizes
  BY <1>1, NativeIs DEF Concatenated
<1>3. Len(fields) \in Nat /\ DOMAIN fields = 1..Len(fields) /\ IsVector(fields)
  BY VectorFacts DEF AllFieldsFit
<1>4. \A g \in DOMAIN fields : FieldsFit(fields[g])
  BY DEF AllFieldsFit
<1>5. PICK T : names \in Seq(Seq(T)) /\ Len(names) = Len(fields)
  <2>1. \A g \in DOMAIN fields : IsVector(fields[g]["object_names"])
    BY <1>1, <1>4 DEF FieldsFit
  <2>. QED  BY <1>3, <2>1, PerGraphParts
<1>6. PICK U : rows \in Seq(Seq(U)) /\ Len(rows) = Len(fields)
  <2>1. \A g \in DOMAIN fields : IsVector(fields[g]["x_ids"])
    BY <1>1, <1>4 DEF FieldsFit
  <2>. QED  BY <1>3, <2>1, PerGraphParts
<1>7. \A g \in DOMAIN fields : /\ names[g] = fields[g].object_names /\ rows[g] = fields[g].x_ids
                               /\ sizes[g] = Len(rows[g])
  BY <1>4 DEF PerGraph, FieldsFit
<1>8. DOMAIN sizes = DOMAIN fields
  BY DEF PerGraph
<1>. HIDE DEF b, names, rows, sizes
<1>9. ASSUME NEW g \in DOMAIN fields
      PROVE  counts[g] = Len(names[g])
  <2>1. counts[g] = Cardinality(ObjectPlaces(CatSlice(FlattenSeq(rows), sizes, g)))
    BY <1>2, <1>8 DEF ObjectCounts
  <2>2. CatSlice(FlattenSeq(rows), sizes, g) = rows[g]
    <3>1. \A i \in 1..Len(rows) : sizes[i] = Len(rows[i])
      BY <1>3, <1>6, <1>7
    <3>2. g \in 1..Len(rows)
      BY <1>3, <1>6
    <3>. QED  BY <1>6, <3>1, <3>2, Sliced
  <2>3. Cardinality(ObjectPlaces(fields[g].x_ids)) = Len(fields[g].object_names)
    BY <1>4 DEF FieldsFit
  <2>. QED  BY <1>7, <2>1, <2>2, <2>3
<1>10. DOMAIN counts = DOMAIN fields
  BY <1>2, <1>8 DEF ObjectCounts
<1>. HIDE DEF counts
<1>11. ASSUME NEW g \in DOMAIN fields
       PROVE  CatSlice(FlattenSeq(names), counts, g) = names[g]
  <2>1. \A i \in 1..Len(names) : counts[i] = Len(names[i])
    BY <1>3, <1>5, <1>9
  <2>2. g \in 1..Len(names)
    BY <1>3, <1>5
  <2>. QED  BY <1>5, <2>1, <2>2, Sliced
<1>12. NestedNames(b.object_names, counts) = [g \in DOMAIN fields |-> names[g]]
  BY <1>2, <1>10, <1>11 DEF NestedNames
<1>13. names = [g \in DOMAIN fields |-> names[g]]
  BY DEF names, PerGraph
<1>. QED  BY <1>12, <1>13 DEF counts, b, names

LEMMA SumOfOne ==
  ASSUME NEW n \in Int
  PROVE  SumOf(<<n>>) = n
<1>1. Len(<<n>>) = 1 /\ <<n>>[1] = n
  OBVIOUS
<1>2. SumTo(<<n>>, 0) = 0 /\ SumTo(<<n>>, 0 + 1) = SumTo(<<n>>, 0) + <<n>>[0 + 1]
  BY SumSteps
<1>. QED  BY <1>1, <1>2 DEF SumOf

\* The only part of a concatenation.
LEMMA OnlyPart ==
  ASSUME NEW t, IsVector(t), NEW x, NEW s, s = [g \in DOMAIN <<x>> |-> t]
  PROVE  FlattenSeq(s) = t
<1>1. DOMAIN <<x>> = 1..1
  BY SingleVector
<1>2. t \in Seq(ToSet(t))
  BY DEF IsVector
<1>3. DOMAIN s = 1..1 /\ s \in [1..1 -> {t}]
  BY <1>1
<1>. QED  BY <1>2, <1>3, FlattenedOne

LEMMA NothingInFront ==
  ASSUME NEW f
  PROVE  NodesBefore(<<f>>, 1) = 0 /\ HyperedgesBefore(<<f>>, 1) = 0
<1>1. 1 - 1 = 0
  OBVIOUS
<1>. QED  BY <1>1, SumSteps DEF NodesBefore, HyperedgesBefore

LEMMA EdgesBehindNone ==
  ASSUME NEW edges, IsVector(edges), \A k \in DOMAIN edges : IsEdgeRow(edges[k])
  PROVE  EdgesBehind(edges, 0) = edges
<1>1. ASSUME NEW k \in DOMAIN edges
      PROVE  [edges[k] EXCEPT !.src = @ + 0, !.dst = @ + 0] = edges[k]
  <2>. DEFINE e == edges[k]
  <2>1. /\ e.src \in Int /\ e.dst \in Int
        /\ e = [src |-> e.src, dst |-> e.dst, kind |-> e.kind, positions |-> e.positions,
                channels |-> e.channels]
    BY DEF IsEdgeRow
  <2>2. e.src + 0 = e.src /\ e.dst + 0 = e.dst
    BY <2>1
  <2>. HIDE DEF e
  <2>3. [e EXCEPT !.src = @ + 0, !.dst = @ + 0] = e
    BY <2>1, <2>2
  <2>. QED  BY <2>3 DEF e
<1>2. edges = [k \in DOMAIN edges |-> edges[k]]
  BY VectorFacts
<1>. QED  BY <1>1, <1>2 DEF EdgesBehind

\* A batch of one graph has its fields as they are.
LEMMA OneIs ==
  ASSUME NEW f, FieldsFit(f)
  PROVE  /\ AllFieldsFit(<<f>>)
         /\ \A key \in RowKeys : NativeBatch(<<f>>)[key] = f[key]
         /\ \A key \in GraphKeys : NativeBatch(<<f>>)[key] = <<f[key]>>
         /\ \A key \in NodeColumns : NativeBatch(<<f>>)[key] = f[key]
         /\ NativeBatch(<<f>>).hyperedge_ids = f.hyperedge_ids
         /\ NativeBatch(<<f>>).edges = f.edges
<1>1. /\ IsVector(<<f>>) /\ DOMAIN <<f>> = 1..1 /\ <<f>>[1] = f
      /\ \A g \in DOMAIN <<f>> : g = 1 /\ <<f>>[g] = f
  BY SingleVector
<1>2. AllFieldsFit(<<f>>)
  BY <1>1 DEF AllFieldsFit
<1>3. ASSUME NEW key \in RowKeys
      PROVE  Concatenated(<<f>>, key) = f[key]
  <2>1. IsVector(f[key])
    BY DEF FieldsFit
  <2>2. PerGraph(<<f>>, key) = [g \in DOMAIN <<f>> |-> f[key]]
    BY <1>1 DEF PerGraph
  <2>. QED  BY <2>1, <2>2, OnlyPart DEF Concatenated
<1>4. ASSUME NEW key \in GraphKeys
      PROVE  PerGraph(<<f>>, key) = <<f[key]>>
  <2>1. PerGraph(<<f>>, key) = [g \in 1..1 |-> f[key]]
    BY <1>1 DEF PerGraph
  <2>2. <<f[key]>> = [g \in 1..1 |-> f[key]]
    BY SingleVector
  <2>. QED  BY <2>1, <2>2
<1>5. ASSUME NEW s \in Seq(Int)
      PROVE  Shifted(s, 0) = s /\ IsVector(s)
  <2>1. DOMAIN s = 1..Len(s) /\ \A k \in 1..Len(s) : s[k] \in ToSet(s)
    BY LenProperties DEF ToSet
  <2>2. s \in Seq(ToSet(s))
    <3>1. s \in [1..Len(s) -> ToSet(s)] /\ Len(s) \in Nat
      BY <2>1, LenProperties
    <3>. QED  BY <3>1, SeqOfLength
  <2>. QED  BY <2>2, ShiftedByNone DEF IsVector
<1>6. ASSUME NEW key \in NodeColumns
      PROVE  OnNodes(<<f>>, key) = f[key]
  <2>1. f[key] \in Seq(Int)
    BY DEF FieldsFit
  <2>2. IsVector(f[key]) /\ Shifted(f[key], 0) = f[key]
    BY <2>1, <1>5
  <2>3. [g \in DOMAIN <<f>> |-> Shifted(<<f>>[g][key], NodesBefore(<<f>>, g))] = [g \in DOMAIN <<f>> |-> f[key]]
    BY <1>1, <2>2, NothingInFront
  <2>. QED  BY <2>2, <2>3, OnlyPart DEF OnNodes
<1>7. OnHyperedges(<<f>>, "hyperedge_ids") = f.hyperedge_ids
  <2>1. f.hyperedge_ids \in Seq(Int)
    <3>1. f.hyperedge_counts \in Nat /\ f.hyperedge_ids = [k \in 1..f.hyperedge_counts |-> k - 1]
      BY DEF FieldsFit
    <3>2. f.hyperedge_ids \in [1..f.hyperedge_counts -> Int]
      BY <3>1
    <3>. QED  BY <3>1, <3>2, SeqOfLength
  <2>2. IsVector(f.hyperedge_ids) /\ Shifted(f.hyperedge_ids, 0) = f.hyperedge_ids
    BY <2>1, <1>5
  <2>3. [g \in DOMAIN <<f>> |-> Shifted(<<f>>[g]["hyperedge_ids"], HyperedgesBefore(<<f>>, g))]
          = [g \in DOMAIN <<f>> |-> f.hyperedge_ids]
    BY <1>1, <2>2, NothingInFront
  <2>. QED  BY <2>2, <2>3, OnlyPart DEF OnHyperedges
<1>8. FlattenSeq([g \in DOMAIN <<f>> |-> EdgesBehind(<<f>>[g].edges, NodesBefore(<<f>>, g))]) = f.edges
  <2>1. IsVector(f.edges) /\ EdgesBehind(f.edges, 0) = f.edges
    BY EdgesBehindNone DEF FieldsFit
  <2>2. [g \in DOMAIN <<f>> |-> EdgesBehind(<<f>>[g].edges, NodesBefore(<<f>>, g))]
          = [g \in DOMAIN <<f>> |-> f.edges]
    BY <1>1, <2>1, NothingInFront
  <2>. QED  BY <2>1, <2>2, OnlyPart
<1>. QED  BY <1>2, <1>3, <1>4, <1>6, <1>7, <1>8, NativeIs

\* Ids and sizes of the hyperedges of a batch.
LEMMA HyperedgesJoin ==
  ASSUME NEW fields, AllFieldsFit(fields)
  PROVE  LET b == NativeBatch(fields)
             sizes == PerGraph(fields, "hyperedge_sizes")
         IN  /\ sizes \in Seq(Seq(Nat)) /\ Len(sizes) = Len(fields)
             /\ \A g \in 1..Len(fields) : /\ sizes[g] = fields[g].hyperedge_sizes
                                          /\ HyperedgesBefore(fields, g) = SumTo(Lengths(sizes), g - 1)
                                          /\ HyperedgesBefore(fields, g) \in Nat
             /\ b.hyperedge_sizes = FlattenSeq(sizes) /\ b.hyperedge_sizes \in Seq(Nat)
             /\ b.hyperedge_ids = [k \in 1..Len(b.hyperedge_sizes) |-> k - 1]
<1>. DEFINE b == NativeBatch(fields)
            sizes == PerGraph(fields, "hyperedge_sizes")
            counts == [h \in DOMAIN fields |-> fields[h].hyperedge_counts]
            s == [g \in DOMAIN fields |-> Shifted(fields[g]["hyperedge_ids"], HyperedgesBefore(fields, g))]
            total == Len(FlattenSeq(sizes))
            t == [k \in 1..total |-> k - 1]
<1>1. /\ Len(fields) \in Nat /\ DOMAIN fields = 1..Len(fields)
      /\ \A g \in 1..Len(fields) : FieldsFit(fields[g])
  BY VectorFacts DEF AllFieldsFit
<1>2. ASSUME NEW g \in 1..Len(fields)
      PROVE  /\ sizes[g] = fields[g].hyperedge_sizes /\ sizes[g] \in Seq(Nat)
             /\ Len(sizes[g]) = counts[g] /\ counts[g] \in Nat
             /\ fields[g].hyperedge_ids = [k \in 1..counts[g] |-> k - 1]
  <2>1. FieldsFit(fields[g])
    BY <1>1
  <2>2. /\ fields[g].hyperedge_counts \in Nat /\ Len(fields[g].hyperedge_sizes) = fields[g].hyperedge_counts
        /\ \A k \in 1..fields[g].hyperedge_counts : fields[g].hyperedge_sizes[k] \in Nat
        /\ fields[g].hyperedge_ids = [k \in 1..fields[g].hyperedge_counts |-> k - 1]
    BY <2>1 DEF FieldsFit
  <2>3. IsVector(fields[g]["hyperedge_sizes"])
    BY <2>1 DEF FieldsFit, RowKeys
  <2>4. fields[g].hyperedge_sizes \in Seq(Nat)
    <3>. DEFINE own == fields[g].hyperedge_sizes
    <3>1. own = [i \in 1..Len(own) |-> own[i]] /\ Len(own) \in Nat
      BY <2>3, VectorFacts
    <3>2. \A i \in 1..Len(own) : own[i] \in Nat
      BY <2>2
    <3>. HIDE DEF own
    <3>3. own \in [1..Len(own) -> Nat]
      BY <3>1, <3>2
    <3>4. own \in Seq(Nat)
      BY <3>1, <3>3, SeqOfLength
    <3>. QED  BY <3>4 DEF own
  <2>. QED  BY <1>1, <2>2, <2>4 DEF PerGraph
<1>. HIDE DEF counts
<1>3. sizes \in Seq(Seq(Nat)) /\ Len(sizes) = Len(fields) /\ DOMAIN sizes = 1..Len(fields)
  <2>1. DOMAIN sizes = 1..Len(fields) /\ sizes = [g \in 1..Len(fields) |-> sizes[g]]
    BY <1>1 DEF PerGraph
  <2>. HIDE DEF sizes
  <2>. QED  BY <1>1, <1>2, <2>1, SeqOfSeqs
<1>4. "hyperedge_sizes" \in RowKeys
  BY DEF RowKeys
<1>5. b.hyperedge_sizes = FlattenSeq(sizes) /\ b.hyperedge_ids = FlattenSeq(s)
  BY <1>4, NativeIs DEF Concatenated, OnHyperedges
<1>. HIDE DEF b, sizes
<1>6. FlattenSeq(sizes) \in Seq(Nat) /\ total = SumTo(Lengths(sizes), Len(sizes)) /\ total \in Nat
  <2>1. FlattenSeq(sizes) \in Seq(Nat) /\ total = SumTo(Lengths(sizes), Len(sizes))
    BY <1>3, Flattened
  <2>. QED  BY <2>1, LenProperties
<1>. HIDE DEF total
<1>7. ASSUME NEW g \in 1..Len(fields)
      PROVE  /\ HyperedgesBefore(fields, g) = SumTo(Lengths(sizes), g - 1)
             /\ HyperedgesBefore(fields, g) \in Nat
             /\ HyperedgesBefore(fields, g) + counts[g] <= total
  <2>1. \A h \in 1..(g - 1) : counts[h] = Lengths(sizes)[h]
    <3>1. \A h \in 1..(g - 1) : h \in 1..Len(fields)
      BY <1>1
    <3>2. \A h \in 1..Len(fields) : Lengths(sizes)[h] = Len(sizes[h])
      BY <1>3 DEF Lengths
    <3>. QED  BY <1>2, <3>1, <3>2
  <2>2. g - 1 \in Nat
    BY <1>1
  <2>3. SumTo(counts, g - 1) = SumTo(Lengths(sizes), g - 1)
    BY <2>1, <2>2, SumSame
  <2>4. HyperedgesBefore(fields, g) = SumTo(counts, g - 1)
    BY DEF HyperedgesBefore, counts
  <2>5. /\ SumTo(Lengths(sizes), g - 1) \in Nat
        /\ SumTo(Lengths(sizes), g - 1) + Len(sizes[g]) <= Len(FlattenSeq(sizes))
    BY <1>3, FlattenedPart
  <2>. QED  BY <1>2, <2>3, <2>4, <2>5 DEF total
<1>8. ASSUME NEW g \in 1..Len(fields)
      PROVE  /\ s[g] \in Seq(Int) /\ Len(s[g]) = counts[g]
             /\ \A k \in 1..counts[g] : s[g][k] = HyperedgesBefore(fields, g) + (k - 1)
  <2>. DEFINE ids == fields[g].hyperedge_ids
              by == HyperedgesBefore(fields, g)
  <2>1. s[g] = Shifted(ids, by)
    BY <1>1
  <2>2. counts[g] \in Nat /\ ids = [k \in 1..counts[g] |-> k - 1] /\ by \in Int
    <3>1. counts[g] \in Nat /\ ids = [k \in 1..counts[g] |-> k - 1]
      BY <1>2
    <3>2. by \in Int
      BY <1>7
    <3>. QED  BY <3>1, <3>2
  <2>3. ids \in Seq(Int) /\ Len(ids) = counts[g]
    <3>. DEFINE n == counts[g]
    <3>1. ids \in [1..n -> Int] /\ n \in Nat
      BY <2>2
    <3>. HIDE DEF ids, n
    <3>2. ids \in Seq(Int) /\ Len(ids) = n
      BY <3>1, SeqOfLength
    <3>. QED  BY <3>2 DEF n
  <2>4. \A k \in 1..counts[g] : ids[k] = k - 1
    BY <2>2
  <2>. HIDE DEF ids, by
  <2>5. /\ Shifted(ids, by) \in Seq(Int) /\ Len(Shifted(ids, by)) = Len(ids)
        /\ \A k \in 1..Len(ids) : Shifted(ids, by)[k] = ids[k] + by
    BY <2>2, <2>3, ShiftedIs
  <2>6. \A k \in 1..counts[g] : Shifted(ids, by)[k] = by + (k - 1)
    <3>. DEFINE n == counts[g]
    <3>1. by \in Int /\ Len(ids) = n /\ \A k \in 1..n : k \in Int /\ ids[k] = k - 1
      BY <2>2, <2>3, <2>4
    <3>2. \A k \in 1..n : Shifted(ids, by)[k] = ids[k] + by
      BY <2>5, <3>1
    <3>. HIDE DEF n
    <3>3. \A k \in 1..n : Shifted(ids, by)[k] = by + (k - 1)
      BY <3>1, <3>2
    <3>. QED  BY <3>3 DEF n
  <2>. QED  BY <2>1, <2>3, <2>5, <2>6 DEF by
<1>9. s \in Seq(Seq(Int)) /\ Len(s) = Len(fields) /\ DOMAIN s = 1..Len(fields)
  <2>1. DOMAIN s = 1..Len(fields) /\ s = [g \in 1..Len(fields) |-> s[g]]
    BY <1>1
  <2>. HIDE DEF s
  <2>. QED  BY <1>1, <1>8, <2>1, SeqOfSeqs
<1>10. Lengths(s) = Lengths(sizes)
  BY <1>2, <1>3, <1>8, <1>9 DEF Lengths
<1>11. t \in Seq(Int) /\ Len(t) = total
  <2>1. t \in [1..total -> Int]
    BY <1>6
  <2>. HIDE DEF t
  <2>. QED  BY <1>6, <2>1, SeqOfLength
<1>12. ASSUME NEW g \in 1..Len(s), NEW k \in 1..Len(s[g])
       PROVE  t[SumTo(Lengths(s), g - 1) + k] = s[g][k]
  <2>. DEFINE by == HyperedgesBefore(fields, g)
              count == counts[g]
  <2>1. g \in 1..Len(fields) /\ k \in 1..count
    BY <1>8, <1>9
  <2>2. /\ SumTo(Lengths(s), g - 1) = by /\ s[g][k] = by + (k - 1)
        /\ by \in Nat /\ count \in Nat /\ by + count <= total
    BY <1>2, <1>7, <1>8, <1>10, <2>1
  <2>. HIDE DEF by, count
  <2>3. by + k \in 1..total /\ (by + k) - 1 = by + (k - 1)
    BY <1>6, <2>1, <2>2
  <2>. QED  BY <2>2, <2>3
<1>. HIDE DEF s, t
<1>13. FlattenSeq(s) = t
  <2>1. Len(t) = SumTo(Lengths(s), Len(s))
    BY <1>3, <1>6, <1>9, <1>10, <1>11
  <2>. QED  BY <1>9, <1>11, <1>12, <2>1, IsFlattened
<1>14. Len(b.hyperedge_sizes) = total
  BY <1>5 DEF total
<1>. QED  BY <1>2, <1>3, <1>5, <1>6, <1>7, <1>13, <1>14 DEF b, sizes, t

Repeated(n, size) == [i \in 1..size |-> n]

LEMMA RepeatedIs ==
  ASSUME NEW n \in Int, NEW size \in Nat
  PROVE  /\ Repeated(n, size) \in Seq(Int) /\ Len(Repeated(n, size)) = size
         /\ \A by \in Int : Shifted(Repeated(n, size), by) = Repeated(n + by, size)
<1>1. Repeated(n, size) \in [1..size -> Int] /\ DOMAIN Repeated(n, size) = 1..size
  BY DEF Repeated
<1>2. Repeated(n, size) \in Seq(Int) /\ Len(Repeated(n, size)) = size
  <2>. DEFINE s == Repeated(n, size)
  <2>1. s \in [1..size -> Int]
    BY <1>1
  <2>. HIDE DEF s
  <2>2. s \in Seq(Int) /\ Len(s) = size
    BY <2>1, SeqOfLength
  <2>. QED  BY <2>2 DEF s
<1>3. \A by \in Int : Shifted(Repeated(n, size), by) = Repeated(n + by, size)
  BY <1>1 DEF Shifted, Repeated
<1>. QED  BY <1>2, <1>3

\* The owners of the places of hyperedges, row by row.
OwnersOf(sizes, first) == [n \in DOMAIN sizes |-> Repeated(first + (n - 1), sizes[n])]

LEMMA OwnersAre ==
  ASSUME NEW sizes \in Seq(Nat), NEW first \in Int
  PROVE  /\ OwnersOf(sizes, first) \in Seq(Seq(Int)) /\ Len(OwnersOf(sizes, first)) = Len(sizes)
         /\ \A n \in 1..Len(sizes) :
              /\ OwnersOf(sizes, first)[n] = Repeated(first + (n - 1), sizes[n])
              /\ Len(OwnersOf(sizes, first)[n]) = sizes[n]
         /\ Interleaved([k \in 1..Len(sizes) |-> k - 1], sizes) = FlattenSeq(OwnersOf(sizes, 0))
<1>1. Len(sizes) \in Nat /\ DOMAIN sizes = 1..Len(sizes) /\ \A n \in 1..Len(sizes) : sizes[n] \in Nat
  BY LenProperties, ElementOfSeq
<1>. DEFINE rows == OwnersOf(sizes, first)
<1>2. ASSUME NEW n \in 1..Len(sizes)
      PROVE  /\ rows[n] = Repeated(first + (n - 1), sizes[n]) /\ rows[n] \in Seq(Int)
             /\ Len(rows[n]) = sizes[n]
  <2>1. rows[n] = Repeated(first + (n - 1), sizes[n])
    BY <1>1 DEF OwnersOf
  <2>. DEFINE number == first + (n - 1)
              size == sizes[n]
  <2>2. number \in Int /\ size \in Nat
    BY <1>1
  <2>. HIDE DEF number, size
  <2>3. Repeated(number, size) \in Seq(Int) /\ Len(Repeated(number, size)) = size
    BY <2>2, RepeatedIs
  <2>. QED  BY <2>1, <2>3 DEF number, size
<1>3. DOMAIN rows = 1..Len(sizes) /\ rows = [n \in 1..Len(sizes) |-> rows[n]]
  BY <1>1 DEF OwnersOf
<1>4. rows \in Seq(Seq(Int)) /\ Len(rows) = Len(sizes)
  <2>. HIDE DEF rows
  <2>. QED  BY <1>1, <1>2, <1>3, SeqOfSeqs
<1>5. Interleaved([k \in 1..Len(sizes) |-> k - 1], sizes) = FlattenSeq(OwnersOf(sizes, 0))
  <2>1. \A k \in 1..Len(sizes) : 0 + (k - 1) = k - 1
    BY <1>1
  <2>2. OwnersOf(sizes, 0) = [k \in 1..Len(sizes) |-> [i \in 1..sizes[k] |-> k - 1]]
    BY <1>1, <2>1 DEF OwnersOf, Repeated
  <2>. DEFINE ids == [k \in 1..Len(sizes) |-> k - 1]
  <2>3. DOMAIN ids = 1..Len(sizes) /\ \A k \in 1..Len(sizes) : ids[k] = k - 1
    OBVIOUS
  <2>. HIDE DEF ids
  <2>4. [k \in DOMAIN ids |-> [i \in 1..sizes[k] |-> ids[k]]]
          = [k \in 1..Len(sizes) |-> [i \in 1..sizes[k] |-> k - 1]]
    BY <2>3
  <2>5. Interleaved(ids, sizes) = FlattenSeq(OwnersOf(sizes, 0))
    BY <2>2, <2>4 DEF Interleaved
  <2>. QED  BY <2>5 DEF ids
<1>. QED  BY <1>2, <1>4, <1>5

\* The owners of a batch are those of its graphs, counted on.
LEMMA OwnersJoin ==
  ASSUME NEW fields, AllFieldsFit(fields)
  PROVE  Interleaved(NativeBatch(fields).hyperedge_ids, NativeBatch(fields).hyperedge_sizes)
           = FlattenSeq([g \in DOMAIN fields |->
               Shifted(Interleaved(fields[g].hyperedge_ids, fields[g].hyperedge_sizes),
                       HyperedgesBefore(fields, g))])
<1>. DEFINE b == NativeBatch(fields)
            sizes == PerGraph(fields, "hyperedge_sizes")
            all == b.hyperedge_sizes
            by == [g \in 1..Len(fields) |-> HyperedgesBefore(fields, g)]
            w == [g \in 1..Len(fields) |-> OwnersOf(sizes[g], 0)]
            v == RowsBehind(w, by)
            right == [g \in DOMAIN fields |->
                        Shifted(Interleaved(fields[g].hyperedge_ids, fields[g].hyperedge_sizes),
                                HyperedgesBefore(fields, g))]
<1>1. /\ Len(fields) \in Nat /\ DOMAIN fields = 1..Len(fields)
      /\ \A g \in 1..Len(fields) : FieldsFit(fields[g])
  BY VectorFacts DEF AllFieldsFit
<1>2. /\ sizes \in Seq(Seq(Nat)) /\ Len(sizes) = Len(fields)
      /\ all = FlattenSeq(sizes) /\ all \in Seq(Nat)
      /\ b.hyperedge_ids = [k \in 1..Len(all) |-> k - 1]
      /\ \A g \in 1..Len(fields) : /\ sizes[g] = fields[g].hyperedge_sizes
                                   /\ HyperedgesBefore(fields, g) = SumTo(Lengths(sizes), g - 1)
                                   /\ HyperedgesBefore(fields, g) \in Nat
  BY HyperedgesJoin
<1>. HIDE DEF b, sizes
<1>3. /\ \A g \in 1..Len(fields) : sizes[g] \in Seq(Nat) /\ Len(sizes[g]) \in Nat
      /\ DOMAIN sizes = 1..Len(fields)
  BY <1>2, LenProperties, ElementOfSeq
<1>4. \A g \in 1..Len(fields) :
        /\ w[g] = OwnersOf(sizes[g], 0) /\ w[g] \in Seq(Seq(Int)) /\ Len(w[g]) = Len(sizes[g])
        /\ \A n \in 1..Len(sizes[g]) : w[g][n] = Repeated(0 + (n - 1), sizes[g][n])
  <2>1. 0 \in Int
    OBVIOUS
  <2>. QED  BY <1>3, <2>1, OwnersAre
<1>5. w \in Seq(Seq(Seq(Int))) /\ Len(w) = Len(fields) /\ DOMAIN w = 1..Len(fields)
  <2>1. DOMAIN w = 1..Len(fields) /\ w = [g \in 1..Len(fields) |-> w[g]]
    OBVIOUS
  <2>. HIDE DEF w
  <2>. QED  BY <1>1, <1>4, <2>1, SeqOfSeqs
<1>6. \A g \in 1..Len(fields) : by[g] = HyperedgesBefore(fields, g) /\ by[g] \in Nat /\ by[g] \in Int
  BY <1>2
<1>7. right = ColumnBehind(w, by)
  <2>1. ASSUME NEW g \in 1..Len(fields)
        PROVE  Interleaved(fields[g].hyperedge_ids, fields[g].hyperedge_sizes) = FlattenSeq(w[g])
    <3>1. fields[g].hyperedge_ids = [k \in 1..fields[g].hyperedge_counts |-> k - 1]
          /\ Len(fields[g].hyperedge_sizes) = fields[g].hyperedge_counts
      BY <1>1 DEF FieldsFit
    <3>2. fields[g].hyperedge_ids = [k \in 1..Len(sizes[g]) |-> k - 1]
          /\ fields[g].hyperedge_sizes = sizes[g]
      BY <1>2, <3>1
    <3>3. 0 \in Int /\ sizes[g] \in Seq(Nat)
      BY <1>3
    <3>4. Interleaved([k \in 1..Len(sizes[g]) |-> k - 1], sizes[g]) = FlattenSeq(OwnersOf(sizes[g], 0))
      BY <3>3, OwnersAre
    <3>. QED  BY <1>4, <3>2, <3>4
  <2>2. \A g \in 1..Len(fields) : HyperedgesBefore(fields, g) = by[g]
    BY <1>6
  <2>. HIDE DEF by, w
  <2>. QED  BY <1>1, <1>5, <2>1, <2>2 DEF ColumnBehind
<1>. HIDE DEF w, by, right
<1>8. /\ v \in Seq(Seq(Seq(Int))) /\ Len(v) = Len(w) /\ Lengths(v) = Lengths(w)
      /\ \A g \in 1..Len(w) : /\ Len(v[g]) = Len(w[g])
                              /\ \A n \in 1..Len(w[g]) : v[g][n] = Shifted(w[g][n], by[g])
      /\ FlattenSeq(v) \in Seq(Seq(Int))
      /\ FlattenSeq(ColumnBehind(w, by)) = FlattenSeq(FlattenSeq(v))
  <2>1. \A g \in 1..Len(w) : by[g] \in Int
    BY <1>5, <1>6
  <2>. QED  BY <1>5, <2>1, ColumnOfRows
<1>. HIDE DEF v
<1>9. Lengths(v) = Lengths(sizes)
  BY <1>2, <1>3, <1>4, <1>5, <1>8 DEF Lengths
<1>. DEFINE rows == OwnersOf(all, 0)
<1>10. /\ rows \in Seq(Seq(Int)) /\ Len(rows) = Len(all)
       /\ \A n \in 1..Len(all) : rows[n] = Repeated(0 + (n - 1), all[n])
       /\ Interleaved(b.hyperedge_ids, all) = FlattenSeq(rows)
  <2>1. 0 \in Int
    OBVIOUS
  <2>. QED  BY <1>2, <2>1, OwnersAre
<1>11. Len(rows) = SumTo(Lengths(v), Len(v))
  <2>1. Len(all) = SumTo(Lengths(sizes), Len(sizes))
    BY <1>2, Flattened
  <2>. QED  BY <1>2, <1>5, <1>8, <1>9, <1>10, <2>1
<1>. HIDE DEF rows
<1>12. ASSUME NEW g \in 1..Len(v), NEW n \in 1..Len(v[g])
       PROVE  rows[SumTo(Lengths(v), g - 1) + n] = v[g][n]
  <2>. DEFINE before == by[g]
              size == sizes[g][n]
  <2>1. g \in 1..Len(fields) /\ n \in 1..Len(w[g]) /\ n \in 1..Len(sizes[g]) /\ g \in 1..Len(w)
    BY <1>4, <1>5, <1>8
  <2>2. SumTo(Lengths(v), g - 1) = before /\ before \in Nat
    BY <1>2, <1>6, <1>9, <2>1
  <2>3. /\ before + Len(sizes[g]) <= Len(all) /\ Len(all) \in Nat /\ Len(sizes[g]) \in Nat
        /\ all[before + n] = sizes[g][n]
    <3>1. g \in 1..Len(sizes) /\ SumTo(Lengths(sizes), g - 1) = before
      BY <1>2, <1>6, <2>1
    <3>2. /\ SumTo(Lengths(sizes), g - 1) + Len(sizes[g]) <= Len(all)
          /\ Len(all) \in Nat /\ Len(sizes[g]) \in Nat
      BY <1>2, <3>1, FlattenedPart
    <3>3. all[SumTo(Lengths(sizes), g - 1) + n] = sizes[g][n]
      BY <1>2, <2>1, <3>1, Flattened
    <3>. QED  BY <3>1, <3>2, <3>3
  <2>4. size \in Nat
    BY <1>3, <2>1, ElementOfSeq
  <2>5. v[g][n] = Shifted(Repeated(0 + (n - 1), size), before)
    BY <1>4, <1>8, <2>1
  <2>. HIDE DEF before
  <2>6. before + n \in 1..Len(all) /\ 0 + (n - 1) \in Int /\ before \in Int
        /\ (0 + (n - 1)) + before = 0 + ((before + n) - 1)
    <3>. DEFINE width == Len(sizes[g])
    <3>1. n \in 1..width /\ width \in Nat /\ before + width <= Len(all) /\ Len(all) \in Nat
      BY <2>1, <2>3
    <3>. HIDE DEF width, all
    <3>. QED  BY <2>2, <3>1
  <2>7. rows[before + n] = Repeated(0 + ((before + n) - 1), size)
    BY <1>10, <2>3, <2>6
  <2>8. Shifted(Repeated(0 + (n - 1), size), before) = Repeated((0 + (n - 1)) + before, size)
    BY <2>4, <2>6, RepeatedIs
  <2>. QED  BY <2>2, <2>5, <2>6, <2>7, <2>8
<1>13. FlattenSeq(v) = rows
  BY <1>8, <1>10, <1>11, <1>12, IsFlattened
<1>14. Interleaved(b.hyperedge_ids, all) = FlattenSeq(right)
  BY <1>7, <1>8, <1>10, <1>13
<1>. QED  BY <1>14 DEF b, right

CarrierKeys ==
  {"node_sizes", "x_ids", "edges", "object_names", "instance_node_indices", "hyperedge_nodes",
   "hyperedge_owners", "hyperedge_attr_ids", "num_hyperedges", "tuple_args", "tuple_sizes",
   "tuple_attr_ids", "num_tuples", "spd_src", "spd_dst", "spd_dist", "history_dt_offset",
   "anchor_index"}

LEMMA CarrierHas ==
  ASSUME NEW b
  PROVE  /\ DOMAIN Carrier(b) = CarrierKeys
         /\ Carrier(b) = [key \in CarrierKeys |-> Carrier(b)[key]]
         /\ Carrier(b)["node_sizes"] = b.num_nodes
         /\ Carrier(b)["x_ids"] = b.x_ids
         /\ Carrier(b)["edges"] = b.edges
         /\ Carrier(b)["object_names"] = NestedNames(b.object_names, ObjectCounts(b))
         /\ Carrier(b)["instance_node_indices"] = b.instance_node_indices
         /\ Carrier(b)["hyperedge_nodes"] = b.hyperedge_node_indices
         /\ Carrier(b)["hyperedge_owners"] = Interleaved(b.hyperedge_ids, b.hyperedge_sizes)
         /\ Carrier(b)["hyperedge_attr_ids"] = b.hyperedge_attr_rows
         /\ Carrier(b)["num_hyperedges"] = b.hyperedge_counts
         /\ Carrier(b)["tuple_args"] = b.tuple_args
         /\ Carrier(b)["tuple_sizes"] = b.tuple_slot_sizes
         /\ Carrier(b)["tuple_attr_ids"] = b.tuple_attrs
         /\ Carrier(b)["num_tuples"] = b.tuple_counts
         /\ Carrier(b)["spd_src"] = b.spd_src
         /\ Carrier(b)["spd_dst"] = b.spd_dst
         /\ Carrier(b)["spd_dist"] = b.spd_dist
         /\ Carrier(b)["history_dt_offset"] = b.history_dt_offset
         /\ Carrier(b)["anchor_index"] = b.anchor_index
<1>1. DOMAIN Carrier(b) = CarrierKeys /\ Carrier(b) = [key \in CarrierKeys |-> Carrier(b)[key]]
  BY DEF Carrier, CarrierKeys
<1>. QED  BY <1>1 DEF Carrier

\* The carrier of a single graph has its fields.
LEMMA SingleCarrier ==
  ASSUME NEW f, FieldsFit(f), NEW carrier, carrier = Carrier(NativeBatch(<<f>>))
  PROVE  /\ carrier["node_sizes"] = <<f.num_nodes>>
         /\ carrier["x_ids"] = f.x_ids
         /\ carrier["edges"] = f.edges
         /\ carrier["object_names"] = <<f.object_names>>
         /\ carrier["instance_node_indices"] = f.instance_node_indices
         /\ carrier["hyperedge_nodes"] = f.hyperedge_node_indices
         /\ carrier["hyperedge_owners"] = Interleaved(f.hyperedge_ids, f.hyperedge_sizes)
         /\ carrier["hyperedge_attr_ids"] = f.hyperedge_attr_rows
         /\ carrier["num_hyperedges"] = <<f.hyperedge_counts>>
         /\ carrier["tuple_args"] = f.tuple_args
         /\ carrier["tuple_sizes"] = f.tuple_slot_sizes
         /\ carrier["tuple_attr_ids"] = f.tuple_attrs
         /\ carrier["num_tuples"] = <<f.tuple_counts>>
         /\ carrier["spd_src"] = f.spd_src
         /\ carrier["spd_dst"] = f.spd_dst
         /\ carrier["spd_dist"] = f.spd_dist
         /\ carrier["history_dt_offset"] = <<f.history_dt_offset>>
         /\ carrier["anchor_index"] = f.anchor_index
<1>. DEFINE b == NativeBatch(<<f>>)
<1>1. /\ AllFieldsFit(<<f>>)
      /\ \A key \in RowKeys : b[key] = f[key]
      /\ \A key \in GraphKeys : b[key] = <<f[key]>>
      /\ \A key \in NodeColumns : b[key] = f[key]
      /\ b.hyperedge_ids = f.hyperedge_ids /\ b.edges = f.edges
  BY OneIs
<1>2. /\ "x_ids" \in RowKeys /\ "hyperedge_sizes" \in RowKeys /\ "hyperedge_attr_rows" \in RowKeys
      /\ "tuple_slot_sizes" \in RowKeys /\ "tuple_attrs" \in RowKeys /\ "spd_dist" \in RowKeys
  BY DEF RowKeys
<1>3. /\ "num_nodes" \in GraphKeys /\ "hyperedge_counts" \in GraphKeys
      /\ "tuple_counts" \in GraphKeys /\ "history_dt_offset" \in GraphKeys
  BY DEF GraphKeys
<1>4. /\ "instance_node_indices" \in NodeColumns /\ "hyperedge_node_indices" \in NodeColumns
      /\ "tuple_args" \in NodeColumns /\ "spd_src" \in NodeColumns /\ "spd_dst" \in NodeColumns
      /\ "anchor_index" \in NodeColumns
  BY DEF NodeColumns
<1>5. NestedNames(b.object_names, ObjectCounts(b)) = <<f.object_names>>
  <2>1. NestedNames(b.object_names, ObjectCounts(b)) = PerGraph(<<f>>, "object_names")
    BY <1>1, NamesNest
  <2>2. \A g \in DOMAIN <<f>> : <<f>>[g] = f
    BY SingleVector
  <2>3. PerGraph(<<f>>, "object_names") = [g \in DOMAIN <<f>> |-> f.object_names]
    BY <2>2 DEF PerGraph
  <2>4. DOMAIN <<f>> = 1..1 /\ <<f.object_names>> = [g \in 1..1 |-> f.object_names]
    BY SingleVector
  <2>. QED  BY <2>1, <2>3, <2>4
<1>. HIDE DEF b
<1>6. carrier = Carrier(b)
  BY DEF b
<1>7. /\ b.x_ids = f.x_ids /\ b.hyperedge_sizes = f.hyperedge_sizes
      /\ b.hyperedge_attr_rows = f.hyperedge_attr_rows /\ b.tuple_slot_sizes = f.tuple_slot_sizes
      /\ b.tuple_attrs = f.tuple_attrs /\ b.spd_dist = f.spd_dist
  BY <1>1, <1>2
<1>8. /\ b.num_nodes = <<f.num_nodes>> /\ b.hyperedge_counts = <<f.hyperedge_counts>>
      /\ b.tuple_counts = <<f.tuple_counts>> /\ b.history_dt_offset = <<f.history_dt_offset>>
  BY <1>1, <1>3
<1>9. /\ b.instance_node_indices = f.instance_node_indices
      /\ b.hyperedge_node_indices = f.hyperedge_node_indices
      /\ b.tuple_args = f.tuple_args /\ b.spd_src = f.spd_src /\ b.spd_dst = f.spd_dst
      /\ b.anchor_index = f.anchor_index
  BY <1>1, <1>4
<1>10. /\ carrier["node_sizes"] = b.num_nodes /\ carrier["num_hyperedges"] = b.hyperedge_counts
       /\ carrier["num_tuples"] = b.tuple_counts
       /\ carrier["history_dt_offset"] = b.history_dt_offset
  BY <1>6, CarrierHas
<1>11. /\ carrier["x_ids"] = b.x_ids /\ carrier["hyperedge_attr_ids"] = b.hyperedge_attr_rows
       /\ carrier["tuple_sizes"] = b.tuple_slot_sizes /\ carrier["tuple_attr_ids"] = b.tuple_attrs
       /\ carrier["spd_dist"] = b.spd_dist
  BY <1>6, CarrierHas
<1>12. /\ carrier["instance_node_indices"] = b.instance_node_indices
       /\ carrier["hyperedge_nodes"] = b.hyperedge_node_indices
       /\ carrier["tuple_args"] = b.tuple_args /\ carrier["spd_src"] = b.spd_src
       /\ carrier["spd_dst"] = b.spd_dst /\ carrier["anchor_index"] = b.anchor_index
  BY <1>6, CarrierHas
<1>13. /\ carrier["edges"] = b.edges
       /\ carrier["object_names"] = NestedNames(b.object_names, ObjectCounts(b))
       /\ carrier["hyperedge_owners"] = Interleaved(b.hyperedge_ids, b.hyperedge_sizes)
  BY <1>6, CarrierHas
<1>14. b.hyperedge_ids = f.hyperedge_ids /\ b.edges = f.edges
  BY <1>1
<1>. QED  BY <1>5, <1>7, <1>8, <1>9, <1>10, <1>11, <1>12, <1>13, <1>14

\* What lies in front of a carrier is what lies in front of its graph.
LEMMA InFront ==
  ASSUME NEW fields, AllFieldsFit(fields),
         NEW carriers, carriers = [k \in DOMAIN fields |-> Carrier(NativeBatch(<<fields[k]>>))],
         NEW k \in DOMAIN fields
  PROVE  /\ NodesInFront(carriers, k) = NodesBefore(fields, k)
         /\ HyperedgesInFront(carriers, k) = HyperedgesBefore(fields, k)
<1>1. DOMAIN carriers = DOMAIN fields /\ \A m \in DOMAIN fields : FieldsFit(fields[m])
  BY DEF AllFieldsFit
<1>2. ASSUME NEW m \in DOMAIN fields
      PROVE  /\ SumOf(carriers[m].node_sizes) = fields[m].num_nodes
             /\ SumOf(carriers[m].num_hyperedges) = fields[m].hyperedge_counts
  <2>1. carriers[m] = Carrier(NativeBatch(<<fields[m]>>)) /\ FieldsFit(fields[m])
    BY <1>1
  <2>2. carriers[m]["node_sizes"] = <<fields[m].num_nodes>>
        /\ carriers[m]["num_hyperedges"] = <<fields[m].hyperedge_counts>>
    BY <2>1, SingleCarrier
  <2>3. fields[m].num_nodes \in Nat /\ fields[m].hyperedge_counts \in Nat
    <3>1. m \in 1..Len(fields)
      BY VectorFacts DEF AllFieldsFit
    <3>2. fields[m].num_nodes \in Nat
      BY <3>1, BeforeGraph
    <3>. QED  BY <2>1, <3>2 DEF FieldsFit
  <2>. QED  BY <2>2, <2>3, SumOfOne
<1>3. [m \in DOMAIN carriers |-> SumOf(carriers[m].node_sizes)] = [h \in DOMAIN fields |-> fields[h].num_nodes]
  BY <1>1, <1>2
<1>4. [m \in DOMAIN carriers |-> SumOf(carriers[m].num_hyperedges)]
        = [h \in DOMAIN fields |-> fields[h].hyperedge_counts]
  BY <1>1, <1>2
<1>. QED  BY <1>3, <1>4 DEF NodesInFront, NodesBefore, HyperedgesInFront, HyperedgesBefore

\* A key of a carrier against the field it comes from.
RowNames ==
  {<<"x_ids", "x_ids">>, <<"hyperedge_attr_ids", "hyperedge_attr_rows">>,
   <<"tuple_sizes", "tuple_slot_sizes">>, <<"tuple_attr_ids", "tuple_attrs">>,
   <<"spd_dist", "spd_dist">>}

GraphNames ==
  {<<"node_sizes", "num_nodes">>, <<"num_hyperedges", "hyperedge_counts">>,
   <<"num_tuples", "tuple_counts">>, <<"history_dt_offset", "history_dt_offset">>}

ColumnNames ==
  {<<"instance_node_indices", "instance_node_indices">>,
   <<"hyperedge_nodes", "hyperedge_node_indices">>, <<"tuple_args", "tuple_args">>,
   <<"spd_src", "spd_src">>, <<"spd_dst", "spd_dst">>, <<"anchor_index", "anchor_index">>}

LEMMA NamedFields ==
  /\ \A name \in RowNames : /\ name[2] \in RowKeys /\ name[1] # "edges"
                             /\ name[1] \notin NodeKeys /\ name[1] \notin OwnerKeys
  /\ \A name \in GraphNames : /\ name[2] \in GraphKeys /\ name[1] # "edges"
                               /\ name[1] \notin NodeKeys /\ name[1] \notin OwnerKeys
  /\ \A name \in ColumnNames : /\ name[2] \in NodeColumns /\ name[1] # "edges"
                                /\ name[1] \in NodeKeys
  /\ \A b : /\ \A name \in RowNames : Carrier(b)[name[1]] = b[name[2]]
            /\ \A name \in GraphNames : Carrier(b)[name[1]] = b[name[2]]
            /\ \A name \in ColumnNames : Carrier(b)[name[1]] = b[name[2]]
  /\ \A key \in CarrierKeys : \/ \E name \in RowNames \cup GraphNames \cup ColumnNames : key = name[1]
                              \/ key \in {"edges", "object_names", "hyperedge_owners"}
<1>1. \A name \in RowNames : /\ name[2] \in RowKeys /\ name[1] # "edges"
                             /\ name[1] \notin NodeKeys /\ name[1] \notin OwnerKeys
  BY DEF RowNames, RowKeys, NodeKeys, OwnerKeys
<1>2. \A name \in GraphNames : /\ name[2] \in GraphKeys /\ name[1] # "edges"
                               /\ name[1] \notin NodeKeys /\ name[1] \notin OwnerKeys
  BY DEF GraphNames, GraphKeys, NodeKeys, OwnerKeys
<1>3. \A name \in ColumnNames : /\ name[2] \in NodeColumns /\ name[1] # "edges"
                                /\ name[1] \in NodeKeys
  BY DEF ColumnNames, NodeColumns, NodeKeys
<1>4. ASSUME NEW b, NEW name \in RowNames
      PROVE  Carrier(b)[name[1]] = b[name[2]]
  BY CarrierHas DEF RowNames
<1>5. ASSUME NEW b, NEW name \in GraphNames
      PROVE  Carrier(b)[name[1]] = b[name[2]]
  BY CarrierHas DEF GraphNames
<1>6. ASSUME NEW b, NEW name \in ColumnNames
      PROVE  Carrier(b)[name[1]] = b[name[2]]
  BY CarrierHas DEF ColumnNames
<1>7. ASSUME NEW key \in CarrierKeys
      PROVE  \/ \E name \in RowNames \cup GraphNames \cup ColumnNames : key = name[1]
             \/ key \in {"edges", "object_names", "hyperedge_owners"}
  BY DEF CarrierKeys, RowNames, GraphNames, ColumnNames
<1>. QED  BY <1>1, <1>2, <1>3, <1>4, <1>5, <1>6, <1>7

\* Carriers of single graphs, put together by PyG, are the carrier of the batch.
LEMMA CollationAgrees ==
  ASSUME NEW fields, AllFieldsFit(fields), fields # <<>>
  PROVE  FromDataList([k \in DOMAIN fields |-> Carrier(NativeBatch(<<fields[k]>>))])
           = Carrier(NativeBatch(fields))
<1>. DEFINE carriers == [k \in DOMAIN fields |-> Carrier(NativeBatch(<<fields[k]>>))]
            batched == Carrier(NativeBatch(fields))
            b == NativeBatch(fields)
            Parts(key) == [k \in DOMAIN carriers |-> Placed(carriers, key, k)]
<1>1. /\ IsVector(fields) /\ Len(fields) \in Nat /\ DOMAIN fields = 1..Len(fields)
      /\ 1 \in DOMAIN fields /\ \A k \in DOMAIN fields : FieldsFit(fields[k])
  <2>1. IsVector(fields) /\ Len(fields) \in Nat /\ DOMAIN fields = 1..Len(fields)
    BY VectorFacts DEF AllFieldsFit
  <2>2. Len(fields) # 0
    BY <2>1, EmptySeq DEF IsVector
  <2>. QED  BY <2>1, <2>2 DEF AllFieldsFit
<1>2. DOMAIN carriers = DOMAIN fields
  OBVIOUS
<1>3. \A k \in DOMAIN fields : /\ carriers[k] = Carrier(NativeBatch(<<fields[k]>>))
                               /\ DOMAIN carriers[k] = CarrierKeys
  BY CarrierHas
<1>. HIDE DEF carriers, batched, b
<1>4. batched = Carrier(b)
  BY DEF batched, b
<1>5. /\ \A key \in RowKeys : b[key] = Concatenated(fields, key)
      /\ \A key \in GraphKeys : b[key] = PerGraph(fields, key)
      /\ \A key \in NodeColumns : b[key] = OnNodes(fields, key)
  BY NativeIs DEF b
<1>6. ASSUME NEW k \in DOMAIN fields
      PROVE  /\ NodesInFront(carriers, k) = NodesBefore(fields, k)
             /\ HyperedgesInFront(carriers, k) = HyperedgesBefore(fields, k)
  BY InFront DEF carriers
<1>7. ASSUME NEW name \in RowNames
      PROVE  FlattenSeq(Parts(name[1])) = batched[name[1]]
  <2>1. ASSUME NEW k \in DOMAIN fields
        PROVE  Placed(carriers, name[1], k) = fields[k][name[2]]
    <3>1. Placed(carriers, name[1], k) = carriers[k][name[1]]
      BY NamedFields DEF Placed
    <3>2. carriers[k][name[1]] = NativeBatch(<<fields[k]>>)[name[2]]
      BY <1>3, NamedFields
    <3>3. NativeBatch(<<fields[k]>>)[name[2]] = fields[k][name[2]]
      BY <1>1, NamedFields, OneIs
    <3>. QED  BY <3>1, <3>2, <3>3
  <2>2. Parts(name[1]) = PerGraph(fields, name[2])
    BY <1>2, <2>1 DEF PerGraph
  <2>3. batched[name[1]] = Concatenated(fields, name[2])
    BY <1>4, <1>5, NamedFields
  <2>. QED  BY <2>2, <2>3 DEF Concatenated
<1>8. ASSUME NEW name \in GraphNames
      PROVE  FlattenSeq(Parts(name[1])) = batched[name[1]]
  <2>1. ASSUME NEW k \in DOMAIN fields
        PROVE  Placed(carriers, name[1], k) = <<fields[k][name[2]]>>
    <3>1. Placed(carriers, name[1], k) = carriers[k][name[1]]
      BY NamedFields DEF Placed
    <3>2. carriers[k][name[1]] = NativeBatch(<<fields[k]>>)[name[2]]
      BY <1>3, NamedFields
    <3>3. NativeBatch(<<fields[k]>>)[name[2]] = <<fields[k][name[2]]>>
      BY <1>1, NamedFields, OneIs
    <3>. QED  BY <3>1, <3>2, <3>3
  <2>. DEFINE t == PerGraph(fields, name[2])
  <2>2. DOMAIN t = DOMAIN fields /\ \A k \in DOMAIN fields : t[k] = fields[k][name[2]]
    BY DEF PerGraph
  <2>3. IsVector(t)
    <3>1. DOMAIN t = 1..Len(fields) /\ t = [i \in 1..Len(fields) |-> t[i]]
      BY <1>1 DEF PerGraph
    <3>. HIDE DEF t
    <3>. QED  BY <1>1, <3>1, VectorOf
  <2>. HIDE DEF t
  <2>4. Parts(name[1]) = [i \in DOMAIN t |-> <<t[i]>>]
    BY <1>2, <2>1, <2>2
  <2>5. FlattenSeq(Parts(name[1])) = t
    BY <2>3, <2>4, OnesJoin
  <2>6. batched[name[1]] = PerGraph(fields, name[2])
    BY <1>4, <1>5, NamedFields
  <2>. QED  BY <2>5, <2>6 DEF t
<1>9. ASSUME NEW name \in ColumnNames
      PROVE  FlattenSeq(Parts(name[1])) = batched[name[1]]
  <2>1. ASSUME NEW k \in DOMAIN fields
        PROVE  Placed(carriers, name[1], k) = Shifted(fields[k][name[2]], NodesBefore(fields, k))
    <3>1. Placed(carriers, name[1], k) = Shifted(carriers[k][name[1]], NodesInFront(carriers, k))
      BY NamedFields DEF Placed
    <3>2. carriers[k][name[1]] = NativeBatch(<<fields[k]>>)[name[2]]
      BY <1>3, NamedFields
    <3>3. NativeBatch(<<fields[k]>>)[name[2]] = fields[k][name[2]]
      BY <1>1, NamedFields, OneIs
    <3>. QED  BY <1>6, <3>1, <3>2, <3>3
  <2>2. Parts(name[1]) = [g \in DOMAIN fields |-> Shifted(fields[g][name[2]], NodesBefore(fields, g))]
    BY <1>2, <2>1
  <2>3. batched[name[1]] = OnNodes(fields, name[2])
    BY <1>4, <1>5, NamedFields
  <2>. QED  BY <2>2, <2>3 DEF OnNodes
<1>10. FlattenSeq(Parts("edges")) = batched["edges"]
  <2>1. ASSUME NEW k \in DOMAIN fields
        PROVE  Placed(carriers, "edges", k) = EdgesBehind(fields[k].edges, NodesBefore(fields, k))
    <3>1. Placed(carriers, "edges", k) = EdgesBehind(carriers[k].edges, NodesInFront(carriers, k))
      BY DEF Placed
    <3>2. carriers[k]["edges"] = fields[k].edges
      <4>1. FieldsFit(fields[k]) /\ carriers[k] = Carrier(NativeBatch(<<fields[k]>>))
        BY <1>1, <1>3
      <4>. QED  BY <4>1, SingleCarrier
    <3>. QED  BY <1>6, <3>1, <3>2
  <2>2. Parts("edges") = [g \in DOMAIN fields |-> EdgesBehind(fields[g].edges, NodesBefore(fields, g))]
    BY <1>2, <2>1
  <2>3. batched["edges"] = b.edges
    BY <1>4, CarrierHas
  <2>. QED  BY <2>2, <2>3, NativeIs DEF b
<1>11. FlattenSeq(Parts("object_names")) = batched["object_names"]
  <2>1. ASSUME NEW k \in DOMAIN fields
        PROVE  Placed(carriers, "object_names", k) = <<fields[k].object_names>>
    <3>1. Placed(carriers, "object_names", k) = carriers[k]["object_names"]
      BY DEF Placed, NodeKeys, OwnerKeys
    <3>2. carriers[k]["object_names"] = <<fields[k].object_names>>
      <4>1. FieldsFit(fields[k]) /\ carriers[k] = Carrier(NativeBatch(<<fields[k]>>))
        BY <1>1, <1>3
      <4>. QED  BY <4>1, SingleCarrier
    <3>. QED  BY <3>1, <3>2
  <2>. DEFINE t == PerGraph(fields, "object_names")
  <2>2. DOMAIN t = DOMAIN fields /\ \A k \in DOMAIN fields : t[k] = fields[k].object_names
    BY DEF PerGraph
  <2>3. IsVector(t)
    <3>1. DOMAIN t = 1..Len(fields) /\ t = [i \in 1..Len(fields) |-> t[i]]
      BY <1>1 DEF PerGraph
    <3>. HIDE DEF t
    <3>. QED  BY <1>1, <3>1, VectorOf
  <2>. HIDE DEF t
  <2>4. Parts("object_names") = [i \in DOMAIN t |-> <<t[i]>>]
    BY <1>2, <2>1, <2>2
  <2>5. FlattenSeq(Parts("object_names")) = t
    BY <2>3, <2>4, OnesJoin
  <2>6. batched["object_names"] = NestedNames(b.object_names, ObjectCounts(b))
    BY <1>4, CarrierHas
  <2>7. NestedNames(b.object_names, ObjectCounts(b)) = PerGraph(fields, "object_names")
    BY NamesNest DEF b
  <2>. QED  BY <2>5, <2>6, <2>7 DEF t
<1>12. FlattenSeq(Parts("hyperedge_owners")) = batched["hyperedge_owners"]
  <2>1. ASSUME NEW k \in DOMAIN fields
        PROVE  Placed(carriers, "hyperedge_owners", k)
                 = Shifted(Interleaved(fields[k].hyperedge_ids, fields[k].hyperedge_sizes),
                           HyperedgesBefore(fields, k))
    <3>1. Placed(carriers, "hyperedge_owners", k)
            = Shifted(carriers[k]["hyperedge_owners"], HyperedgesInFront(carriers, k))
      BY DEF Placed, NodeKeys, OwnerKeys
    <3>2. carriers[k]["hyperedge_owners"]
            = Interleaved(fields[k].hyperedge_ids, fields[k].hyperedge_sizes)
      <4>1. FieldsFit(fields[k]) /\ carriers[k] = Carrier(NativeBatch(<<fields[k]>>))
        BY <1>1, <1>3
      <4>. QED  BY <4>1, SingleCarrier
    <3>. QED  BY <1>6, <3>1, <3>2
  <2>2. Parts("hyperedge_owners")
          = [g \in DOMAIN fields |->
               Shifted(Interleaved(fields[g].hyperedge_ids, fields[g].hyperedge_sizes),
                       HyperedgesBefore(fields, g))]
    BY <1>2, <2>1
  <2>3. batched["hyperedge_owners"] = Interleaved(b.hyperedge_ids, b.hyperedge_sizes)
    BY <1>4, CarrierHas
  <2>4. Interleaved(b.hyperedge_ids, b.hyperedge_sizes) = FlattenSeq(Parts("hyperedge_owners"))
    BY <2>2, OwnersJoin DEF b
  <2>. QED  BY <2>3, <2>4
<1>13. ASSUME NEW key \in CarrierKeys
       PROVE  FlattenSeq(Parts(key)) = batched[key]
  <2>1. CASE \E name \in RowNames \cup GraphNames \cup ColumnNames : key = name[1]
    BY <2>1, <1>7, <1>8, <1>9
  <2>2. CASE key \in {"edges", "object_names", "hyperedge_owners"}
    BY <2>2, <1>10, <1>11, <1>12
  <2>. QED  BY <2>1, <2>2, NamedFields
<1>14. batched = [key \in CarrierKeys |-> batched[key]]
  BY CarrierHas DEF batched
<1>15. FromDataList(carriers) = [key \in CarrierKeys |-> FlattenSeq(Parts(key))]
  BY <1>1, <1>3 DEF FromDataList
<1>. HIDE DEF Parts
<1>16. FromDataList(carriers) = batched
  BY <1>13, <1>14, <1>15
<1>. QED  BY <1>16 DEF carriers, batched

\* Rows that graphs have in columns of their own, in the columns of a batch.
RowLengths(w, sizes) ==
  /\ sizes \in Seq(Seq(Nat)) /\ Len(sizes) = Len(w)
  /\ \A g \in 1..Len(w) :
       Len(sizes[g]) = Len(w[g]) /\ \A n \in 1..Len(w[g]) : sizes[g][n] = Len(w[g][n])

RowsInPlace(w, by, sizes, counts, rows) ==
  /\ rows \in Seq(Seq(Int)) /\ FlattenSeq(ColumnBehind(w, by)) = FlattenSeq(rows)
  /\ FlattenSeq(sizes) \in Seq(Nat) /\ Len(FlattenSeq(sizes)) = Len(rows)
  /\ Counts(FlattenSeq(sizes), rows)
  /\ \A g \in 1..Len(w) : \A n \in 1..Len(w[g]) :
       /\ RowOf(counts, g, n) \in 1..Len(rows)
       /\ rows[RowOf(counts, g, n)] = Shifted(w[g][n], by[g])

LEMMA RowsFound ==
  ASSUME NEW w \in Seq(Seq(Seq(Int))), NEW by, \A g \in 1..Len(w) : by[g] \in Int,
         NEW sizes, RowLengths(w, sizes),
         NEW counts, Counts(counts, w),
         NEW rows, rows = FlattenSeq(RowsBehind(w, by))
  PROVE  RowsInPlace(w, by, sizes, counts, rows)
<1>. DEFINE v == RowsBehind(w, by)
            t == [i \in 1..Len(rows) |-> Len(rows[i])]
<1>1. /\ v \in Seq(Seq(Seq(Int))) /\ Len(v) = Len(w) /\ Lengths(v) = Lengths(w)
      /\ \A g \in 1..Len(w) : /\ Len(v[g]) = Len(w[g])
                              /\ \A n \in 1..Len(w[g]) : v[g][n] = Shifted(w[g][n], by[g])
      /\ rows \in Seq(Seq(Int)) /\ FlattenSeq(ColumnBehind(w, by)) = FlattenSeq(rows)
  BY ColumnOfRows
<1>2. rows = FlattenSeq(v)
  OBVIOUS
<1>. HIDE DEF v
<1>3. /\ Len(w) \in Nat /\ DOMAIN w = 1..Len(w) /\ Len(rows) \in Nat
      /\ \A g \in 1..Len(w) : w[g] \in Seq(Seq(Int)) /\ Len(w[g]) \in Nat /\ DOMAIN w[g] = 1..Len(w[g])
  BY <1>1, LenProperties, ElementOfSeq
<1>4. \A i \in 1..Len(rows) : rows[i] \in Seq(Int) /\ Len(rows[i]) \in Nat
  BY <1>1, LenProperties, ElementOfSeq
<1>5. ASSUME NEW g \in 1..Len(w), NEW n \in 1..Len(w[g])
      PROVE  /\ RowOf(counts, g, n) \in 1..Len(rows)
             /\ RowOf(counts, g, n) = SumTo(Lengths(v), g - 1) + n
             /\ rows[RowOf(counts, g, n)] = Shifted(w[g][n], by[g])
  <2>1. g \in 1..Len(v) /\ n \in 1..Len(v[g]) /\ \A h \in 1..Len(v) : counts[h] = Len(v[h])
    BY <1>1 DEF Counts
  <2>2. /\ RowOf(counts, g, n) \in 1..Len(FlattenSeq(v))
        /\ RowOf(counts, g, n) = SumTo(Lengths(v), g - 1) + n
        /\ FlattenSeq(v)[RowOf(counts, g, n)] = v[g][n]
    <3>. DEFINE Numbers == Seq(Int)
    <3>1. v \in Seq(Seq(Numbers))
      BY <1>1
    <3>. HIDE DEF Numbers
    <3>2. Counts(counts, v)
      BY <2>1 DEF Counts
    <3>3. g \in 1..Len(v)
      BY <2>1
    <3>4. n \in 1..Len(v[g])
      BY <2>1
    <3>5. InPlaceAt(v, counts, g, n)
      BY <3>1, <3>2, <3>3, <3>4, RowOfAll
    <3>. QED  BY <3>5 DEF InPlaceAt
  <2>. QED  BY <1>1, <1>2, <2>2
<1>6. t \in Seq(Nat) /\ Len(t) = Len(rows)
  <2>1. t \in [1..Len(rows) -> Nat]
    BY <1>4
  <2>. HIDE DEF t
  <2>. QED  BY <1>3, <2>1, SeqOfLength
<1>7. sizes \in Seq(Seq(Nat)) /\ Len(sizes) = Len(w) /\ DOMAIN sizes = 1..Len(w)
      /\ \A g \in 1..Len(w) : /\ Len(sizes[g]) = Len(w[g])
                              /\ \A n \in 1..Len(w[g]) : sizes[g][n] = Len(w[g][n])
  BY LenProperties DEF RowLengths
<1>8. Lengths(sizes) = Lengths(v)
  BY <1>1, <1>3, <1>7 DEF Lengths
<1>9. FlattenSeq(sizes) = t
  <2>1. Len(t) = SumTo(Lengths(sizes), Len(sizes))
    <3>1. Len(rows) = SumTo(Lengths(v), Len(v))
      BY <1>1, <1>2, Flattened
    <3>. QED  BY <1>1, <1>6, <1>7, <1>8, <3>1
  <2>2. ASSUME NEW g \in 1..Len(sizes), NEW n \in 1..Len(sizes[g])
        PROVE  t[SumTo(Lengths(sizes), g - 1) + n] = sizes[g][n]
    <3>1. g \in 1..Len(w) /\ n \in 1..Len(w[g])
      BY <1>7
    <3>. DEFINE place == SumTo(Lengths(v), g - 1) + n
    <3>2. place \in 1..Len(rows) /\ rows[place] = Shifted(w[g][n], by[g])
      BY <1>5, <3>1
    <3>3. w[g][n] \in Seq(Int) /\ by[g] \in Int
      BY <1>3, <3>1, ElementOfSeq
    <3>. HIDE DEF place
    <3>6. Len(Shifted(w[g][n], by[g])) = Len(w[g][n])
      BY <3>3, ShiftedIs
    <3>4. Len(rows[place]) = Len(w[g][n])
      BY <3>2, <3>6
    <3>5. t[place] = sizes[g][n]
      BY <1>7, <3>1, <3>2, <3>4
    <3>. QED  BY <1>8, <3>5 DEF place
  <2>. HIDE DEF t
  <2>. QED  BY <1>6, <1>7, <2>1, <2>2, IsFlattened
<1>10. Counts(t, rows)
  BY <1>3 DEF Counts
<1>. QED  BY <1>1, <1>5, <1>6, <1>9, <1>10 DEF RowsInPlace

\* Who has an owner is in the row of the owner.
OwnedBy(numbers, owners, owner) ==
  {numbers[m] : m \in {k \in DOMAIN owners : owners[k] = owner}}

LEMMA MembersFound ==
  ASSUME NEW T, NEW rows \in Seq(Seq(T)), NEW sizes \in Seq(Nat), Len(sizes) = Len(rows),
         Counts(sizes, rows),
         NEW owners, owners = Interleaved([k \in 1..Len(sizes) |-> k - 1], sizes),
         NEW r \in 1..Len(rows)
  PROVE  OwnedBy(FlattenSeq(rows), owners, r - 1) = ToSet(rows[r])
<1>. DEFINE own == OwnersOf(sizes, 0)
            flat == FlattenSeq(rows)
<1>1. 0 \in Int /\ \A i \in 1..Len(rows) : sizes[i] = Len(rows[i])
  BY DEF Counts
<1>2. /\ own \in Seq(Seq(Int)) /\ Len(own) = Len(sizes)
      /\ \A n \in 1..Len(sizes) : own[n] = Repeated(0 + (n - 1), sizes[n]) /\ Len(own[n]) = sizes[n]
      /\ owners = FlattenSeq(own)
  BY <1>1, OwnersAre
<1>. HIDE DEF own
<1>3. /\ Len(rows) \in Nat /\ DOMAIN rows = 1..Len(rows) /\ DOMAIN own = 1..Len(rows)
      /\ \A n \in 1..Len(rows) : /\ rows[n] \in Seq(T) /\ Len(rows[n]) \in Nat
                                 /\ DOMAIN rows[n] = 1..Len(rows[n])
  BY <1>2, LenProperties, ElementOfSeq
<1>4. Lengths(own) = Lengths(rows)
  BY <1>1, <1>2, <1>3 DEF Lengths
<1>5. /\ owners \in Seq(Int) /\ Len(owners) = SumTo(Lengths(rows), Len(rows))
      /\ Len(owners) \in Nat /\ DOMAIN owners = 1..Len(owners)
  <2>1. FlattenSeq(own) \in Seq(Int) /\ Len(FlattenSeq(own)) = SumTo(Lengths(own), Len(own))
    BY <1>2, Flattened
  <2>2. owners \in Seq(Int) /\ Len(owners) = SumTo(Lengths(rows), Len(rows))
    BY <1>2, <1>4, <2>1
  <2>. QED  BY <2>2, LenProperties
<1>6. ASSUME NEW n \in 1..Len(rows), NEW m \in 1..Len(rows[n])
      PROVE  /\ SumTo(Lengths(rows), n - 1) + m \in 1..Len(owners)
             /\ owners[SumTo(Lengths(rows), n - 1) + m] = n - 1
             /\ flat[SumTo(Lengths(rows), n - 1) + m] = rows[n][m]
  <2>1. n \in 1..Len(own) /\ m \in 1..Len(own[n]) /\ m \in 1..sizes[n]
    BY <1>1, <1>2
  <2>2. FlattenSeq(own)[SumTo(Lengths(own), n - 1) + m] = own[n][m]
    BY <1>2, <2>1, Flattened
  <2>3. own[n][m] = 0 + (n - 1)
    BY <1>2, <2>1 DEF Repeated
  <2>4. 0 + (n - 1) = n - 1
    BY <1>3
  <2>5. flat[SumTo(Lengths(rows), n - 1) + m] = rows[n][m]
    BY Flattened
  <2>6. /\ SumTo(Lengths(own), n - 1) \in Nat /\ Len(own[n]) \in Nat
        /\ SumTo(Lengths(own), n - 1) + Len(own[n]) <= Len(FlattenSeq(own))
        /\ Len(FlattenSeq(own)) \in Nat
    BY <1>2, <2>1, FlattenedPart
  <2>7. SumTo(Lengths(own), n - 1) + m \in 1..Len(FlattenSeq(own))
    <3>. DEFINE width == Len(own[n])
                before == SumTo(Lengths(own), n - 1)
                total == Len(FlattenSeq(own))
    <3>1. m \in 1..width /\ before \in Nat /\ width \in Nat /\ total \in Nat /\ before + width <= total
      BY <2>1, <2>6
    <3>. HIDE DEF width, before, total
    <3>2. before + m \in 1..total
      BY <3>1
    <3>. QED  BY <3>2 DEF before, total
  <2>. QED  BY <1>2, <1>4, <2>2, <2>3, <2>4, <2>5, <2>7
<1>. HIDE DEF flat
<1>7. ASSUME NEW k \in 1..Len(owners), owners[k] = r - 1
      PROVE  \E m \in 1..Len(rows[r]) : flat[k] = rows[r][m]
  <2>. DEFINE long == Lengths(rows)
  <2>1. \A i \in 1..Len(rows) : long[i] = Len(rows[i]) /\ long[i] \in Nat
    BY <1>3 DEF Lengths
  <2>2. k \in 1..SumTo(long, Len(rows))
    BY <1>5
  <2>. HIDE DEF long
  <2>3. PICK n \in 1..Len(rows) : \E m \in 1..long[n] : k = SumTo(long, n - 1) + m
    BY <1>3, <2>1, <2>2, SumPlace
  <2>4. PICK m \in 1..long[n] : k = SumTo(long, n - 1) + m
    BY <2>3
  <2>5. m \in 1..Len(rows[n])
    BY <2>1
  <2>6. owners[k] = n - 1 /\ flat[k] = rows[n][m]
    BY <1>6, <2>4, <2>5 DEF long
  <2>7. n = r
    BY <1>3, <1>7, <2>6
  <2>. QED  BY <2>5, <2>6, <2>7
<1>8. ASSUME NEW m \in 1..Len(rows[r])
      PROVE  \E k \in 1..Len(owners) : owners[k] = r - 1 /\ flat[k] = rows[r][m]
  BY <1>6
<1>9. ToSet(rows[r]) = {rows[r][m] : m \in 1..Len(rows[r])}
  BY <1>3 DEF ToSet
<1>10. {flat[m] : m \in {k \in DOMAIN owners : owners[k] = r - 1}} = ToSet(rows[r])
  <2>. DEFINE held == {k \in DOMAIN owners : owners[k] = r - 1}
  <2>1. \A k \in held : k \in 1..Len(owners) /\ owners[k] = r - 1
    BY <1>5
  <2>2. \A k \in 1..Len(owners) : owners[k] = r - 1 => k \in held
    BY <1>5
  <2>. HIDE DEF held
  <2>3. \A k \in held : flat[k] \in ToSet(rows[r])
    BY <1>7, <1>9, <2>1
  <2>4. \A x \in ToSet(rows[r]) : \E k \in held : x = flat[k]
    BY <1>8, <1>9, <2>2
  <2>5. {flat[m] : m \in held} = ToSet(rows[r])
    BY <2>3, <2>4
  <2>. QED  BY <2>5 DEF held
<1>. QED  BY <1>10 DEF flat, OwnedBy

(***************************************************************************)
(* What a drawing is like: objects first among the nodes, the anchor last  *)
(* if there is one, and nodes for whatever the table and the edges name.   *)
(***************************************************************************)
NodeFits(graph, k) ==
  IF k <= Len(graph.objects) THEN graph.nodes[k] = ObjectNode(graph.objects[k])
  ELSE \/ graph.nodes[k] = AnchorNode
       \/ \E inst \in ToSet(graph.instances) : graph.nodes[k] = InstanceNode(inst)

NodesFit(d, graph) ==
  /\ IsVector(graph.objects) /\ IsVector(graph.nodes)
  /\ Len(graph.objects) <= Len(graph.nodes)
  /\ \A k \in DOMAIN graph.nodes : NodeFits(graph, k)
  /\ HasAnchorNode(d) => /\ Len(graph.nodes) > 0
                         /\ \A k \in DOMAIN graph.nodes :
                              graph.nodes[k] = AnchorNode <=> k = Len(graph.nodes)

InstanceFits(d, graph, inst) ==
  /\ inst.role # "object"
  /\ IsVector(inst.arguments)
  /\ \A o \in ToSet(inst.arguments) : ObjectNode(o) \in ToSet(graph.nodes)
  /\ HasNode(d, inst) => InstanceNode(inst) \in ToSet(graph.nodes)

EndsFit(graph, e) == e.src \in ToSet(graph.nodes) /\ e.dst \in ToSet(graph.nodes)

DrawingFits(d, graph) ==
  /\ NodesFit(d, graph)
  /\ IsVector(graph.instances)
  /\ \A inst \in ToSet(graph.instances) : InstanceFits(d, graph, inst)
  /\ IsVector(graph.edges) /\ \A e \in ToSet(graph.edges) : EndsFit(graph, e)
  /\ IsVector(graph.distances) /\ \A e \in ToSet(graph.distances) : EndsFit(graph, e)

\* The number of a node leads back to it.
LEMMA NumberLeads ==
  ASSUME NEW graph, IsVector(graph.nodes), NEW node \in ToSet(graph.nodes), node # NoNode
  PROVE  /\ NumberOf(graph, node) \in Nat /\ NumberOf(graph, node) + 1 \in 1..Len(graph.nodes)
         /\ graph.nodes[NumberOf(graph, node) + 1] = node
<1>1. /\ DOMAIN graph.nodes = 1..Len(graph.nodes) /\ Len(graph.nodes) \in Nat
  BY VectorFacts
<1>2. PICK i \in DOMAIN graph.nodes : graph.nodes[i] = node
  BY DEF ToSet
<1>3. At(graph.nodes, node) \in DOMAIN graph.nodes /\ graph.nodes[At(graph.nodes, node)] = node
  BY <1>2 DEF At
<1>. DEFINE place == At(graph.nodes, node)
<1>4. NumberOf(graph, node) = place - 1
  BY DEF NumberOf
<1>. HIDE DEF place
<1>5. place \in 1..Len(graph.nodes) /\ graph.nodes[place] = node
  BY <1>1, <1>3 DEF place
<1>6. place - 1 \in Nat /\ (place - 1) + 1 = place
  BY <1>1, <1>5
<1>. QED  BY <1>4, <1>5, <1>6

\* No node is what stands for none, and the kinds of nodes are apart.
LEMMA NodesApart ==
  /\ \A o : ObjectNode(o) # NoNode /\ ObjectNode(o) # AnchorNode
  /\ \A inst : InstanceNode(inst) # NoNode /\ InstanceNode(inst) # AnchorNode
  /\ AnchorNode # NoNode
  /\ \A o : ChannelsOfNode(ObjectNode(o)) = Unlabeled
  /\ \A inst : ChannelsOfNode(InstanceNode(inst)) = ChannelsOf(inst)
  /\ ChannelsOfNode(AnchorNode) = [Unlabeled EXCEPT !.role = "anchor"]
<1>1. \A o : ObjectNode(o)[1] = "object"
  BY DEF ObjectNode
<1>2. \A inst : InstanceNode(inst)[1] = "instance" /\ InstanceNode(inst)[2] = inst
  BY DEF InstanceNode
<1>3. AnchorNode[1] = "anchor"
  BY DEF AnchorNode
<1>4. \A o : Len(ObjectNode(o)) = 2
  BY DEF ObjectNode
<1>5. \A inst : Len(InstanceNode(inst)) = 2
  BY DEF InstanceNode
<1>6. Len(AnchorNode) = 1 /\ Len(NoNode) = 0
  BY DEF AnchorNode, NoNode
<1>7. \A o : ChannelsOfNode(ObjectNode(o)) = Unlabeled
  BY <1>1 DEF ChannelsOfNode
<1>8. \A inst : ChannelsOfNode(InstanceNode(inst)) = ChannelsOf(inst)
  BY <1>2 DEF ChannelsOfNode
<1>9. ChannelsOfNode(AnchorNode) = [Unlabeled EXCEPT !.role = "anchor"]
  BY <1>3 DEF ChannelsOfNode
<1>. QED  BY <1>4, <1>5, <1>6, <1>7, <1>8, <1>9

\* The objects of a drawing are counted by their channels.
LEMMA ObjectsCounted ==
  ASSUME NEW d, NEW graph, DrawingFits(d, graph),
         NEW rows, rows = [k \in DOMAIN graph.nodes |-> ChannelsOfNode(graph.nodes[k])]
  PROVE  Cardinality(ObjectPlaces(rows)) = Len(graph.objects)
<1>1. /\ DOMAIN graph.nodes = 1..Len(graph.nodes) /\ Len(graph.nodes) \in Nat
      /\ Len(graph.objects) \in Nat /\ Len(graph.objects) <= Len(graph.nodes)
      /\ \A k \in DOMAIN graph.nodes : NodeFits(graph, k)
  BY VectorFacts DEF DrawingFits, NodesFit
<1>2. Unlabeled.role = "object" /\ [Unlabeled EXCEPT !.role = "anchor"].role = "anchor"
  BY DEF Unlabeled
<1>3. \A inst : ChannelsOf(inst).role = inst.role
  BY DEF ChannelsOf
<1>4. ASSUME NEW k \in DOMAIN graph.nodes
      PROVE  rows[k].role = "object" <=> k <= Len(graph.objects)
  <2>1. CASE k <= Len(graph.objects)
    <3>1. graph.nodes[k] = ObjectNode(graph.objects[k])
      BY <1>1, <2>1 DEF NodeFits
    <3>. QED  BY <1>2, <2>1, <3>1, NodesApart
  <2>2. CASE ~(k <= Len(graph.objects))
    <3>1. \/ graph.nodes[k] = AnchorNode
          \/ \E inst \in ToSet(graph.instances) : graph.nodes[k] = InstanceNode(inst)
      BY <1>1, <2>2 DEF NodeFits
    <3>2. rows[k] = ChannelsOfNode(graph.nodes[k])
      OBVIOUS
    <3>3. CASE graph.nodes[k] = AnchorNode
      <4>1. rows[k].role = "anchor"
        BY <1>2, <3>2, <3>3, NodesApart
      <4>. QED  BY <2>2, <4>1
    <3>4. ASSUME NEW inst \in ToSet(graph.instances), graph.nodes[k] = InstanceNode(inst)
          PROVE  rows[k].role # "object"
      <4>1. inst.role # "object"
        BY DEF DrawingFits, InstanceFits
      <4>2. rows[k] = ChannelsOf(inst)
        BY <3>2, <3>4, NodesApart
      <4>. QED  BY <1>3, <4>1, <4>2
    <3>. QED  BY <2>2, <3>1, <3>3, <3>4
  <2>. QED  BY <2>1, <2>2
<1>5. DOMAIN rows = DOMAIN graph.nodes
  OBVIOUS
<1>6. ObjectPlaces(rows) = 1..Len(graph.objects)
  <2>1. \A k : k \in ObjectPlaces(rows) <=> k \in DOMAIN graph.nodes /\ rows[k].role = "object"
    BY <1>5 DEF ObjectPlaces
  <2>. DEFINE n == Len(graph.nodes)
              m == Len(graph.objects)
  <2>2. n \in Nat /\ m \in Nat /\ m <= n /\ DOMAIN graph.nodes = 1..n
    BY <1>1
  <2>3. \A k \in DOMAIN graph.nodes : rows[k].role = "object" <=> k <= m
    BY <1>4
  <2>. HIDE DEF n, m
  <2>4. \A k : k \in 1..n /\ k <= m <=> k \in 1..m
    BY <2>2
  <2>5. \A k : k \in ObjectPlaces(rows) <=> k \in 1..n /\ k <= m
    BY <2>1, <2>2, <2>3
  <2>6. \A k : k \in ObjectPlaces(rows) <=> k \in 1..m
    BY <2>4, <2>5
  <2>7. ObjectPlaces(rows) = 1..m
    BY <2>6
  <2>. QED  BY <2>7 DEF m
<1>7. Cardinality(1..Len(graph.objects)) = Len(graph.objects)
  <2>1. 1 \in Int /\ Len(graph.objects) \in Int
    BY <1>1
  <2>2. Cardinality(1..Len(graph.objects))
          = IF 1 > Len(graph.objects) THEN 0 ELSE Len(graph.objects) - 1 + 1
    BY <2>1, FS_Interval
  <2>. QED  BY <1>1, <2>2
<1>. QED  BY <1>6, <1>7

-----------------------------------------------------------------------------
(***************************************************************************)
(* The fields of a drawing.                                                *)
(***************************************************************************)
RowsOf(graph, lists) == [k \in DOMAIN lists |-> NumbersOf(graph, lists[k])]

ArgumentLists(tuples) == [k \in DOMAIN tuples |-> NodesIn(tuples[k])]

MembersIn(hyperedges) == [k \in DOMAIN hyperedges |-> Members(hyperedges[k])]

HyperedgesOf(d, graph) == When(d.include_hyperedge_incidence, graph.instances)

TuplesIn(d, graph) == When(HasTuples(d), graph.instances)

\* Nodes that the table names are nodes of the graph.
NodesMet(graph, nodes) ==
  IsVector(nodes) /\ \A k \in DOMAIN nodes : nodes[k] \in ToSet(graph.nodes) \ {NoNode}

LEMMA NumbersAre ==
  ASSUME NEW graph, IsVector(graph.nodes), NEW nodes, NodesMet(graph, nodes)
  PROVE  /\ NumbersOf(graph, nodes) \in Seq(Int) /\ Len(NumbersOf(graph, nodes)) = Len(nodes)
         /\ DOMAIN nodes = 1..Len(nodes) /\ Len(nodes) \in Nat
         /\ \A k \in DOMAIN nodes : NumbersOf(graph, nodes)[k] = NumberOf(graph, nodes[k])
<1>1. Len(nodes) \in Nat /\ DOMAIN nodes = 1..Len(nodes)
  BY VectorFacts DEF NodesMet
<1>2. \A k \in 1..Len(nodes) : NumberOf(graph, nodes[k]) \in Int
  BY <1>1, NumberLeads DEF NodesMet
<1>. DEFINE t == NumbersOf(graph, nodes)
<1>3. t \in [1..Len(nodes) -> Int]
  BY <1>1, <1>2 DEF NumbersOf
<1>4. \A k \in DOMAIN nodes : t[k] = NumberOf(graph, nodes[k])
  BY DEF NumbersOf
<1>. HIDE DEF t
<1>5. t \in Seq(Int) /\ Len(t) = Len(nodes)
  BY <1>1, <1>3, SeqOfLength
<1>. QED  BY <1>1, <1>4, <1>5 DEF t

LEMMA NodesOfInstance ==
  ASSUME NEW d, NEW graph, DrawingFits(d, graph), NEW inst \in ToSet(graph.instances)
  PROVE  /\ NodesMet(graph, NodesIn(inst)) /\ Len(NodesIn(inst)) = Len(inst.arguments)
         /\ HasAnchorNode(d) => NodesMet(graph, Members(inst))
<1>1. /\ IsVector(inst.arguments)
      /\ \A o \in ToSet(inst.arguments) : ObjectNode(o) \in ToSet(graph.nodes)
  BY DEF DrawingFits, InstanceFits
<1>2. /\ Len(inst.arguments) \in Nat /\ DOMAIN inst.arguments = 1..Len(inst.arguments)
      /\ \A k \in DOMAIN inst.arguments : inst.arguments[k] \in ToSet(inst.arguments)
  BY <1>1, VectorFacts
<1>. DEFINE t == NodesIn(inst)
<1>3. DOMAIN t = 1..Len(inst.arguments) /\ t = [k \in 1..Len(inst.arguments) |-> t[k]]
  BY <1>2 DEF NodesIn
<1>4. \A k \in DOMAIN inst.arguments : t[k] = ObjectNode(inst.arguments[k])
  BY DEF NodesIn
<1>. HIDE DEF t
<1>5. IsVector(t) /\ Len(t) = Len(inst.arguments)
  BY <1>2, <1>3, VectorOf
<1>6. \A k \in DOMAIN t : t[k] \in ToSet(graph.nodes) \ {NoNode}
  BY <1>1, <1>2, <1>3, <1>4, NodesApart
<1>7. NodesMet(graph, t)
  BY <1>5, <1>6 DEF NodesMet
<1>8. ASSUME HasAnchorNode(d) PROVE NodesMet(graph, Members(inst))
  <2>1. CASE inst.arguments = <<>>
    <3>1. Members(inst) = <<AnchorNode>>
      BY <2>1 DEF Members
    <3>2. Len(graph.nodes) \in Nat /\ DOMAIN graph.nodes = 1..Len(graph.nodes) /\ Len(graph.nodes) > 0
      BY <1>8, VectorFacts DEF DrawingFits, NodesFit
    <3>3. Len(graph.nodes) \in DOMAIN graph.nodes
      BY <3>2
    <3>4. graph.nodes[Len(graph.nodes)] = AnchorNode
      BY <1>8, <3>3 DEF DrawingFits, NodesFit
    <3>5. AnchorNode \in ToSet(graph.nodes)
      BY <3>3, <3>4 DEF ToSet
    <3>6. IsVector(<<AnchorNode>>) /\ DOMAIN <<AnchorNode>> = 1..1 /\ <<AnchorNode>>[1] = AnchorNode
      BY SingleVector
    <3>7. \A k \in 1..1 : k = 1
      OBVIOUS
    <3>. QED  BY <3>1, <3>5, <3>6, <3>7, NodesApart DEF NodesMet
  <2>2. CASE inst.arguments # <<>>
    <3>1. Members(inst) = t
      BY <2>2 DEF Members, t
    <3>. QED  BY <1>7, <3>1
  <2>. QED  BY <2>1, <2>2
<1>. QED  BY <1>5, <1>7, <1>8 DEF t

\* Lists of nodes as rows of numbers.
LEMMA RowsOfLists ==
  ASSUME NEW graph, IsVector(graph.nodes), NEW n \in Nat, NEW lists,
         DOMAIN lists = 1..n, \A k \in 1..n : NodesMet(graph, lists[k])
  PROVE  /\ RowsOf(graph, lists) \in Seq(Seq(Int)) /\ Len(RowsOf(graph, lists)) = n
         /\ \A k \in 1..n : /\ RowsOf(graph, lists)[k] = NumbersOf(graph, lists[k])
                             /\ Len(RowsOf(graph, lists)[k]) = Len(lists[k])
                             /\ Len(lists[k]) \in Nat
<1>. DEFINE t == RowsOf(graph, lists)
<1>1. \A k \in 1..n : t[k] = NumbersOf(graph, lists[k])
  BY DEF RowsOf
<1>2. DOMAIN t = 1..n /\ t = [k \in 1..n |-> t[k]]
  BY DEF RowsOf
<1>. HIDE DEF t
<1>3. \A k \in 1..n : t[k] \in Seq(Int) /\ Len(t[k]) = Len(lists[k]) /\ Len(lists[k]) \in Nat
  BY <1>1, NumbersAre
<1>4. t \in [1..n -> Seq(Int)]
  BY <1>2, <1>3
<1>5. t \in Seq(Seq(Int)) /\ Len(t) = n
  BY <1>4, SeqOfLength
<1>. QED  BY <1>1, <1>3, <1>5 DEF t

\* The fields of a drawing by name: what is by the graph or the row, and the columns.
RowFields(d, graph, f) ==
  LET hyperedges == HyperedgesOf(d, graph)
      tuples == TuplesIn(d, graph)
  IN  /\ f.num_nodes = Len(graph.nodes)
      /\ f.x_ids = [k \in DOMAIN graph.nodes |-> ChannelsOfNode(graph.nodes[k])]
      /\ f.edges = [k \in DOMAIN graph.edges |-> EdgeRow(graph, graph.edges[k])]
      /\ f.object_names = graph.objects
      /\ f.hyperedge_counts = Len(hyperedges)
      /\ f.hyperedge_sizes = [k \in DOMAIN hyperedges |-> Len(Members(hyperedges[k]))]
      /\ f.hyperedge_ids = [k \in DOMAIN hyperedges |-> k - 1]
      /\ f.hyperedge_attr_rows = [k \in DOMAIN hyperedges |-> ChannelsOf(hyperedges[k])]
      /\ f.tuple_slot_sizes = [k \in DOMAIN tuples |-> Len(tuples[k].arguments)]
      /\ f.tuple_attrs = [k \in DOMAIN tuples |-> ChannelsOf(tuples[k])]
      /\ f.spd_dist = [k \in DOMAIN graph.distances |-> graph.distances[k].dist]

ColumnFields(d, graph, f) ==
  /\ f.hyperedge_node_indices = FlattenSeq(RowsOf(graph, MembersIn(HyperedgesOf(d, graph))))
  /\ f.tuple_args = FlattenSeq(RowsOf(graph, ArgumentLists(TuplesIn(d, graph))))
  /\ f.spd_src = NumbersOf(graph, [k \in DOMAIN graph.distances |-> graph.distances[k].src])
  /\ f.spd_dst = NumbersOf(graph, [k \in DOMAIN graph.distances |-> graph.distances[k].dst])
  /\ f.instance_node_indices = When(CollectsInstances(d), InstanceNumbers(d, graph))
  /\ f.anchor_index = When(HasAnchorNode(d), <<NumberOf(graph, AnchorNode)>>)

LEMMA FieldsAre ==
  ASSUME NEW d, NEW graph
  PROVE  /\ RowFields(d, graph, GraphFieldsOf(d, graph))
         /\ ColumnFields(d, graph, GraphFieldsOf(d, graph))
<1>. DEFINE hyperedges == HyperedgesOf(d, graph)
            tuples == TuplesIn(d, graph)
            f == TableFields(d, graph, hyperedges, tuples)
<1>1. GraphFieldsOf(d, graph) = f
  BY DEF GraphFieldsOf, HyperedgesOf, TuplesIn
<1>2. RowsOf(graph, MembersIn(hyperedges))
        = [k \in DOMAIN hyperedges |-> NumbersOf(graph, Members(hyperedges[k]))]
  <2>. HIDE DEF hyperedges
  <2>. QED  BY DEF RowsOf, MembersIn
<1>3. RowsOf(graph, ArgumentLists(tuples))
        = [k \in DOMAIN tuples |-> NumbersOf(graph, NodesIn(tuples[k]))]
  <2>. HIDE DEF tuples
  <2>. QED  BY DEF RowsOf, ArgumentLists
<1>4. /\ NumbersOf(graph, [k \in DOMAIN graph.distances |-> graph.distances[k].src])
           = [k \in DOMAIN graph.distances |-> NumberOf(graph, graph.distances[k].src)]
      /\ NumbersOf(graph, [k \in DOMAIN graph.distances |-> graph.distances[k].dst])
           = [k \in DOMAIN graph.distances |-> NumberOf(graph, graph.distances[k].dst)]
  BY DEF NumbersOf
<1>. HIDE DEF hyperedges, tuples
<1>5. /\ f.num_nodes = Len(graph.nodes)
      /\ f.x_ids = [k \in DOMAIN graph.nodes |-> ChannelsOfNode(graph.nodes[k])]
      /\ f.edges = [k \in DOMAIN graph.edges |-> EdgeRow(graph, graph.edges[k])]
      /\ f.object_names = graph.objects
  BY DEF TableFields
<1>6. /\ f.hyperedge_counts = Len(hyperedges)
      /\ f.hyperedge_sizes = [k \in DOMAIN hyperedges |-> Len(Members(hyperedges[k]))]
      /\ f.hyperedge_ids = [k \in DOMAIN hyperedges |-> k - 1]
      /\ f.hyperedge_attr_rows = [k \in DOMAIN hyperedges |-> ChannelsOf(hyperedges[k])]
  BY DEF TableFields
<1>7. f.hyperedge_node_indices
        = FlattenSeq([k \in DOMAIN hyperedges |-> NumbersOf(graph, Members(hyperedges[k]))])
  BY DEF TableFields
<1>8. /\ f.tuple_slot_sizes = [k \in DOMAIN tuples |-> Len(tuples[k].arguments)]
      /\ f.tuple_attrs = [k \in DOMAIN tuples |-> ChannelsOf(tuples[k])]
  BY DEF TableFields
<1>9. f.tuple_args = FlattenSeq([k \in DOMAIN tuples |-> NumbersOf(graph, NodesIn(tuples[k]))])
  BY DEF TableFields
<1>10. /\ f.spd_src = [k \in DOMAIN graph.distances |-> NumberOf(graph, graph.distances[k].src)]
       /\ f.spd_dst = [k \in DOMAIN graph.distances |-> NumberOf(graph, graph.distances[k].dst)]
       /\ f.spd_dist = [k \in DOMAIN graph.distances |-> graph.distances[k].dist]
  BY DEF TableFields
<1>11. /\ f.instance_node_indices = When(CollectsInstances(d), InstanceNumbers(d, graph))
       /\ f.anchor_index = When(HasAnchorNode(d), <<NumberOf(graph, AnchorNode)>>)
  BY DEF TableFields
<1>. HIDE DEF f
<1>12. RowFields(d, graph, f)
  BY <1>5, <1>6, <1>8, <1>10 DEF RowFields, hyperedges, tuples
<1>13. ColumnFields(d, graph, f)
  BY <1>2, <1>3, <1>4, <1>7, <1>9, <1>10, <1>11 DEF ColumnFields, hyperedges, tuples
<1>. QED  BY <1>1, <1>12, <1>13

\* The rows of a table, and the nodes they name.
LEMMA TableRows ==
  ASSUME NEW d, NEW graph, DrawingFits(d, graph),
         NEW asked \in BOOLEAN, NEW rows, rows = When(asked, graph.instances)
  PROVE  /\ Len(rows) \in Nat /\ DOMAIN rows = 1..Len(rows)
         /\ \A k \in DOMAIN rows : rows[k] \in ToSet(graph.instances)
         /\ asked => rows = graph.instances
<1>1. IsVector(graph.instances)
  BY DEF DrawingFits
<1>2. CASE asked
  <2>1. rows = graph.instances
    BY <1>2 DEF When
  <2>. QED  BY <1>1, <2>1, VectorFacts
<1>3. CASE ~asked
  <2>1. rows = <<>>
    BY <1>3 DEF When
  <2>2. Len(rows) = 0 /\ DOMAIN rows = {}
    BY <2>1
  <2>3. 1..0 = {}
    OBVIOUS
  <2>. QED  BY <1>3, <2>2, <2>3
<1>. QED  BY <1>2, <1>3

\* Nodes of the rows of a table, as rows of numbers.
LEMMA DrawnRows ==
  ASSUME NEW d, NEW graph, DrawingFits(d, graph)
  PROVE  LET hyperedges == HyperedgesOf(d, graph)
             tuples == TuplesIn(d, graph)
         IN  /\ RowsOf(graph, MembersIn(hyperedges)) \in Seq(Seq(Int))
             /\ Len(RowsOf(graph, MembersIn(hyperedges))) = Len(hyperedges)
             /\ \A k \in DOMAIN hyperedges :
                  /\ RowsOf(graph, MembersIn(hyperedges))[k] = NumbersOf(graph, Members(hyperedges[k]))
                  /\ NodesMet(graph, Members(hyperedges[k]))
                  /\ Len(RowsOf(graph, MembersIn(hyperedges))[k]) = Len(Members(hyperedges[k]))
                  /\ Len(Members(hyperedges[k])) \in Nat
             /\ RowsOf(graph, ArgumentLists(tuples)) \in Seq(Seq(Int))
             /\ Len(RowsOf(graph, ArgumentLists(tuples))) = Len(tuples)
             /\ \A k \in DOMAIN tuples :
                  /\ RowsOf(graph, ArgumentLists(tuples))[k] = NumbersOf(graph, NodesIn(tuples[k]))
                  /\ NodesMet(graph, NodesIn(tuples[k]))
                  /\ Len(RowsOf(graph, ArgumentLists(tuples))[k]) = Len(tuples[k].arguments)
                  /\ Len(tuples[k].arguments) \in Nat
<1>. DEFINE hyperedges == HyperedgesOf(d, graph)
            tuples == TuplesIn(d, graph)
<1>1. IsVector(graph.nodes)
  BY DEF DrawingFits, NodesFit
<1>2. /\ Len(hyperedges) \in Nat /\ DOMAIN hyperedges = 1..Len(hyperedges)
      /\ \A k \in DOMAIN hyperedges : /\ hyperedges[k] \in ToSet(graph.instances)
                                      /\ d.include_hyperedge_incidence
  <2>1. CASE d.include_hyperedge_incidence
    <3>1. hyperedges = graph.instances /\ hyperedges = When(TRUE, graph.instances)
      BY <2>1 DEF HyperedgesOf, When
    <3>. HIDE DEF hyperedges
    <3>2. /\ Len(hyperedges) \in Nat /\ DOMAIN hyperedges = 1..Len(hyperedges)
          /\ \A k \in DOMAIN hyperedges : hyperedges[k] \in ToSet(graph.instances)
      BY <3>1, TableRows
    <3>. QED  BY <2>1, <3>2
  <2>2. CASE ~d.include_hyperedge_incidence
    <3>1. hyperedges = <<>>
      BY <2>2 DEF HyperedgesOf, When
    <3>2. Len(hyperedges) = 0 /\ DOMAIN hyperedges = {} /\ 1..0 = {}
      BY <3>1
    <3>. HIDE DEF hyperedges
    <3>. QED  BY <3>2
  <2>. QED  BY <2>1, <2>2
<1>3. /\ Len(tuples) \in Nat /\ DOMAIN tuples = 1..Len(tuples)
      /\ \A k \in DOMAIN tuples : tuples[k] \in ToSet(graph.instances)
  <2>1. CASE HasTuples(d)
    <3>1. tuples = When(TRUE, graph.instances)
      BY <2>1 DEF TuplesIn, When
    <3>. HIDE DEF tuples
    <3>. QED  BY <3>1, TableRows
  <2>2. CASE ~HasTuples(d)
    <3>1. tuples = When(FALSE, graph.instances)
      BY <2>2 DEF TuplesIn, When
    <3>. HIDE DEF tuples
    <3>. QED  BY <3>1, TableRows
  <2>. QED  BY <2>1, <2>2
<1>. HIDE DEF hyperedges, tuples
<1>4. \A k \in DOMAIN hyperedges : NodesMet(graph, Members(hyperedges[k]))
  BY <1>2, NodesOfInstance DEF HasAnchorNode
<1>5. \A k \in DOMAIN tuples : /\ NodesMet(graph, NodesIn(tuples[k]))
                               /\ Len(NodesIn(tuples[k])) = Len(tuples[k].arguments)
  BY <1>3, NodesOfInstance
<1>6. DOMAIN MembersIn(hyperedges) = 1..Len(hyperedges)
      /\ \A k \in 1..Len(hyperedges) : MembersIn(hyperedges)[k] = Members(hyperedges[k])
  BY <1>2 DEF MembersIn
<1>7. DOMAIN ArgumentLists(tuples) = 1..Len(tuples)
      /\ \A k \in 1..Len(tuples) : ArgumentLists(tuples)[k] = NodesIn(tuples[k])
  BY <1>3 DEF ArgumentLists
<1>8. /\ RowsOf(graph, MembersIn(hyperedges)) \in Seq(Seq(Int))
      /\ Len(RowsOf(graph, MembersIn(hyperedges))) = Len(hyperedges)
      /\ \A k \in 1..Len(hyperedges) :
           /\ RowsOf(graph, MembersIn(hyperedges))[k] = NumbersOf(graph, MembersIn(hyperedges)[k])
           /\ Len(RowsOf(graph, MembersIn(hyperedges))[k]) = Len(MembersIn(hyperedges)[k])
           /\ Len(MembersIn(hyperedges)[k]) \in Nat
  <2>1. \A k \in 1..Len(hyperedges) : NodesMet(graph, MembersIn(hyperedges)[k])
    BY <1>2, <1>4, <1>6
  <2>. QED  BY <1>1, <1>2, <1>6, <2>1, RowsOfLists
<1>9. /\ RowsOf(graph, ArgumentLists(tuples)) \in Seq(Seq(Int))
      /\ Len(RowsOf(graph, ArgumentLists(tuples))) = Len(tuples)
      /\ \A k \in 1..Len(tuples) :
           /\ RowsOf(graph, ArgumentLists(tuples))[k] = NumbersOf(graph, ArgumentLists(tuples)[k])
           /\ Len(RowsOf(graph, ArgumentLists(tuples))[k]) = Len(ArgumentLists(tuples)[k])
           /\ Len(ArgumentLists(tuples)[k]) \in Nat
  <2>1. \A k \in 1..Len(tuples) : NodesMet(graph, ArgumentLists(tuples)[k])
    BY <1>3, <1>5, <1>7
  <2>. QED  BY <1>1, <1>3, <1>7, <2>1, RowsOfLists
<1>10. \A k \in DOMAIN hyperedges :
         /\ RowsOf(graph, MembersIn(hyperedges))[k] = NumbersOf(graph, Members(hyperedges[k]))
         /\ Len(RowsOf(graph, MembersIn(hyperedges))[k]) = Len(Members(hyperedges[k]))
         /\ Len(Members(hyperedges[k])) \in Nat
  BY <1>2, <1>6, <1>8
<1>11. \A k \in DOMAIN tuples :
         /\ RowsOf(graph, ArgumentLists(tuples))[k] = NumbersOf(graph, NodesIn(tuples[k]))
         /\ Len(RowsOf(graph, ArgumentLists(tuples))[k]) = Len(tuples[k].arguments)
         /\ Len(tuples[k].arguments) \in Nat
  BY <1>3, <1>5, <1>7, <1>9
<1>. QED  BY <1>4, <1>5, <1>8, <1>9, <1>10, <1>11 DEF hyperedges, tuples

\* The tables that are asked for, row by row.
LEMMA RowsAsked ==
  ASSUME NEW d, NEW graph, DrawingFits(d, graph)
  PROVE  /\ Len(HyperedgesOf(d, graph)) \in Nat
         /\ DOMAIN HyperedgesOf(d, graph) = 1..Len(HyperedgesOf(d, graph))
         /\ d.include_hyperedge_incidence => HyperedgesOf(d, graph) = graph.instances
         /\ Len(TuplesIn(d, graph)) \in Nat
         /\ DOMAIN TuplesIn(d, graph) = 1..Len(TuplesIn(d, graph))
         /\ HasTuples(d) => TuplesIn(d, graph) = graph.instances
<1>1. /\ \A rows : rows = When(TRUE, graph.instances) =>
           Len(rows) \in Nat /\ DOMAIN rows = 1..Len(rows) /\ rows = graph.instances
      /\ \A rows : rows = When(FALSE, graph.instances) =>
           Len(rows) \in Nat /\ DOMAIN rows = 1..Len(rows)
  BY TableRows
<1>2. \/ HyperedgesOf(d, graph) = When(TRUE, graph.instances)
      \/ /\ HyperedgesOf(d, graph) = When(FALSE, graph.instances)
         /\ ~d.include_hyperedge_incidence
  BY DEF HyperedgesOf, When
<1>3. \/ TuplesIn(d, graph) = When(TRUE, graph.instances)
      \/ TuplesIn(d, graph) = When(FALSE, graph.instances) /\ ~HasTuples(d)
  BY DEF TuplesIn, When
<1>. QED  BY <1>1, <1>2, <1>3

LEMMA RowFieldsFit ==
  ASSUME NEW d, NEW graph, DrawingFits(d, graph), NEW f, f = GraphFieldsOf(d, graph)
  PROVE  /\ IsVector(f.x_ids) /\ Len(f.x_ids) = Len(graph.nodes)
         /\ IsVector(f.object_names) /\ IsVector(f.hyperedge_sizes)
         /\ Len(f.hyperedge_sizes) = Len(HyperedgesOf(d, graph))
         /\ IsVector(f.hyperedge_attr_rows) /\ IsVector(f.tuple_slot_sizes)
         /\ IsVector(f.tuple_attrs) /\ IsVector(f.spd_dist)
<1>. DEFINE hyperedges == HyperedgesOf(d, graph)
            tuples == TuplesIn(d, graph)
<1>0. RowFields(d, graph, f)
  BY FieldsAre
<1>1. /\ f.x_ids = [k \in DOMAIN graph.nodes |-> ChannelsOfNode(graph.nodes[k])]
      /\ f.object_names = graph.objects
      /\ f.hyperedge_sizes = [k \in DOMAIN hyperedges |-> Len(Members(hyperedges[k]))]
      /\ f.hyperedge_attr_rows = [k \in DOMAIN hyperedges |-> ChannelsOf(hyperedges[k])]
      /\ f.tuple_slot_sizes = [k \in DOMAIN tuples |-> Len(tuples[k].arguments)]
      /\ f.tuple_attrs = [k \in DOMAIN tuples |-> ChannelsOf(tuples[k])]
      /\ f.spd_dist = [k \in DOMAIN graph.distances |-> graph.distances[k].dist]
  BY <1>0 DEF RowFields
<1>2. /\ Len(graph.nodes) \in Nat /\ DOMAIN graph.nodes = 1..Len(graph.nodes)
      /\ Len(graph.distances) \in Nat /\ DOMAIN graph.distances = 1..Len(graph.distances)
      /\ IsVector(graph.objects)
  BY VectorFacts DEF DrawingFits, NodesFit
<1>3. /\ Len(hyperedges) \in Nat /\ DOMAIN hyperedges = 1..Len(hyperedges)
      /\ Len(tuples) \in Nat /\ DOMAIN tuples = 1..Len(tuples)
  BY RowsAsked
<1>. HIDE DEF hyperedges, tuples
<1>4. IsVector(f.x_ids) /\ Len(f.x_ids) = Len(graph.nodes)
  <2>1. DOMAIN f.x_ids = DOMAIN graph.nodes /\ f.x_ids = [k \in DOMAIN f.x_ids |-> f.x_ids[k]]
    BY <1>1
  <2>. QED  BY <1>2, <2>1, MadeVector
<1>5. IsVector(f.hyperedge_sizes) /\ Len(f.hyperedge_sizes) = Len(hyperedges)
  <2>1. /\ DOMAIN f.hyperedge_sizes = DOMAIN hyperedges
        /\ f.hyperedge_sizes = [k \in DOMAIN f.hyperedge_sizes |-> f.hyperedge_sizes[k]]
    BY <1>1
  <2>. QED  BY <1>3, <2>1, MadeVector
<1>6. IsVector(f.hyperedge_attr_rows)
  <2>1. /\ DOMAIN f.hyperedge_attr_rows = DOMAIN hyperedges
        /\ f.hyperedge_attr_rows = [k \in DOMAIN f.hyperedge_attr_rows |-> f.hyperedge_attr_rows[k]]
    BY <1>1
  <2>. QED  BY <1>3, <2>1, MadeVector
<1>7. IsVector(f.tuple_slot_sizes)
  <2>1. /\ DOMAIN f.tuple_slot_sizes = DOMAIN tuples
        /\ f.tuple_slot_sizes = [k \in DOMAIN f.tuple_slot_sizes |-> f.tuple_slot_sizes[k]]
    BY <1>1
  <2>. QED  BY <1>3, <2>1, MadeVector
<1>8. IsVector(f.tuple_attrs)
  <2>1. /\ DOMAIN f.tuple_attrs = DOMAIN tuples
        /\ f.tuple_attrs = [k \in DOMAIN f.tuple_attrs |-> f.tuple_attrs[k]]
    BY <1>1
  <2>. QED  BY <1>3, <2>1, MadeVector
<1>9. IsVector(f.spd_dist)
  <2>1. /\ DOMAIN f.spd_dist = DOMAIN graph.distances
        /\ f.spd_dist = [k \in DOMAIN f.spd_dist |-> f.spd_dist[k]]
    BY <1>1
  <2>. QED  BY <1>2, <2>1, MadeVector
<1>. QED  BY <1>1, <1>2, <1>4, <1>5, <1>6, <1>7, <1>8, <1>9 DEF hyperedges

LEMMA InstanceNumbersAre ==
  ASSUME NEW d, NEW graph, DrawingFits(d, graph)
  PROVE  /\ InstanceNumbers(d, graph) \in Seq(Int)
         /\ Len(InstanceNumbers(d, graph)) = Len(graph.instances)
<1>1. /\ Len(graph.instances) \in Nat /\ DOMAIN graph.instances = 1..Len(graph.instances)
      /\ \A k \in DOMAIN graph.instances : graph.instances[k] \in ToSet(graph.instances)
      /\ IsVector(graph.nodes)
  BY VectorFacts DEF DrawingFits, NodesFit
<1>2. ASSUME NEW inst \in ToSet(graph.instances)
      PROVE  NumberOf(graph, NodeOfInstance(d, inst)) \in Int
  <2>1. CASE HasNode(d, inst)
    <3>1. NodeOfInstance(d, inst) = InstanceNode(inst) /\ InstanceNode(inst) \in ToSet(graph.nodes)
      BY <2>1 DEF NodeOfInstance, DrawingFits, InstanceFits
    <3>. QED  BY <1>1, <3>1, NumberLeads, NodesApart
  <2>2. CASE ~HasNode(d, inst) /\ inst.arguments = <<>>
    <3>1. NodeOfInstance(d, inst) = AnchorNode /\ Members(inst) = <<AnchorNode>> /\ HasAnchorNode(d)
      BY <2>2 DEF NodeOfInstance, HasNode, HasAnchorNode, Members
    <3>2. NodesMet(graph, Members(inst))
      BY <3>1, NodesOfInstance
    <3>3. 1 \in DOMAIN Members(inst) /\ Members(inst)[1] = AnchorNode
      BY <3>1
    <3>4. AnchorNode \in ToSet(graph.nodes) \ {NoNode}
      BY <3>2, <3>3 DEF NodesMet
    <3>. QED  BY <1>1, <3>1, <3>4, NumberLeads
  <2>3. CASE ~HasNode(d, inst) /\ inst.arguments # <<>>
    <3>1. NodeOfInstance(d, inst) = NoNode
      BY <2>3 DEF NodeOfInstance
    <3>. QED  BY <3>1 DEF NumberOf
  <2>. QED  BY <2>1, <2>2, <2>3
<1>. DEFINE t == InstanceNumbers(d, graph)
<1>3. t \in [1..Len(graph.instances) -> Int]
  BY <1>1, <1>2 DEF InstanceNumbers
<1>. HIDE DEF t
<1>4. t \in Seq(Int) /\ Len(t) = Len(graph.instances)
  BY <1>1, <1>3, SeqOfLength
<1>. QED  BY <1>4 DEF t

LEMMA ColumnFieldsFit ==
  ASSUME NEW d, NEW graph, DrawingFits(d, graph), NEW f, f = GraphFieldsOf(d, graph)
  PROVE  /\ f.instance_node_indices \in Seq(Int) /\ f.hyperedge_node_indices \in Seq(Int)
         /\ f.tuple_args \in Seq(Int) /\ f.spd_src \in Seq(Int) /\ f.spd_dst \in Seq(Int)
         /\ f.anchor_index \in Seq(Int)
<1>1. /\ f.hyperedge_node_indices = FlattenSeq(RowsOf(graph, MembersIn(HyperedgesOf(d, graph))))
      /\ f.tuple_args = FlattenSeq(RowsOf(graph, ArgumentLists(TuplesIn(d, graph))))
      /\ f.spd_src = NumbersOf(graph, [k \in DOMAIN graph.distances |-> graph.distances[k].src])
      /\ f.spd_dst = NumbersOf(graph, [k \in DOMAIN graph.distances |-> graph.distances[k].dst])
      /\ f.instance_node_indices = When(CollectsInstances(d), InstanceNumbers(d, graph))
      /\ f.anchor_index = When(HasAnchorNode(d), <<NumberOf(graph, AnchorNode)>>)
  BY FieldsAre DEF ColumnFields
<1>2. IsVector(graph.nodes) /\ IsVector(graph.distances)
      /\ \A e \in ToSet(graph.distances) : EndsFit(graph, e)
  BY DEF DrawingFits, NodesFit
<1>3. NoNode \notin ToSet(graph.nodes)
  <2>1. ASSUME NEW k \in DOMAIN graph.nodes
        PROVE  graph.nodes[k] # NoNode
    <3>1. NodeFits(graph, k)
      BY DEF DrawingFits, NodesFit
    <3>. QED  BY <3>1, NodesApart DEF NodeFits
  <2>. QED  BY <2>1 DEF ToSet
<1>4. f.hyperedge_node_indices \in Seq(Int) /\ f.tuple_args \in Seq(Int)
  <2>1. /\ RowsOf(graph, MembersIn(HyperedgesOf(d, graph))) \in Seq(Seq(Int))
        /\ RowsOf(graph, ArgumentLists(TuplesIn(d, graph))) \in Seq(Seq(Int))
    BY DrawnRows
  <2>. QED  BY <1>1, <2>1, Flattened
<1>5. /\ Len(graph.distances) \in Nat /\ DOMAIN graph.distances = 1..Len(graph.distances)
      /\ \A k \in DOMAIN graph.distances : graph.distances[k] \in ToSet(graph.distances)
  BY <1>2, VectorFacts
<1>6. ASSUME NEW t, DOMAIN t = DOMAIN graph.distances, t = [k \in DOMAIN t |-> t[k]],
             \A k \in DOMAIN graph.distances : t[k] \in ToSet(graph.nodes)
      PROVE  NumbersOf(graph, t) \in Seq(Int)
  <2>1. IsVector(t)
    BY <1>5, <1>6, MadeVector
  <2>2. NodesMet(graph, t)
    BY <1>3, <1>6, <2>1 DEF NodesMet
  <2>. QED  BY <1>2, <2>2, NumbersAre
<1>7. f.spd_src \in Seq(Int)
  <2>. DEFINE t == [k \in DOMAIN graph.distances |-> graph.distances[k].src]
  <2>1. DOMAIN t = DOMAIN graph.distances /\ t = [k \in DOMAIN t |-> t[k]]
    OBVIOUS
  <2>2. \A k \in DOMAIN graph.distances : t[k] \in ToSet(graph.nodes)
    BY <1>2, <1>5 DEF EndsFit
  <2>. HIDE DEF t
  <2>3. NumbersOf(graph, t) \in Seq(Int)
    BY <1>6, <2>1, <2>2
  <2>. QED  BY <1>1, <2>3 DEF t
<1>8. f.spd_dst \in Seq(Int)
  <2>. DEFINE t == [k \in DOMAIN graph.distances |-> graph.distances[k].dst]
  <2>1. DOMAIN t = DOMAIN graph.distances /\ t = [k \in DOMAIN t |-> t[k]]
    OBVIOUS
  <2>2. \A k \in DOMAIN graph.distances : t[k] \in ToSet(graph.nodes)
    BY <1>2, <1>5 DEF EndsFit
  <2>. HIDE DEF t
  <2>3. NumbersOf(graph, t) \in Seq(Int)
    BY <1>6, <2>1, <2>2
  <2>. QED  BY <1>1, <2>3 DEF t
<1>9. <<>> \in Seq(Int)
  OBVIOUS
<1>10. f.instance_node_indices \in Seq(Int)
  BY <1>1, <1>9, InstanceNumbersAre DEF When
<1>11. f.anchor_index \in Seq(Int)
  <2>1. CASE HasAnchorNode(d)
    <3>1. Len(graph.nodes) \in Nat /\ DOMAIN graph.nodes = 1..Len(graph.nodes) /\ Len(graph.nodes) > 0
      BY <2>1, VectorFacts DEF DrawingFits, NodesFit
    <3>2. Len(graph.nodes) \in DOMAIN graph.nodes
      BY <3>1
    <3>3. graph.nodes[Len(graph.nodes)] = AnchorNode
      BY <2>1, <3>2 DEF DrawingFits, NodesFit
    <3>4. AnchorNode \in ToSet(graph.nodes)
      BY <3>2, <3>3 DEF ToSet
    <3>5. NumberOf(graph, AnchorNode) \in Int
      BY <1>2, <3>4, NumberLeads, NodesApart
    <3>. QED  BY <1>1, <2>1, <3>5 DEF When
  <2>2. CASE ~HasAnchorNode(d)
    BY <1>1, <1>9, <2>2 DEF When
  <2>. QED  BY <2>1, <2>2
<1>. QED  BY <1>4, <1>7, <1>8, <1>10, <1>11

LEMMA FieldsOfDrawing ==
  ASSUME NEW d, NEW graph, DrawingFits(d, graph)
  PROVE  FieldsFit(GraphFieldsOf(d, graph))
<1>. DEFINE f == GraphFieldsOf(d, graph)
            n == Len(HyperedgesOf(d, graph))
<1>0. f = GraphFieldsOf(d, graph)
  OBVIOUS
<1>0a. RowFields(d, graph, f)
  BY FieldsAre
<1>1. /\ f.num_nodes = Len(graph.nodes) /\ f.object_names = graph.objects
      /\ f.x_ids = [k \in DOMAIN graph.nodes |-> ChannelsOfNode(graph.nodes[k])]
      /\ f.edges = [k \in DOMAIN graph.edges |-> EdgeRow(graph, graph.edges[k])]
      /\ f.hyperedge_counts = n
      /\ f.hyperedge_sizes
           = [k \in DOMAIN HyperedgesOf(d, graph) |-> Len(Members(HyperedgesOf(d, graph)[k]))]
      /\ f.hyperedge_ids = [k \in DOMAIN HyperedgesOf(d, graph) |-> k - 1]
  BY <1>0a DEF RowFields
<1>. HIDE DEF f
<1>2. /\ IsVector(f.x_ids) /\ Len(f.x_ids) = Len(graph.nodes)
      /\ IsVector(f.object_names) /\ IsVector(f.hyperedge_sizes)
      /\ Len(f.hyperedge_sizes) = Len(HyperedgesOf(d, graph))
      /\ IsVector(f.hyperedge_attr_rows) /\ IsVector(f.tuple_slot_sizes)
      /\ IsVector(f.tuple_attrs) /\ IsVector(f.spd_dist)
  BY <1>0, RowFieldsFit
<1>3. \A key \in RowKeys : IsVector(f[key])
  BY <1>2 DEF RowKeys
<1>4. /\ f.instance_node_indices \in Seq(Int) /\ f.hyperedge_node_indices \in Seq(Int)
      /\ f.tuple_args \in Seq(Int) /\ f.spd_src \in Seq(Int) /\ f.spd_dst \in Seq(Int)
      /\ f.anchor_index \in Seq(Int)
  BY <1>0, ColumnFieldsFit
<1>5. \A key \in NodeColumns : f[key] \in Seq(Int)
  BY <1>4 DEF NodeColumns
<1>6. f.num_nodes = Len(f.x_ids) /\ Cardinality(ObjectPlaces(f.x_ids)) = Len(f.object_names)
  BY <1>1, <1>2, ObjectsCounted
<1>7. n \in Nat /\ DOMAIN HyperedgesOf(d, graph) = 1..n
  BY RowsAsked
<1>8. \A k \in 1..n : f.hyperedge_sizes[k] \in Nat
  <2>1. \A k \in DOMAIN HyperedgesOf(d, graph) : Len(Members(HyperedgesOf(d, graph)[k])) \in Nat
    BY DrawnRows
  <2>. QED  BY <1>1, <1>7, <2>1
<1>9. IsVector(f.edges) /\ \A k \in DOMAIN f.edges : IsEdgeRow(f.edges[k])
  <2>1. /\ Len(graph.edges) \in Nat /\ DOMAIN graph.edges = 1..Len(graph.edges)
        /\ \A k \in DOMAIN graph.edges : graph.edges[k] \in ToSet(graph.edges)
        /\ IsVector(graph.nodes)
    BY VectorFacts DEF DrawingFits, NodesFit
  <2>2. DOMAIN f.edges = DOMAIN graph.edges /\ f.edges = [k \in DOMAIN f.edges |-> f.edges[k]]
    BY <1>1
  <2>3. IsVector(f.edges)
    BY <2>1, <2>2, MadeVector
  <2>4. NoNode \notin ToSet(graph.nodes)
    <3>1. ASSUME NEW k \in DOMAIN graph.nodes
          PROVE  graph.nodes[k] # NoNode
      <4>1. NodeFits(graph, k)
        BY DEF DrawingFits, NodesFit
      <4>. QED  BY <4>1, NodesApart DEF NodeFits
    <3>. QED  BY <3>1 DEF ToSet
  <2>5. ASSUME NEW k \in DOMAIN graph.edges
        PROVE  IsEdgeRow(f.edges[k])
    <3>. DEFINE e == graph.edges[k]
    <3>1. e.src \in ToSet(graph.nodes) /\ e.dst \in ToSet(graph.nodes)
      BY <2>1 DEF DrawingFits, EndsFit
    <3>2. NumberOf(graph, e.src) \in Int /\ NumberOf(graph, e.dst) \in Int
      BY <2>1, <2>4, <3>1, NumberLeads
    <3>3. f.edges[k] = EdgeRow(graph, e)
      BY <1>1
    <3>. HIDE DEF e
    <3>. QED  BY <3>2, <3>3 DEF EdgeRow, IsEdgeRow
  <2>. QED  BY <2>2, <2>3, <2>5
<1>10. FieldsFit(f)
  <2>1. f.hyperedge_ids = [k \in 1..f.hyperedge_counts |-> k - 1]
    BY <1>1, <1>7
  <2>. HIDE DEF n
  <2>2. /\ f.hyperedge_counts \in Nat /\ Len(f.hyperedge_sizes) = f.hyperedge_counts
        /\ \A k \in 1..f.hyperedge_counts : f.hyperedge_sizes[k] \in Nat
    BY <1>1, <1>2, <1>7, <1>8 DEF n
  <2>. QED  BY <1>3, <1>5, <1>6, <1>9, <2>1, <2>2 DEF FieldsFit
<1>. QED  BY <1>10 DEF f

\* Drawn graphs and what is written of them.
Written(d, graphs, fields) ==
  /\ Len(graphs) \in Nat /\ DOMAIN graphs = 1..Len(graphs)
  /\ Len(fields) = Len(graphs) /\ DOMAIN fields = DOMAIN graphs
  /\ AllFieldsFit(fields)
  /\ \A g \in DOMAIN graphs :
       DrawingFits(d, graphs[g]) /\ fields[g] = GraphFieldsOf(d, graphs[g])

LEMMA FieldsWritten ==
  ASSUME NEW d, NEW graphs, IsVector(graphs), \A g \in DOMAIN graphs : DrawingFits(d, graphs[g]),
         NEW fields, fields = [k \in DOMAIN graphs |-> GraphFieldsOf(d, graphs[k])]
  PROVE  Written(d, graphs, fields)
<1>1. Len(graphs) \in Nat /\ DOMAIN graphs = 1..Len(graphs)
  BY VectorFacts
<1>2. DOMAIN fields = DOMAIN graphs /\ fields = [k \in DOMAIN fields |-> fields[k]]
  OBVIOUS
<1>3. IsVector(fields) /\ Len(fields) = Len(graphs)
  BY <1>1, <1>2, MadeVector
<1>4. \A g \in DOMAIN graphs : FieldsFit(GraphFieldsOf(d, graphs[g]))
  BY FieldsOfDrawing
<1>5. \A g \in DOMAIN graphs : fields[g] = GraphFieldsOf(d, graphs[g])
  OBVIOUS
<1>6. AllFieldsFit(fields)
  BY <1>2, <1>3, <1>4, <1>5 DEF AllFieldsFit
<1>. QED  BY <1>1, <1>2, <1>3, <1>5, <1>6 DEF Written

\* The table of all nodes, graph behind graph.
LEMMA NodeTable ==
  ASSUME NEW d, NEW graphs, NEW fields, Written(d, graphs, fields)
  PROVE  /\ \E T : PerGraph(graphs, "nodes") \in Seq(Seq(T))
         /\ Len(PerGraph(graphs, "nodes")) = Len(graphs)
         /\ Lengths(PerGraph(graphs, "nodes")) = PerGraph(fields, "num_nodes")
         /\ \A g \in DOMAIN graphs :
              /\ PerGraph(graphs, "nodes")[g] = graphs[g].nodes
              /\ NodesBefore(fields, g) \in Nat
              /\ NodesBefore(fields, g) = SumTo(PerGraph(fields, "num_nodes"), g - 1)
              /\ NodesBefore(fields, g) + Len(graphs[g].nodes)
                   = SumTo(PerGraph(fields, "num_nodes"), g)
<1>. DEFINE nodes == PerGraph(graphs, "nodes")
            sizes == PerGraph(fields, "num_nodes")
<1>1. /\ Len(graphs) \in Nat /\ DOMAIN graphs = 1..Len(graphs)
      /\ Len(fields) = Len(graphs) /\ DOMAIN fields = DOMAIN graphs /\ AllFieldsFit(fields)
  BY DEF Written
<1>2. \A g \in DOMAIN graphs : IsVector(graphs[g]["nodes"])
  BY DEF Written, DrawingFits, NodesFit
<1>3. IsVector(nodes) /\ Len(nodes) = Len(graphs) /\ DOMAIN nodes = DOMAIN graphs
  <2>1. DOMAIN nodes = DOMAIN graphs /\ nodes = [g \in DOMAIN nodes |-> nodes[g]]
    BY DEF PerGraph
  <2>. QED  BY <1>1, <2>1, MadeVector
<1>4. \A g \in DOMAIN graphs : nodes[g] = graphs[g].nodes /\ graphs[g]["nodes"] = graphs[g].nodes
  BY DEF PerGraph
<1>5. ASSUME NEW g \in DOMAIN graphs
      PROVE  sizes[g] = Len(graphs[g].nodes) /\ fields[g].num_nodes = Len(graphs[g].nodes)
  <2>1. RowFields(d, graphs[g], fields[g])
    BY FieldsAre DEF Written
  <2>2. fields[g].num_nodes = Len(graphs[g].nodes)
    BY <2>1 DEF RowFields
  <2>. QED  BY <1>1, <2>2 DEF PerGraph
<1>6. Lengths(nodes) = sizes
  <2>1. Lengths(nodes) = [g \in DOMAIN graphs |-> Len(graphs[g].nodes)]
    BY <1>3, <1>4 DEF Lengths
  <2>2. sizes = [g \in DOMAIN graphs |-> Len(graphs[g].nodes)]
    BY <1>1, <1>5 DEF PerGraph
  <2>. QED  BY <2>1, <2>2
<1>7. \E T : nodes \in Seq(Seq(T))
  <2>. DEFINE T == UNION {ToSet(graphs[g].nodes) : g \in DOMAIN graphs}
  <2>1. \A g \in DOMAIN graphs : ToSet(graphs[g].nodes) \subseteq T
    OBVIOUS
  <2>. HIDE DEF T
  <2>2. \A g \in DOMAIN graphs : nodes[g] \in Seq(T)
    BY <1>2, <1>4, <2>1, VectorIn
  <2>3. nodes \in [1..Len(graphs) -> Seq(T)]
    BY <1>1, <2>2 DEF PerGraph
  <2>4. nodes \in Seq(Seq(T))
    BY <1>1, <2>3, SeqOfLength
  <2>. QED  BY <2>4
<1>8. ASSUME NEW g \in DOMAIN graphs
      PROVE  /\ NodesBefore(fields, g) \in Nat
             /\ NodesBefore(fields, g) = SumTo(sizes, g - 1)
             /\ NodesBefore(fields, g) + Len(graphs[g].nodes) = SumTo(sizes, g)
  <2>1. sizes = [h \in DOMAIN fields |-> fields[h].num_nodes]
    BY DEF PerGraph
  <2>2. NodesBefore(fields, g) = SumTo(sizes, g - 1)
    BY <2>1 DEF NodesBefore
  <2>3. g \in 1..Len(fields)
    BY <1>1
  <2>4. /\ NodesBefore(fields, g) \in Nat
        /\ NodesBefore(fields, g) + fields[g].num_nodes
             = SumTo([h \in DOMAIN fields |-> fields[h].num_nodes], g)
    BY <1>1, <2>3, BeforeGraph
  <2>. HIDE DEF sizes
  <2>. QED  BY <1>5, <2>1, <2>2, <2>4
<1>. QED  BY <1>3, <1>4, <1>6, <1>7, <1>8

\* A number of a graph, counted on, leads to the same node in the table of all.
LEMMA NumberInTable ==
  ASSUME NEW d, NEW graphs, NEW fields, Written(d, graphs, fields), NEW g \in DOMAIN graphs,
         NEW node \in ToSet(graphs[g].nodes), node # NoNode,
         NEW table, table = FlattenSeq(PerGraph(graphs, "nodes")),
         NEW number, number = NumberOf(graphs[g], node) + NodesBefore(fields, g)
  PROVE  /\ number \in Nat /\ number >= NodesBefore(fields, g)
         /\ number + 1 \in DOMAIN table /\ table[number + 1] = node
<1>. DEFINE nodes == PerGraph(graphs, "nodes")
            before == NodesBefore(fields, g)
            own == NumberOf(graphs[g], node)
<1>1. PICK T : nodes \in Seq(Seq(T))
  BY NodeTable
<1>2. /\ Len(nodes) = Len(graphs) /\ nodes[g] = graphs[g].nodes
      /\ before \in Nat /\ before = SumTo(Lengths(nodes), g - 1)
  BY NodeTable
<1>3. g \in 1..Len(nodes)
  BY <1>2 DEF Written
<1>4. IsVector(graphs[g].nodes)
  BY DEF Written, DrawingFits, NodesFit
<1>5. own \in Nat /\ own + 1 \in 1..Len(nodes[g]) /\ nodes[g][own + 1] = node
  BY <1>2, <1>4, NumberLeads
<1>. HIDE DEF nodes, before, own
<1>6. /\ FlattenSeq(nodes) \in Seq(T)
      /\ \A k \in 1..Len(nodes[g]) : FlattenSeq(nodes)[before + k] = nodes[g][k]
  BY <1>1, <1>2, <1>3, Flattened
<1>7. /\ Len(nodes[g]) \in Nat /\ Len(FlattenSeq(nodes)) \in Nat
      /\ before + Len(nodes[g]) <= Len(FlattenSeq(nodes))
  BY <1>1, <1>2, <1>3, FlattenedPart
<1>8. table = FlattenSeq(nodes) /\ number = own + before
  BY DEF nodes, own, before
<1>9. DOMAIN table = 1..Len(table)
  BY <1>6, <1>8, LenProperties
<1>10. number + 1 = before + (own + 1)
  BY <1>2, <1>5, <1>8
<1>11. table[number + 1] = node
  BY <1>5, <1>6, <1>8, <1>10
<1>12. number + 1 \in DOMAIN table /\ number \in Nat /\ number >= before
  <2>. DEFINE len == Len(nodes[g])
              all == Len(FlattenSeq(nodes))
  <2>1. len \in Nat /\ all \in Nat /\ before + len <= all /\ own + 1 \in 1..len
    BY <1>5, <1>7
  <2>2. DOMAIN table = 1..all
    BY <1>8, <1>9
  <2>. HIDE DEF len, all
  <2>3. before \in Nat /\ own \in Nat /\ number = own + before
    BY <1>2, <1>5, <1>8
  <2>4. number + 1 \in 1..all /\ number \in Nat /\ number >= before
    BY ONLY <2>1, <2>3
  <2>. QED  BY ONLY <2>2, <2>4
<1>. QED  BY <1>11, <1>12 DEF before

NodesAt(table, numbers) == {table[m + 1] : m \in numbers}

LEMMA MeansInTable ==
  ASSUME NEW d, NEW graphs, NEW fields, Written(d, graphs, fields), NEW g \in DOMAIN graphs,
         NEW list, NodesMet(graphs[g], list),
         NEW table, table = FlattenSeq(PerGraph(graphs, "nodes")),
         NEW numbers, numbers = Shifted(NumbersOf(graphs[g], list), NodesBefore(fields, g))
  PROVE  /\ MeansIn(table, NodesBefore(fields, g), numbers, list)
         /\ NodesAt(table, ToSet(numbers)) = ToSet(list)
<1>. DEFINE own == NumbersOf(graphs[g], list)
            before == NodesBefore(fields, g)
<1>0. IsVector(graphs[g].nodes)
  BY DEF Written, DrawingFits, NodesFit
<1>1. IsVector(graphs[g].nodes) /\ before \in Nat
  BY <1>0, NodeTable
<1>2. /\ own \in Seq(Int) /\ Len(own) = Len(list) /\ DOMAIN list = 1..Len(list) /\ Len(list) \in Nat
      /\ \A k \in DOMAIN list : own[k] = NumberOf(graphs[g], list[k])
  BY <1>1, NumbersAre
<1>3. \A k \in DOMAIN list : list[k] \in ToSet(graphs[g].nodes) /\ list[k] # NoNode
  BY DEF NodesMet
<1>. HIDE DEF own, before
<1>4. numbers = Shifted(own, before)
  BY DEF own, before
<1>5. /\ numbers \in Seq(Int) /\ Len(numbers) = Len(own)
      /\ \A k \in 1..Len(own) : numbers[k] = own[k] + before
  <2>1. before \in Int
    BY <1>1
  <2>. QED  BY <1>2, <1>4, <2>1, ShiftedIs
<1>6. \A k \in DOMAIN list : numbers[k] = NumberOf(graphs[g], list[k]) + before
  BY <1>2, <1>5
<1>7. \A k \in DOMAIN list : /\ numbers[k] >= before /\ numbers[k] + 1 \in DOMAIN table
                             /\ table[numbers[k] + 1] = list[k]
  BY <1>3, <1>6, NumberInTable DEF before
<1>8. DOMAIN numbers = DOMAIN list
  BY <1>2, <1>5, LenProperties
<1>9. {table[m + 1] : m \in ToSet(numbers)} = ToSet(list)
  BY <1>7, <1>8 DEF ToSet
<1>10. MeansIn(table, before, numbers, list)
  BY <1>2, <1>5, <1>7 DEF MeansIn
<1>. QED  BY <1>9, <1>10 DEF before, NodesAt

\* How many instances each graph has.
InstanceCounts(graphs) == [h \in DOMAIN graphs |-> Len(graphs[h].instances)]

\* Rows that go along with the instances, found by the number of the instance.
LEMMA InstanceRows ==
  ASSUME NEW d, NEW graphs, NEW fields, Written(d, graphs, fields), NEW g \in DOMAIN graphs,
         NEW n \in DOMAIN graphs[g].instances, NEW key \in RowKeys \cup NodeColumns,
         \A h \in DOMAIN graphs :
           IsVector(fields[h][key]) /\ Len(fields[h][key]) = Len(graphs[h].instances)
  PROVE  LET r == RowOf(InstanceCounts(graphs), g, n)
         IN  /\ key \in RowKeys => NativeBatch(fields)[key][r] = fields[g][key][n]
             /\ key \in NodeColumns =>
                  NativeBatch(fields)[key][r] = fields[g][key][n] + NodesBefore(fields, g)
<1>. DEFINE counts == InstanceCounts(graphs)
            r == RowOf(counts, g, n)
<1>1. /\ Len(graphs) \in Nat /\ DOMAIN graphs = 1..Len(graphs)
      /\ Len(fields) = Len(graphs) /\ DOMAIN fields = DOMAIN graphs /\ AllFieldsFit(fields)
  BY DEF Written
<1>2. DOMAIN graphs[g].instances = 1..Len(graphs[g].instances)
  BY VectorFacts DEF Written, DrawingFits
<1>3. \A h \in DOMAIN graphs : counts[h] = Len(graphs[h].instances)
  BY DEF InstanceCounts
<1>. HIDE DEF counts
<1>4. CASE key \in RowKeys
  <2>. DEFINE w == PerGraph(fields, key)
  <2>1. PICK T : w \in Seq(Seq(T)) /\ Len(w) = Len(fields)
    <3>1. IsVector(fields)
      BY <1>1 DEF AllFieldsFit
    <3>2. \A h \in DOMAIN fields : IsVector(fields[h][key])
      BY <1>1
    <3>. QED  BY <3>1, <3>2, PerGraphParts
  <2>2. \A h \in DOMAIN graphs : w[h] = fields[h][key]
    BY <1>1 DEF PerGraph
  <2>. HIDE DEF w
  <2>3. Counts(counts, w)
    BY <1>1, <1>3, <2>1, <2>2 DEF Counts
  <2>4. g \in 1..Len(w) /\ n \in 1..Len(w[g])
    BY <1>1, <1>2, <2>1, <2>2
  <2>5. FlattenSeq(w)[r] = w[g][n]
    BY <2>1, <2>3, <2>4, RowOfAll DEF InPlaceAt
  <2>6. NativeBatch(fields)[key] = FlattenSeq(w)
    BY <1>4, NativeIs DEF Concatenated, w
  <2>7. key \notin NodeColumns
    BY <1>4 DEF RowKeys, NodeColumns
  <2>. QED  BY <2>2, <2>5, <2>6, <2>7 DEF counts
<1>5. CASE key \in NodeColumns
  <2>. DEFINE w == [h \in DOMAIN fields |-> Shifted(fields[h][key], NodesBefore(fields, h))]
  <2>1. \A h \in DOMAIN fields : fields[h][key] \in Seq(Int)
    BY <1>5 DEF Written, AllFieldsFit, FieldsFit
  <2>2. \A h \in DOMAIN fields : NodesBefore(fields, h) \in Int
    <3>1. \A h \in DOMAIN graphs : NodesBefore(fields, h) \in Nat
      BY NodeTable
    <3>. QED  BY <1>1, <3>1
  <2>3. ASSUME NEW h \in DOMAIN fields
        PROVE  /\ w[h] \in Seq(Int) /\ Len(w[h]) = Len(fields[h][key])
               /\ DOMAIN fields[h][key] = 1..Len(fields[h][key])
               /\ \A k \in DOMAIN fields[h][key] :
                    w[h][k] = fields[h][key][k] + NodesBefore(fields, h)
    <3>. DEFINE s == fields[h][key]
                by == NodesBefore(fields, h)
    <3>1. s \in Seq(Int) /\ by \in Int /\ w[h] = Shifted(s, by)
      BY <2>1, <2>2
    <3>. HIDE DEF s, by, w
    <3>2. /\ Shifted(s, by) \in Seq(Int) /\ Len(Shifted(s, by)) = Len(s) /\ DOMAIN s = 1..Len(s)
          /\ \A k \in 1..Len(s) : Shifted(s, by)[k] = s[k] + by
      BY <3>1, ShiftedIs
    <3>3. /\ w[h] \in Seq(Int) /\ Len(w[h]) = Len(s) /\ DOMAIN s = 1..Len(s)
          /\ \A k \in DOMAIN s : w[h][k] = s[k] + by
      BY <3>1, <3>2
    <3>. QED  BY <3>3 DEF s, by
  <2>4. w \in Seq(Seq(Int)) /\ Len(w) = Len(fields)
    <3>1. w \in [1..Len(graphs) -> Seq(Int)]
      BY <1>1, <2>3
    <3>. HIDE DEF w
    <3>. QED  BY <1>1, <3>1, SeqOfLength
  <2>5. NativeBatch(fields)[key] = FlattenSeq(w)
    BY <1>5, NativeIs DEF OnNodes
  <2>. HIDE DEF w
  <2>6. Counts(counts, w)
    BY <1>1, <1>3, <2>3, <2>4 DEF Counts
  <2>7. g \in 1..Len(w) /\ n \in 1..Len(w[g])
    BY <1>1, <1>2, <2>3, <2>4
  <2>8. FlattenSeq(w)[r] = w[g][n]
    <3>. DEFINE Ints == Int
    <3>1. w \in Seq(Seq(Ints))
      BY <2>4
    <3>. HIDE DEF Ints
    <3>. QED  BY <2>6, <2>7, <3>1, RowOfAll DEF InPlaceAt
  <2>9. n \in DOMAIN fields[g][key] /\ g \in DOMAIN fields
    BY <1>1, <1>2, <2>3
  <2>10. key \notin RowKeys
    BY <1>5 DEF RowKeys, NodeColumns
  <2>. QED  BY <2>3, <2>5, <2>8, <2>9, <2>10 DEF counts
<1>. QED  BY <1>4, <1>5

\* Lists that go along with the instances, one behind the other.
ListsWritten(graphs, fields, w, key, sizes) ==
  /\ DOMAIN w = DOMAIN graphs /\ w = [h \in DOMAIN w |-> w[h]]
  /\ \A h \in DOMAIN graphs :
       /\ w[h] \in Seq(Seq(Int)) /\ Len(w[h]) = Len(graphs[h].instances)
       /\ fields[h][key] = FlattenSeq(w[h])
       /\ IsVector(fields[h][sizes]) /\ Len(fields[h][sizes]) = Len(w[h])
       /\ \A n \in 1..Len(w[h]) : fields[h][sizes][n] = Len(w[h][n])

ListsOnNodes(graphs, fields, w, key, sizes, rows) ==
  /\ rows \in Seq(Seq(Int))
  /\ NativeBatch(fields)[key] = FlattenSeq(rows)
  /\ NativeBatch(fields)[sizes] \in Seq(Nat) /\ Len(NativeBatch(fields)[sizes]) = Len(rows)
  /\ Counts(NativeBatch(fields)[sizes], rows)
  /\ \A g \in DOMAIN graphs : \A n \in 1..Len(w[g]) :
       LET r == RowOf(InstanceCounts(graphs), g, n)
       IN  r \in 1..Len(rows) /\ rows[r] = Shifted(w[g][n], NodesBefore(fields, g))

LEMMA ListsFound ==
  ASSUME NEW d, NEW graphs, NEW fields, Written(d, graphs, fields),
         NEW key \in NodeColumns, NEW sizes \in RowKeys,
         NEW w, ListsWritten(graphs, fields, w, key, sizes)
  PROVE  \E rows : ListsOnNodes(graphs, fields, w, key, sizes, rows)
<1>. DEFINE counts == InstanceCounts(graphs)
            by == [h \in DOMAIN graphs |-> NodesBefore(fields, h)]
            all == PerGraph(fields, sizes)
            rows == FlattenSeq(RowsBehind(w, by))
            Numbers == Seq(Int)
<1>1. /\ Len(graphs) \in Nat /\ DOMAIN graphs = 1..Len(graphs)
      /\ Len(fields) = Len(graphs) /\ DOMAIN fields = DOMAIN graphs /\ AllFieldsFit(fields)
  BY DEF Written
<1>2. w \in Seq(Seq(Seq(Int))) /\ Len(w) = Len(graphs)
  <2>1. w \in [1..Len(graphs) -> Seq(Seq(Int))]
    BY <1>1 DEF ListsWritten
  <2>. QED  BY <1>1, <2>1, SeqOfLength
<1>3. \A h \in DOMAIN graphs :
        /\ w[h] \in Seq(Seq(Int)) /\ Len(w[h]) = Len(graphs[h].instances)
        /\ fields[h][key] = FlattenSeq(w[h])
        /\ IsVector(fields[h][sizes]) /\ Len(fields[h][sizes]) = Len(w[h])
        /\ \A n \in 1..Len(w[h]) : fields[h][sizes][n] = Len(w[h][n])
  BY DEF ListsWritten
<1>4. \A h \in 1..Len(w) : by[h] \in Int
  <2>1. \A h \in DOMAIN graphs : NodesBefore(fields, h) \in Nat
    BY NodeTable
  <2>2. ASSUME NEW h \in 1..Len(w)
        PROVE  by[h] \in Int
    <3>1. h \in DOMAIN graphs
      BY <1>1, <1>2
    <3>. QED  BY <2>1, <3>1
  <2>. QED  BY <2>2
<1>5. \A h \in DOMAIN graphs : all[h] = fields[h][sizes]
  BY <1>1 DEF PerGraph
<1>6. all \in Seq(Seq(Nat)) /\ Len(all) = Len(w)
  <2>1. ASSUME NEW h \in DOMAIN graphs
        PROVE  all[h] \in Seq(Nat)
    <3>1. IsVector(all[h]) /\ Len(all[h]) = Len(w[h])
      BY <1>3, <1>5
    <3>2. \A n \in 1..Len(w[h]) : all[h][n] \in Nat
      <4>1. \A n \in 1..Len(w[h]) : Len(w[h][n]) \in Nat
        BY <1>3, ElementOfSeq, LenProperties
      <4>. QED  BY <1>3, <1>5, <4>1
    <3>3. ToSet(all[h]) \subseteq Nat
      BY <3>1, <3>2, VectorFacts DEF ToSet
    <3>. QED  BY <3>1, <3>3, VectorIn
  <2>2. all \in [1..Len(graphs) -> Seq(Nat)]
    BY <1>1, <2>1 DEF PerGraph
  <2>. HIDE DEF all
  <2>. QED  BY <1>1, <1>2, <2>2, SeqOfLength
<1>. HIDE DEF all, counts
<1>7. RowLengths(w, all)
  BY <1>1, <1>2, <1>3, <1>5, <1>6 DEF RowLengths
<1>8. Counts(counts, w)
  BY <1>1, <1>2, <1>3 DEF Counts, counts, InstanceCounts
<1>9. NativeBatch(fields)[sizes] = FlattenSeq(all)
  BY NativeIs DEF Concatenated, all
<1>10. NativeBatch(fields)[key] = FlattenSeq(ColumnBehind(w, by))
  <2>1. ColumnBehind(w, by)
          = [h \in DOMAIN fields |-> Shifted(fields[h][key], NodesBefore(fields, h))]
    <3>1. DOMAIN w = DOMAIN graphs
      BY DEF ListsWritten
    <3>. QED  BY <1>1, <1>3, <3>1 DEF ColumnBehind
  <2>2. NativeBatch(fields)[key] = OnNodes(fields, key)
    BY NativeIs
  <2>. QED  BY <2>1, <2>2 DEF OnNodes
<1>11. \A g \in DOMAIN graphs : by[g] = NodesBefore(fields, g)
  OBVIOUS
<1>11a. rows = FlattenSeq(RowsBehind(w, by))
  OBVIOUS
<1>. HIDE DEF by, rows
<1>12. /\ rows \in Seq(Seq(Int)) /\ FlattenSeq(ColumnBehind(w, by)) = FlattenSeq(rows)
       /\ FlattenSeq(all) \in Seq(Nat) /\ Len(FlattenSeq(all)) = Len(rows)
       /\ Counts(FlattenSeq(all), rows)
       /\ \A g \in 1..Len(w) : \A n \in 1..Len(w[g]) :
            /\ RowOf(counts, g, n) \in 1..Len(rows)
            /\ rows[RowOf(counts, g, n)] = Shifted(w[g][n], by[g])
  <2>1. RowsInPlace(w, by, all, counts, rows)
    BY <1>2, <1>4, <1>7, <1>8, <1>11a, RowsFound
  <2>. QED  BY <2>1 DEF RowsInPlace
<1>13. \A g \in DOMAIN graphs : \A n \in 1..Len(w[g]) :
         /\ RowOf(counts, g, n) \in 1..Len(rows)
         /\ rows[RowOf(counts, g, n)] = Shifted(w[g][n], NodesBefore(fields, g))
  BY <1>1, <1>2, <1>11, <1>12
<1>14. ListsOnNodes(graphs, fields, w, key, sizes, rows)
  BY <1>9, <1>10, <1>12, <1>13 DEF ListsOnNodes, counts
<1>. QED  BY <1>14

\* A graph that was written, and its fields.
LEMMA OneWritten ==
  ASSUME NEW d, NEW graphs, NEW fields, Written(d, graphs, fields), NEW h \in DOMAIN graphs
  PROVE  /\ DrawingFits(d, graphs[h]) /\ RowFields(d, graphs[h], fields[h])
         /\ ColumnFields(d, graphs[h], fields[h])
         /\ IsVector(graphs[h].instances) /\ IsVector(graphs[h].nodes)
         /\ Len(graphs[h].instances) \in Nat
         /\ DOMAIN graphs[h].instances = 1..Len(graphs[h].instances)
         /\ \A n \in DOMAIN graphs[h].instances :
              graphs[h].instances[n] \in ToSet(graphs[h].instances)
<1>1. DrawingFits(d, graphs[h]) /\ fields[h] = GraphFieldsOf(d, graphs[h])
  BY DEF Written
<1>2. RowFields(d, graphs[h], fields[h]) /\ ColumnFields(d, graphs[h], fields[h])
  BY <1>1, FieldsAre
<1>3. IsVector(graphs[h].instances) /\ IsVector(graphs[h].nodes)
  BY <1>1 DEF DrawingFits, NodesFit
<1>4. /\ Len(graphs[h].instances) \in Nat
      /\ DOMAIN graphs[h].instances = 1..Len(graphs[h].instances)
      /\ \A n \in DOMAIN graphs[h].instances : graphs[h].instances[n] \in ToSet(graphs[h].instances)
  BY <1>3, VectorFacts
<1>. QED  BY <1>1, <1>2, <1>3, <1>4

TupleLists(graphs) == [h \in DOMAIN graphs |-> RowsOf(graphs[h], ArgumentLists(graphs[h].instances))]

LEMMA TuplesWritten ==
  ASSUME NEW d, NEW graphs, NEW fields, Written(d, graphs, fields), HasTuples(d)
  PROVE  /\ ListsWritten(graphs, fields, TupleLists(graphs), "tuple_args", "tuple_slot_sizes")
         /\ \A h \in DOMAIN graphs : \A n \in DOMAIN graphs[h].instances :
              TupleLists(graphs)[h][n] = NumbersOf(graphs[h], NodesIn(graphs[h].instances[n]))
<1>. DEFINE w == TupleLists(graphs)
<1>1. DOMAIN w = DOMAIN graphs /\ w = [h \in DOMAIN w |-> w[h]]
  BY DEF TupleLists
<1>2. ASSUME NEW h \in DOMAIN graphs
      PROVE  /\ w[h] \in Seq(Seq(Int)) /\ Len(w[h]) = Len(graphs[h].instances)
             /\ fields[h]["tuple_args"] = FlattenSeq(w[h])
             /\ IsVector(fields[h]["tuple_slot_sizes"])
             /\ Len(fields[h]["tuple_slot_sizes"]) = Len(w[h])
             /\ \A n \in 1..Len(w[h]) : fields[h]["tuple_slot_sizes"][n] = Len(w[h][n])
             /\ \A n \in DOMAIN graphs[h].instances :
                  w[h][n] = NumbersOf(graphs[h], NodesIn(graphs[h].instances[n]))
  <2>. DEFINE table == graphs[h].instances
              lists == RowsOf(graphs[h], ArgumentLists(table))
              sizes == fields[h]["tuple_slot_sizes"]
  <2>1. /\ DrawingFits(d, graphs[h]) /\ RowFields(d, graphs[h], fields[h])
        /\ ColumnFields(d, graphs[h], fields[h])
        /\ Len(table) \in Nat /\ DOMAIN table = 1..Len(table)
    BY OneWritten
  <2>2. w[h] = lists
    BY DEF TupleLists
  <2>3. TuplesIn(d, graphs[h]) = table
    BY DEF TuplesIn, When
  <2>4. /\ lists \in Seq(Seq(Int)) /\ Len(lists) = Len(table)
        /\ \A k \in DOMAIN table :
             /\ lists[k] = NumbersOf(graphs[h], NodesIn(table[k]))
             /\ Len(lists[k]) = Len(table[k].arguments)
    BY <2>1, <2>3, DrawnRows
  <2>5. fields[h]["tuple_args"] = FlattenSeq(lists)
    BY <2>1, <2>3 DEF ColumnFields
  <2>6. sizes = [k \in DOMAIN table |-> Len(table[k].arguments)]
    BY <2>1, <2>3 DEF RowFields
  <2>. HIDE DEF table, lists, sizes
  <2>7. IsVector(sizes) /\ Len(sizes) = Len(table)
    <3>1. DOMAIN sizes = DOMAIN table /\ sizes = [k \in DOMAIN sizes |-> sizes[k]]
      BY <2>6
    <3>. QED  BY <2>1, <3>1, MadeVector
  <2>8. \A n \in 1..Len(lists) : sizes[n] = Len(lists[n])
    BY <2>1, <2>4, <2>6
  <2>. QED  BY <2>2, <2>4, <2>5, <2>7, <2>8 DEF table, sizes
<1>. HIDE DEF w
<1>3. ListsWritten(graphs, fields, w, "tuple_args", "tuple_slot_sizes")
  BY <1>1, <1>2 DEF ListsWritten
<1>. QED  BY <1>2, <1>3 DEF w

MemberLists(graphs) == [h \in DOMAIN graphs |-> RowsOf(graphs[h], MembersIn(graphs[h].instances))]

LEMMA HyperedgesWritten ==
  ASSUME NEW d, NEW graphs, NEW fields, Written(d, graphs, fields), d.include_hyperedge_incidence
  PROVE  /\ ListsWritten(graphs, fields, MemberLists(graphs), "hyperedge_node_indices",
                         "hyperedge_sizes")
         /\ \A h \in DOMAIN graphs : \A n \in DOMAIN graphs[h].instances :
              /\ MemberLists(graphs)[h][n] = NumbersOf(graphs[h], Members(graphs[h].instances[n]))
              /\ NodesMet(graphs[h], Members(graphs[h].instances[n]))
<1>. DEFINE w == MemberLists(graphs)
<1>1. DOMAIN w = DOMAIN graphs /\ w = [h \in DOMAIN w |-> w[h]]
  BY DEF MemberLists
<1>2. ASSUME NEW h \in DOMAIN graphs
      PROVE  /\ w[h] \in Seq(Seq(Int)) /\ Len(w[h]) = Len(graphs[h].instances)
             /\ fields[h]["hyperedge_node_indices"] = FlattenSeq(w[h])
             /\ IsVector(fields[h]["hyperedge_sizes"])
             /\ Len(fields[h]["hyperedge_sizes"]) = Len(w[h])
             /\ \A n \in 1..Len(w[h]) : fields[h]["hyperedge_sizes"][n] = Len(w[h][n])
             /\ \A n \in DOMAIN graphs[h].instances :
                  /\ w[h][n] = NumbersOf(graphs[h], Members(graphs[h].instances[n]))
                  /\ NodesMet(graphs[h], Members(graphs[h].instances[n]))
  <2>. DEFINE table == graphs[h].instances
              lists == RowsOf(graphs[h], MembersIn(table))
              sizes == fields[h]["hyperedge_sizes"]
  <2>1. /\ DrawingFits(d, graphs[h]) /\ RowFields(d, graphs[h], fields[h])
        /\ ColumnFields(d, graphs[h], fields[h])
        /\ Len(table) \in Nat /\ DOMAIN table = 1..Len(table)
    BY OneWritten
  <2>2. w[h] = lists
    BY DEF MemberLists
  <2>3. HyperedgesOf(d, graphs[h]) = table
    BY DEF HyperedgesOf, When
  <2>4. /\ lists \in Seq(Seq(Int)) /\ Len(lists) = Len(table)
        /\ \A k \in DOMAIN table :
             /\ lists[k] = NumbersOf(graphs[h], Members(table[k]))
             /\ NodesMet(graphs[h], Members(table[k]))
             /\ Len(lists[k]) = Len(Members(table[k]))
    BY <2>1, <2>3, DrawnRows
  <2>5. fields[h]["hyperedge_node_indices"] = FlattenSeq(lists)
    BY <2>1, <2>3 DEF ColumnFields
  <2>6. sizes = [k \in DOMAIN table |-> Len(Members(table[k]))]
    BY <2>1, <2>3 DEF RowFields
  <2>. HIDE DEF table, lists, sizes
  <2>7. IsVector(sizes) /\ Len(sizes) = Len(table)
    <3>1. DOMAIN sizes = DOMAIN table /\ sizes = [k \in DOMAIN sizes |-> sizes[k]]
      BY <2>6
    <3>. QED  BY <2>1, <3>1, MadeVector
  <2>8. \A n \in 1..Len(lists) : sizes[n] = Len(lists[n])
    BY <2>1, <2>4, <2>6
  <2>. QED  BY <2>2, <2>4, <2>5, <2>7, <2>8 DEF table, sizes
<1>. HIDE DEF w
<1>3. ListsWritten(graphs, fields, w, "hyperedge_node_indices", "hyperedge_sizes")
  BY <1>1, <1>2 DEF ListsWritten
<1>. QED  BY <1>2, <1>3 DEF w

\* The row of tuple arguments of an instance, in the carrier of the batch.
LEMMA TuplesSurvive ==
  ASSUME NEW d, NEW graphs, NEW fields, Written(d, graphs, fields), HasTuples(d),
         NEW g \in DOMAIN graphs, NEW n \in DOMAIN graphs[g].instances,
         NEW table, table = FlattenSeq(PerGraph(graphs, "nodes")),
         NEW carrier, carrier = Carrier(NativeBatch(fields)),
         NEW r, r = RowOf(InstanceCounts(graphs), g, n),
         NEW inst, inst = graphs[g].instances[n]
  PROVE  /\ MeansIn(table, NodesBefore(fields, g), TupleRow(carrier, r), NodesIn(inst))
         /\ carrier.tuple_attr_ids[r] = ChannelsOf(inst)
<1>. DEFINE b == NativeBatch(fields)
            w == TupleLists(graphs)
<1>1. /\ ListsWritten(graphs, fields, w, "tuple_args", "tuple_slot_sizes")
      /\ w[g][n] = NumbersOf(graphs[g], NodesIn(inst))
  BY TuplesWritten
<1>2. "tuple_args" \in NodeColumns /\ "tuple_slot_sizes" \in RowKeys /\ "tuple_attrs" \in RowKeys
  BY DEF NodeColumns, RowKeys
<1>. HIDE DEF w
<1>3. PICK rows : ListsOnNodes(graphs, fields, w, "tuple_args", "tuple_slot_sizes", rows)
  BY <1>1, <1>2, ListsFound
<1>4. n \in 1..Len(w[g])
  <2>1. Len(w[g]) = Len(graphs[g].instances)
    BY <1>1 DEF ListsWritten
  <2>. QED  BY <2>1, OneWritten
<1>5. /\ rows \in Seq(Seq(Int)) /\ b["tuple_args"] = FlattenSeq(rows)
      /\ Counts(b["tuple_slot_sizes"], rows)
      /\ r \in 1..Len(rows) /\ rows[r] = Shifted(w[g][n], NodesBefore(fields, g))
  BY <1>3, <1>4 DEF ListsOnNodes
<1>. HIDE DEF b
<1>6. /\ carrier.tuple_args = b["tuple_args"] /\ carrier.tuple_sizes = b["tuple_slot_sizes"]
      /\ carrier.tuple_attr_ids = b["tuple_attrs"]
  <2>1. carrier = Carrier(b)
    BY DEF b
  <2>. QED  BY <2>1 DEF Carrier
<1>7. TupleRow(carrier, r) = rows[r]
  <2>. DEFINE Ints == Int
              sizes == b["tuple_slot_sizes"]
  <2>1. rows \in Seq(Seq(Ints)) /\ r \in 1..Len(rows)
    BY <1>5
  <2>2. \A i \in 1..Len(rows) : sizes[i] = Len(rows[i])
    BY <1>5 DEF Counts
  <2>. HIDE DEF Ints, sizes
  <2>3. CatSlice(FlattenSeq(rows), sizes, r) = rows[r]
    BY <2>1, <2>2, Sliced
  <2>. QED  BY <1>5, <1>6, <2>3 DEF TupleRow, sizes
<1>8. NodesMet(graphs[g], NodesIn(inst))
  <2>1. DrawingFits(d, graphs[g]) /\ inst \in ToSet(graphs[g].instances)
    BY OneWritten
  <2>. QED  BY <2>1, NodesOfInstance
<1>9. MeansIn(table, NodesBefore(fields, g), rows[r], NodesIn(inst))
  BY <1>1, <1>5, <1>8, MeansInTable
<1>10. carrier.tuple_attr_ids[r] = ChannelsOf(inst)
  <2>1. \A h \in DOMAIN graphs :
          /\ fields[h]["tuple_attrs"]
               = [k \in DOMAIN graphs[h].instances |-> ChannelsOf(graphs[h].instances[k])]
          /\ Len(graphs[h].instances) \in Nat
          /\ DOMAIN graphs[h].instances = 1..Len(graphs[h].instances)
    <3>1. ASSUME NEW h \in DOMAIN graphs
          PROVE  fields[h]["tuple_attrs"]
                   = [k \in DOMAIN graphs[h].instances |-> ChannelsOf(graphs[h].instances[k])]
      <4>1. RowFields(d, graphs[h], fields[h])
        BY OneWritten
      <4>2. TuplesIn(d, graphs[h]) = graphs[h].instances
        BY DEF TuplesIn, When
      <4>. QED  BY <4>1, <4>2 DEF RowFields
    <3>. QED  BY <3>1, OneWritten
  <2>2. ASSUME NEW h \in DOMAIN graphs
        PROVE  /\ IsVector(fields[h]["tuple_attrs"])
               /\ Len(fields[h]["tuple_attrs"]) = Len(graphs[h].instances)
    <3>. DEFINE s == graphs[h].instances
                t == fields[h]["tuple_attrs"]
    <3>1. /\ Len(s) \in Nat /\ DOMAIN s = 1..Len(s) /\ DOMAIN t = DOMAIN s
          /\ t = [k \in DOMAIN t |-> t[k]]
      BY <2>1
    <3>. HIDE DEF s, t
    <3>2. IsVector(t) /\ Len(t) = Len(s)
      BY <3>1, MadeVector
    <3>. QED  BY <3>2 DEF s, t
  <2>3. b["tuple_attrs"][r] = fields[g]["tuple_attrs"][n]
    BY <1>2, <2>2, InstanceRows DEF b
  <2>. QED  BY <1>6, <2>1, <2>3
<1>. QED  BY <1>7, <1>9, <1>10

\* The members of the hyperedge of an instance.
LEMMA HyperedgesSurvive ==
  ASSUME NEW d, NEW graphs, NEW fields, Written(d, graphs, fields), d.include_hyperedge_incidence,
         NEW g \in DOMAIN graphs, NEW n \in DOMAIN graphs[g].instances,
         NEW table, table = FlattenSeq(PerGraph(graphs, "nodes")),
         NEW carrier, carrier = Carrier(NativeBatch(fields)),
         NEW r, r = RowOf(InstanceCounts(graphs), g, n)
  PROVE  {table[m + 1] : m \in MembersOf(carrier, r - 1)}
           = ToSet(Members(graphs[g].instances[n]))
<1>. DEFINE b == NativeBatch(fields)
            w == MemberLists(graphs)
            sizes == b["hyperedge_sizes"]
            owners == Interleaved(b["hyperedge_ids"], sizes)
            list == Members(graphs[g].instances[n])
<1>1. /\ ListsWritten(graphs, fields, w, "hyperedge_node_indices", "hyperedge_sizes")
      /\ w[g][n] = NumbersOf(graphs[g], list) /\ NodesMet(graphs[g], list)
  BY HyperedgesWritten
<1>2. "hyperedge_node_indices" \in NodeColumns /\ "hyperedge_sizes" \in RowKeys
  BY DEF NodeColumns, RowKeys
<1>. HIDE DEF w
<1>3. PICK rows : ListsOnNodes(graphs, fields, w, "hyperedge_node_indices", "hyperedge_sizes", rows)
  BY <1>1, <1>2, ListsFound
<1>4. n \in 1..Len(w[g])
  <2>1. Len(w[g]) = Len(graphs[g].instances)
    BY <1>1 DEF ListsWritten
  <2>. QED  BY <2>1, OneWritten
<1>5. /\ rows \in Seq(Seq(Int)) /\ b["hyperedge_node_indices"] = FlattenSeq(rows)
      /\ sizes \in Seq(Nat) /\ Len(sizes) = Len(rows) /\ Counts(sizes, rows)
      /\ r \in 1..Len(rows) /\ rows[r] = Shifted(w[g][n], NodesBefore(fields, g))
  BY <1>3, <1>4 DEF ListsOnNodes
<1>6. b["hyperedge_ids"] = [k \in 1..Len(sizes) |-> k - 1]
  <2>1. AllFieldsFit(fields)
    BY DEF Written
  <2>. QED  BY <2>1, HyperedgesJoin
<1>. HIDE DEF b
<1>7. carrier.hyperedge_nodes = b["hyperedge_node_indices"] /\ carrier.hyperedge_owners = owners
  <2>1. carrier = Carrier(b)
    BY DEF b
  <2>. QED  BY <2>1 DEF Carrier
<1>8. owners = Interleaved([k \in 1..Len(sizes) |-> k - 1], sizes)
  BY <1>6
<1>. HIDE DEF owners, sizes, list
<1>9. OwnedBy(FlattenSeq(rows), owners, r - 1) = ToSet(rows[r])
  <2>. DEFINE Ints == Int
  <2>1. rows \in Seq(Seq(Ints))
    BY <1>5
  <2>. HIDE DEF Ints
  <2>. QED  BY <1>5, <1>8, <2>1, MembersFound
<1>10. MembersOf(carrier, r - 1) = ToSet(rows[r])
  BY <1>5, <1>7, <1>9 DEF MembersOf, OwnedBy
<1>11. NodesAt(table, ToSet(rows[r])) = ToSet(list)
  BY <1>1, <1>5, MeansInTable
<1>. QED  BY <1>10, <1>11 DEF list, NodesAt

\* The node of an instance that has one shows its channels.
LEMMA NodesSurvive ==
  ASSUME NEW d, NEW graphs, NEW fields, Written(d, graphs, fields), CollectsInstances(d),
         NEW g \in DOMAIN graphs, NEW n \in DOMAIN graphs[g].instances,
         NEW inst, inst = graphs[g].instances[n], HasNode(d, inst),
         NEW carrier, carrier = Carrier(NativeBatch(fields)),
         NEW r, r = RowOf(InstanceCounts(graphs), g, n)
  PROVE  carrier.x_ids[carrier.instance_node_indices[r] + 1] = ChannelsOf(inst)
<1>. DEFINE b == NativeBatch(fields)
            rows == PerGraph(fields, "x_ids")
            node == InstanceNode(inst)
            own == NumberOf(graphs[g], node)
            before == NodesBefore(fields, g)
            number == b["instance_node_indices"][r]
<1>1. /\ Len(graphs) \in Nat /\ DOMAIN graphs = 1..Len(graphs)
      /\ Len(fields) = Len(graphs) /\ DOMAIN fields = DOMAIN graphs /\ AllFieldsFit(fields)
  BY DEF Written
<1>2. "instance_node_indices" \in NodeColumns /\ "x_ids" \in RowKeys
  BY DEF NodeColumns, RowKeys
<1>3. \A h \in DOMAIN graphs : /\ IsVector(fields[h]["instance_node_indices"])
                               /\ Len(fields[h]["instance_node_indices"]) = Len(graphs[h].instances)
  <2>1. ASSUME NEW h \in DOMAIN graphs
        PROVE  /\ IsVector(fields[h]["instance_node_indices"])
               /\ Len(fields[h]["instance_node_indices"]) = Len(graphs[h].instances)
    <3>1. DrawingFits(d, graphs[h]) /\ ColumnFields(d, graphs[h], fields[h])
      BY OneWritten
    <3>2. fields[h]["instance_node_indices"] = InstanceNumbers(d, graphs[h])
      BY <3>1 DEF ColumnFields, When
    <3>3. /\ InstanceNumbers(d, graphs[h]) \in Seq(Int)
          /\ Len(InstanceNumbers(d, graphs[h])) = Len(graphs[h].instances)
      BY <3>1, InstanceNumbersAre
    <3>. QED  BY <3>2, <3>3, IntoVector
  <2>. QED  BY <2>1
<1>4. number = fields[g]["instance_node_indices"][n] + before
  BY <1>2, <1>3, InstanceRows
<1>5. fields[g]["instance_node_indices"][n] = own
  <2>1. ColumnFields(d, graphs[g], fields[g])
    BY OneWritten
  <2>2. fields[g]["instance_node_indices"] = InstanceNumbers(d, graphs[g])
    BY <2>1 DEF ColumnFields, When
  <2>. QED  BY <2>2 DEF InstanceNumbers, NodeOfInstance
<1>6. node \in ToSet(graphs[g].nodes) /\ node # NoNode /\ ChannelsOfNode(node) = ChannelsOf(inst)
  <2>1. DrawingFits(d, graphs[g]) /\ inst \in ToSet(graphs[g].instances)
    BY OneWritten
  <2>. QED  BY <2>1, NodesApart DEF DrawingFits, InstanceFits
<1>7. /\ own \in Nat /\ own + 1 \in 1..Len(graphs[g].nodes) /\ graphs[g].nodes[own + 1] = node
      /\ DOMAIN graphs[g].nodes = 1..Len(graphs[g].nodes)
  <2>1. IsVector(graphs[g].nodes)
    BY OneWritten
  <2>. QED  BY <1>6, <2>1, NumberLeads, VectorFacts
<1>8. before \in Nat /\ before = SumTo(PerGraph(fields, "num_nodes"), g - 1)
  BY NodeTable
<1>9. \A h \in DOMAIN graphs :
        /\ fields[h]["x_ids"] = [k \in DOMAIN graphs[h].nodes |-> ChannelsOfNode(graphs[h].nodes[k])]
        /\ Len(fields[h]["x_ids"]) = fields[h]["num_nodes"] /\ IsVector(fields[h]["x_ids"])
  <2>1. ASSUME NEW h \in DOMAIN graphs
        PROVE  fields[h]["x_ids"]
                 = [k \in DOMAIN graphs[h].nodes |-> ChannelsOfNode(graphs[h].nodes[k])]
    <3>1. RowFields(d, graphs[h], fields[h])
      BY OneWritten
    <3>. QED  BY <3>1 DEF RowFields
  <2>2. \A h \in DOMAIN graphs : FieldsFit(fields[h])
    BY <1>1 DEF AllFieldsFit
  <2>3. \A h \in DOMAIN graphs : /\ Len(fields[h]["x_ids"]) = fields[h]["num_nodes"]
                                 /\ IsVector(fields[h]["x_ids"])
    BY <1>2, <2>2 DEF FieldsFit
  <2>. QED  BY <2>1, <2>3
<1>10. PICK T : rows \in Seq(Seq(T)) /\ Len(rows) = Len(fields)
  <2>1. IsVector(fields)
    BY <1>1 DEF AllFieldsFit
  <2>. QED  BY <1>1, <1>9, <2>1, PerGraphParts
<1>11. \A h \in DOMAIN graphs : rows[h] = fields[h]["x_ids"]
  BY <1>1 DEF PerGraph
<1>12. DOMAIN rows = DOMAIN graphs /\ Lengths(rows) = PerGraph(fields, "num_nodes")
  <2>1. DOMAIN rows = DOMAIN graphs
    BY <1>1 DEF PerGraph
  <2>2. Lengths(rows) = [h \in DOMAIN graphs |-> fields[h]["num_nodes"]]
    BY <1>9, <1>11, <2>1 DEF Lengths
  <2>. QED  BY <1>1, <2>1, <2>2 DEF PerGraph
<1>13. b["x_ids"] = FlattenSeq(rows)
  BY <1>2, NativeIs DEF Concatenated
<1>14. carrier.x_ids = b["x_ids"] /\ carrier.instance_node_indices = b["instance_node_indices"]
  BY DEF Carrier
<1>. HIDE DEF b, rows, own, before, number, node
<1>15. FlattenSeq(rows)[before + (own + 1)] = rows[g][own + 1]
  <2>1. g \in 1..Len(rows)
    BY <1>1, <1>10
  <2>2. own + 1 \in 1..Len(rows[g])
    <3>1. /\ DOMAIN rows[g] = 1..Len(rows[g])
          /\ DOMAIN rows[g] = DOMAIN graphs[g].nodes
      <4>1. IsVector(rows[g])
        BY <1>9, <1>11
      <4>. QED  BY <1>9, <1>11, <4>1, VectorFacts
    <3>. QED  BY <1>7, <3>1
  <2>3. FlattenSeq(rows)[SumTo(Lengths(rows), g - 1) + (own + 1)] = rows[g][own + 1]
    BY <1>10, <2>1, <2>2, Flattened
  <2>. QED  BY <1>8, <1>12, <2>3 DEF before
<1>16. rows[g][own + 1] = ChannelsOf(inst)
  <2>. DEFINE nodes == graphs[g].nodes
              place == own + 1
  <2>1. rows[g] = [k \in DOMAIN nodes |-> ChannelsOfNode(nodes[k])]
    BY <1>9, <1>11
  <2>2. place \in DOMAIN nodes /\ nodes[place] = node
    BY <1>7
  <2>. HIDE DEF nodes, place
  <2>3. rows[g][place] = ChannelsOfNode(node)
    BY <2>1, <2>2
  <2>. QED  BY <1>6, <2>3 DEF place
<1>17. number + 1 = before + (own + 1)
  BY <1>4, <1>5, <1>7, <1>8
<1>. QED  BY <1>13, <1>14, <1>15, <1>16, <1>17 DEF number

\* The anchor is the last node of its graph.
LEMMA AnchorsSurvive ==
  ASSUME NEW d, NEW graphs, NEW fields, Written(d, graphs, fields), HasAnchorNode(d),
         NEW g \in DOMAIN graphs,
         NEW table, table = FlattenSeq(PerGraph(graphs, "nodes")),
         NEW carrier, carrier = Carrier(NativeBatch(fields))
  PROVE  /\ table[carrier.anchor_index[g] + 1] = AnchorNode
         /\ carrier.anchor_index[g] + 1 = SumTo(carrier.node_sizes, g)
<1>. DEFINE b == NativeBatch(fields)
            t == [h \in DOMAIN graphs |-> NumberOf(graphs[h], AnchorNode) + NodesBefore(fields, h)]
            own == NumberOf(graphs[g], AnchorNode)
            before == NodesBefore(fields, g)
            len == Len(graphs[g].nodes)
<1>1. /\ Len(graphs) \in Nat /\ DOMAIN graphs = 1..Len(graphs)
      /\ Len(fields) = Len(graphs) /\ DOMAIN fields = DOMAIN graphs
  BY DEF Written
<1>2. "anchor_index" \in NodeColumns /\ "num_nodes" \in GraphKeys
  BY DEF NodeColumns, GraphKeys
<1>3. ASSUME NEW h \in DOMAIN graphs
      PROVE  /\ fields[h]["anchor_index"] = <<NumberOf(graphs[h], AnchorNode)>>
             /\ Len(graphs[h].nodes) \in Nat
             /\ AnchorNode \in ToSet(graphs[h].nodes)
             /\ NumberOf(graphs[h], AnchorNode) \in Nat
             /\ NumberOf(graphs[h], AnchorNode) + 1 = Len(graphs[h].nodes)
  <2>1. DrawingFits(d, graphs[h]) /\ ColumnFields(d, graphs[h], fields[h])
        /\ IsVector(graphs[h].nodes)
    BY OneWritten
  <2>2. fields[h]["anchor_index"] = <<NumberOf(graphs[h], AnchorNode)>>
    BY <2>1 DEF ColumnFields, When
  <2>3. NodesFit(d, graphs[h])
    BY <2>1 DEF DrawingFits
  <2>4. /\ Len(graphs[h].nodes) > 0
        /\ \A k \in DOMAIN graphs[h].nodes :
             graphs[h].nodes[k] = AnchorNode <=> k = Len(graphs[h].nodes)
    BY <2>3 DEF NodesFit
  <2>5. Len(graphs[h].nodes) \in Nat /\ DOMAIN graphs[h].nodes = 1..Len(graphs[h].nodes)
        /\ \A k \in DOMAIN graphs[h].nodes : graphs[h].nodes[k] \in ToSet(graphs[h].nodes)
    BY <2>1, VectorFacts
  <2>6. Len(graphs[h].nodes) \in DOMAIN graphs[h].nodes
    BY <2>4, <2>5
  <2>7. AnchorNode \in ToSet(graphs[h].nodes)
    BY <2>4, <2>5, <2>6
  <2>8. /\ NumberOf(graphs[h], AnchorNode) \in Nat
        /\ NumberOf(graphs[h], AnchorNode) + 1 \in DOMAIN graphs[h].nodes
        /\ graphs[h].nodes[NumberOf(graphs[h], AnchorNode) + 1] = AnchorNode
    BY <2>1, <2>5, <2>7, NumberLeads, NodesApart
  <2>. QED  BY <2>2, <2>4, <2>5, <2>7, <2>8
<1>4. \A h \in DOMAIN graphs : NodesBefore(fields, h) \in Nat
  BY NodeTable
<1>5. ASSUME NEW h \in DOMAIN graphs
      PROVE  Shifted(fields[h]["anchor_index"], NodesBefore(fields, h)) = <<t[h]>>
  <2>. DEFINE m == NumberOf(graphs[h], AnchorNode)
              by == NodesBefore(fields, h)
  <2>1. fields[h]["anchor_index"] = <<m>> /\ m \in Nat /\ by \in Nat
    BY <1>3, <1>4
  <2>2. t[h] = m + by
    OBVIOUS
  <2>. HIDE DEF m, by, t
  <2>3. Shifted(<<m>>, by) = <<m + by>>
    BY <2>1 DEF Shifted
  <2>. QED  BY <2>1, <2>2, <2>3 DEF by
<1>6. b["anchor_index"] = t
  <2>. DEFINE s == [h \in DOMAIN fields |->
                      Shifted(fields[h]["anchor_index"], NodesBefore(fields, h))]
  <2>1. b["anchor_index"] = FlattenSeq(s)
    BY <1>2, NativeIs DEF OnNodes
  <2>2. DOMAIN t = DOMAIN graphs /\ t = [h \in DOMAIN t |-> t[h]]
    OBVIOUS
  <2>3. IsVector(t)
    BY <1>1, <2>2, MadeVector
  <2>4. s = [h \in DOMAIN t |-> <<t[h]>>]
    BY <1>1, <1>5, <2>2
  <2>. HIDE DEF s, t
  <2>. QED  BY <2>1, <2>3, <2>4, OnesJoin
<1>7. carrier.anchor_index = b["anchor_index"] /\ carrier.node_sizes = PerGraph(fields, "num_nodes")
  <2>1. b["num_nodes"] = PerGraph(fields, "num_nodes")
    BY <1>2, NativeIs
  <2>. QED  BY <2>1 DEF Carrier
<1>8. carrier.anchor_index[g] = own + before
  BY <1>6, <1>7
<1>9. /\ table[own + before + 1] = AnchorNode
  BY <1>3, NumberInTable, NodesApart
<1>10. before + len = SumTo(carrier.node_sizes, g)
  BY <1>7, NodeTable
<1>11. own + before + 1 = before + len
  <2>1. own \in Nat /\ before \in Nat /\ len \in Nat /\ own + 1 = len
    BY <1>3, <1>4
  <2>. HIDE DEF own, before, len
  <2>. QED  BY <2>1
<1>. QED  BY <1>8, <1>9, <1>10, <1>11

\* What is read from the carrier of a batch is what was drawn.
LEMMA DrawnSurvive ==
  ASSUME NEW d, NEW graphs, NEW fields, Written(d, graphs, fields)
  PROVE  Survive(d, Carrier(NativeBatch(fields)), graphs)
<1>. DEFINE b == NativeBatch(fields)
            carrier == Carrier(b)
            table == FlattenSeq(PerGraph(graphs, "nodes"))
            counts == InstanceCounts(graphs)
<1>1. DOMAIN fields = DOMAIN graphs /\ AllFieldsFit(fields) /\ "num_nodes" \in GraphKeys
  BY DEF Written, GraphKeys
<1>2. carrier.node_sizes = PerGraph(fields, "num_nodes")
  BY <1>1, NativeIs DEF Carrier
<1>3. carrier.object_names = PerGraph(fields, "object_names")
  <2>1. carrier.object_names = NestedNames(b.object_names, ObjectCounts(b))
    BY DEF Carrier
  <2>. QED  BY <1>1, <2>1, NamesNest
<1>. DEFINE first(g) == SumTo(carrier.node_sizes, g - 1)
<1>4. ASSUME NEW g \in DOMAIN graphs, NEW n \in DOMAIN graphs[g].instances
      PROVE  RowSurvives(d, carrier, table, first(g), graphs[g].instances[n], RowOf(counts, g, n))
  <2>. DEFINE inst == graphs[g].instances[n]
              r == RowOf(counts, g, n)
  <2>1. first(g) = NodesBefore(fields, g)
    BY <1>2, NodeTable
  <2>2. HasNode(d, inst) /\ CollectsInstances(d) =>
          carrier.x_ids[carrier.instance_node_indices[r] + 1] = ChannelsOf(inst)
    BY NodesSurvive
  <2>3. HasTuples(d) =>
          /\ MeansIn(table, first(g), TupleRow(carrier, r), NodesIn(inst))
          /\ carrier.tuple_attr_ids[r] = ChannelsOf(inst)
    BY <2>1, TuplesSurvive
  <2>4. d.include_hyperedge_incidence =>
          {table[m + 1] : m \in MembersOf(carrier, r - 1)} = ToSet(Members(inst))
    BY HyperedgesSurvive
  <2>. QED  BY <2>2, <2>3, <2>4 DEF RowSurvives
<1>5. ASSUME NEW g \in DOMAIN graphs
      PROVE  carrier.object_names[g] = graphs[g].objects
  <2>1. RowFields(d, graphs[g], fields[g])
    BY OneWritten
  <2>2. fields[g].object_names = graphs[g].objects
    BY <2>1 DEF RowFields
  <2>. QED  BY <1>1, <1>3, <2>2 DEF PerGraph
<1>6. ASSUME NEW g \in DOMAIN graphs, HasAnchorNode(d)
      PROVE  /\ table[carrier.anchor_index[g] + 1] = AnchorNode
             /\ carrier.anchor_index[g] + 1 = SumTo(carrier.node_sizes, g)
  BY <1>6, AnchorsSurvive
<1>7. counts = [h \in DOMAIN graphs |-> Len(graphs[h].instances)]
  BY DEF InstanceCounts
<1>. HIDE DEF carrier, table, counts
<1>8. ASSUME NEW g \in DOMAIN graphs
      PROVE  GraphSurvives(d, carrier, table, counts, graphs, g)
  BY <1>4, <1>5, <1>6 DEF GraphSurvives
<1>9. Survive(d, carrier, graphs)
  BY <1>7, <1>8 DEF Survive, table
<1>. QED  BY <1>9 DEF carrier

\* Drawings survive batching and collation.
THEOREM DrawingsAlwaysSurvive ==
  ASSUME NEW d, NEW graphs, IsVector(graphs), \A g \in DOMAIN graphs : DrawingFits(d, graphs[g])
  PROVE  DrawingsSurvive(d, graphs)
<1>. DEFINE fields == [k \in DOMAIN graphs |-> GraphFieldsOf(d, graphs[k])]
<1>1. Written(d, graphs, fields)
  BY FieldsWritten
<1>2. DOMAIN fields = DOMAIN graphs
  OBVIOUS
<1>. HIDE DEF fields
<1>3. Survive(d, Carrier(NativeBatch(fields)), graphs)
  BY <1>1, DrawnSurvive
<1>4. ASSUME graphs # <<>>
      PROVE  FromDataList([k \in DOMAIN graphs |-> Carrier(NativeBatch(<<fields[k]>>))])
               = Carrier(NativeBatch(fields))
  <2>1. AllFieldsFit(fields) /\ Len(fields) = Len(graphs)
    BY <1>1 DEF Written
  <2>2. fields # <<>>
    <3>1. Len(graphs) # 0
      BY <1>4, VectorFacts
    <3>. QED  BY <2>1, <3>1
  <2>3. FromDataList([k \in DOMAIN fields |-> Carrier(NativeBatch(<<fields[k]>>))])
          = Carrier(NativeBatch(fields))
    BY <2>1, <2>2, CollationAgrees
  <2>. QED  BY <1>2, <2>3
<1>5. GraphsSurvive(d, graphs, fields)
  BY <1>3, <1>4 DEF GraphsSurvive
<1>. QED  BY <1>5 DEF DrawingsSurvive, fields

\* Arguments of what is drawn are objects.
ArgumentsKnown(objects, arguments) == IsVector(arguments) /\ ToSet(arguments) \subseteq objects

InstanceTable(objects, instances) ==
  /\ IsVector(instances)
  /\ \A inst \in ToSet(instances) :
       inst.role # "object" /\ ArgumentsKnown(objects, inst.arguments)

LanesDrawable(lanes) ==
  /\ IsFiniteSet(lanes.objects) /\ IsFiniteSet(lanes.static) /\ IsFiniteSet(lanes.facts)
  /\ \A atom \in lanes.static \cup lanes.facts : ArgumentsKnown(lanes.objects, atom.arguments)
  /\ IsVector(lanes.goals)
  /\ \A goal \in ToSet(lanes.goals) : ArgumentsKnown(lanes.objects, goal.literal.atom.arguments)
  /\ IsVector(lanes.actions)
  /\ \A action \in ToSet(lanes.actions) : ArgumentsKnown(lanes.objects, action.arguments)
  /\ IsHistory(lanes.history)
  /\ \A entry \in ToSet(lanes.history) : \A literal \in ToSet(entry.literals) :
       ArgumentsKnown(lanes.objects, literal.atom.arguments)

LEMMA MadeTable ==
  ASSUME NEW objects, NEW s, IsVector(s), NEW t, DOMAIN t = DOMAIN s, t = [k \in DOMAIN t |-> t[k]],
         \A k \in DOMAIN s : t[k].role # "object" /\ ArgumentsKnown(objects, t[k].arguments)
  PROVE  InstanceTable(objects, t)
<1>1. Len(s) \in Nat /\ DOMAIN s = 1..Len(s)
  BY VectorFacts
<1>2. IsVector(t)
  BY <1>1, MadeVector
<1>3. \A inst \in ToSet(t) : \E k \in DOMAIN s : inst = t[k]
  BY DEF ToSet
<1>. QED  BY <1>2, <1>3 DEF InstanceTable

LEMMA JoinedTables ==
  ASSUME NEW objects, NEW s, NEW t, InstanceTable(objects, s), InstanceTable(objects, t)
  PROVE  InstanceTable(objects, s \o t)
<1>1. IsVector(s \o t) /\ ToSet(s \o t) = ToSet(s) \cup ToSet(t)
  BY JoinedVectors DEF InstanceTable
<1>. QED  BY <1>1 DEF InstanceTable

LEMMA FlattenedTables ==
  ASSUME NEW objects, NEW s, IsVector(s), NEW t, DOMAIN t = DOMAIN s, t = [k \in DOMAIN t |-> t[k]],
         \A k \in DOMAIN s : InstanceTable(objects, t[k])
  PROVE  InstanceTable(objects, FlattenSeq(t))
<1>1. Len(s) \in Nat /\ DOMAIN s = 1..Len(s)
  BY VectorFacts
<1>2. DOMAIN t = 1..Len(s) /\ t = [i \in 1..Len(s) |-> t[i]]
      /\ \A i \in 1..Len(s) : IsVector(t[i])
  BY <1>1 DEF InstanceTable
<1>3. /\ IsVector(FlattenSeq(t))
      /\ ToSet(FlattenSeq(t)) = UNION {ToSet(t[i]) : i \in 1..Len(s)}
  BY <1>1, <1>2, FlattenedVectors
<1>4. \A inst \in ToSet(FlattenSeq(t)) : \E i \in 1..Len(s) : inst \in ToSet(t[i])
  BY <1>3
<1>. QED  BY <1>1, <1>3, <1>4 DEF InstanceTable

\* Facts, goals, history and actions, row by row.
LEMMA InstancesAre ==
  ASSUME NEW lanes, LanesDrawable(lanes)
  PROVE  InstanceTable(lanes.objects, Instances(lanes))
<1>. DEFINE objects == lanes.objects
            statics == Ordered(lanes.static)
            dynamic == Ordered(lanes.facts)
            facts == statics \o dynamic
            goals == lanes.goals
            recent == OrderedHistory(lanes.history, lanes.max_steps)
            actions == [k \in DOMAIN lanes.actions |-> ActionInstance(lanes.actions[k])]
<1>1. InstanceTable(objects, FactInstances(facts))
  <2>1. /\ IsVector(statics) /\ ToSet(statics) = lanes.static
        /\ IsVector(dynamic) /\ ToSet(dynamic) = lanes.facts
    BY OrderedVector DEF LanesDrawable
  <2>2. IsVector(facts) /\ ToSet(facts) = lanes.static \cup lanes.facts
    BY <2>1, JoinedVectors
  <2>3. \A atom \in lanes.static \cup lanes.facts : ArgumentsKnown(objects, atom.arguments)
    BY DEF LanesDrawable
  <2>. HIDE DEF facts, objects
  <2>. DEFINE t == FactInstances(facts)
  <2>4. DOMAIN t = DOMAIN facts /\ t = [k \in DOMAIN t |-> t[k]]
    BY DEF FactInstances
  <2>5. \A k \in DOMAIN facts : facts[k] \in ToSet(facts)
    BY <2>2, VectorFacts
  <2>6. \A k \in DOMAIN facts : t[k].role # "object" /\ ArgumentsKnown(objects, t[k].arguments)
    BY <2>2, <2>3, <2>5 DEF FactInstances, InstanceOf, Literal
  <2>. HIDE DEF t
  <2>7. InstanceTable(objects, t)
    BY <2>2, <2>4, <2>6, MadeTable
  <2>. QED  BY <2>7 DEF t
<1>2. InstanceTable(objects, GoalInstances(goals))
  <2>1. IsVector(goals)
        /\ \A goal \in ToSet(goals) : ArgumentsKnown(objects, goal.literal.atom.arguments)
    BY DEF LanesDrawable
  <2>. HIDE DEF goals, objects
  <2>. DEFINE t == GoalInstances(goals)
  <2>2. DOMAIN t = DOMAIN goals /\ t = [k \in DOMAIN t |-> t[k]]
    BY DEF GoalInstances
  <2>3. \A k \in DOMAIN goals : goals[k] \in ToSet(goals)
    BY <2>1, VectorFacts
  <2>4. \A k \in DOMAIN goals : t[k].role # "object" /\ ArgumentsKnown(objects, t[k].arguments)
    BY <2>1, <2>3 DEF GoalInstances, InstanceOf
  <2>. HIDE DEF t
  <2>5. InstanceTable(objects, t)
    BY <2>1, <2>2, <2>4, MadeTable
  <2>. QED  BY <2>5 DEF t
<1>3. InstanceTable(objects, actions)
  <2>1. IsVector(lanes.actions)
        /\ \A action \in ToSet(lanes.actions) : ArgumentsKnown(objects, action.arguments)
    BY DEF LanesDrawable
  <2>2. DOMAIN actions = DOMAIN lanes.actions /\ actions = [k \in DOMAIN actions |-> actions[k]]
    OBVIOUS
  <2>3. \A k \in DOMAIN lanes.actions : lanes.actions[k] \in ToSet(lanes.actions)
    BY <2>1, VectorFacts
  <2>4. \A k \in DOMAIN lanes.actions :
          actions[k].role # "object" /\ ArgumentsKnown(objects, actions[k].arguments)
    BY <2>1, <2>3 DEF ActionInstance
  <2>. HIDE DEF actions
  <2>. QED  BY <2>1, <2>2, <2>4, MadeTable
<1>4. InstanceTable(objects, HistoryInstances(recent))
  <2>1. /\ IsVector(recent) /\ ToSet(recent) \subseteq ToSet(lanes.history)
    BY HistoryFits DEF LanesDrawable
  <2>. DEFINE t == [k \in DOMAIN recent |-> EntryInstances(recent[k])]
  <2>2. DOMAIN t = DOMAIN recent /\ t = [k \in DOMAIN t |-> t[k]]
    OBVIOUS
  <2>3. \A k \in DOMAIN recent : recent[k] \in ToSet(recent)
    BY <2>1, VectorFacts
  <2>4. ASSUME NEW entry \in ToSet(recent)
        PROVE  InstanceTable(objects, EntryInstances(entry))
    <3>1. entry \in ToSet(lanes.history)
      BY <2>1
    <3>2. IsVector(entry.literals)
          /\ \A literal \in ToSet(entry.literals) : ArgumentsKnown(objects, literal.atom.arguments)
      BY <3>1 DEF LanesDrawable, IsHistory, IsEntry, AreLiterals
    <3>. DEFINE rows == EntryInstances(entry)
                literals == entry.literals
    <3>3. DOMAIN rows = DOMAIN literals /\ rows = [k \in DOMAIN rows |-> rows[k]]
      BY DEF EntryInstances
    <3>4. \A k \in DOMAIN literals : literals[k] \in ToSet(literals)
      BY <3>2, VectorFacts
    <3>5. \A k \in DOMAIN literals :
            rows[k].role # "object" /\ ArgumentsKnown(objects, rows[k].arguments)
      BY <3>2, <3>4 DEF EntryInstances, InstanceOf
    <3>6. IsVector(literals)
      BY <3>2
    <3>. HIDE DEF rows, literals, objects
    <3>7. InstanceTable(objects, rows)
      BY <3>3, <3>5, <3>6, MadeTable
    <3>. QED  BY <3>7 DEF rows, objects
  <2>5. \A k \in DOMAIN recent : InstanceTable(objects, t[k])
    BY <2>3, <2>4
  <2>. HIDE DEF t, recent, objects
  <2>6. InstanceTable(objects, FlattenSeq(t))
    BY <2>1, <2>2, <2>5, FlattenedTables
  <2>. QED  BY <2>6 DEF t, HistoryInstances
<1>5. Instances(lanes)
        = FactInstances(facts) \o GoalInstances(goals) \o HistoryInstances(recent) \o actions
  BY DEF Instances
<1>. HIDE DEF objects, facts, goals, recent, actions
<1>6. InstanceTable(objects, FactInstances(facts) \o GoalInstances(goals))
  BY <1>1, <1>2, JoinedTables
<1>7. InstanceTable(objects, (FactInstances(facts) \o GoalInstances(goals)) \o HistoryInstances(recent))
  BY <1>4, <1>6, JoinedTables
<1>8. InstanceTable(objects, Instances(lanes))
  BY <1>3, <1>5, <1>7, JoinedTables
<1>. QED  BY <1>8 DEF objects

\* Edges between nodes.
EdgesFit(nodes, edges) ==
  IsVector(edges) /\ \A e \in ToSet(edges) : e.src \in nodes /\ e.dst \in nodes

LEMMA NoEdges ==
  ASSUME NEW nodes
  PROVE  EdgesFit(nodes, <<>>)
BY EmptyVector DEF EdgesFit

LEMMA JoinedEdges ==
  ASSUME NEW nodes, NEW s, NEW t, EdgesFit(nodes, s), EdgesFit(nodes, t)
  PROVE  EdgesFit(nodes, s \o t)
<1>1. IsVector(s \o t) /\ ToSet(s \o t) = ToSet(s) \cup ToSet(t)
  BY JoinedVectors DEF EdgesFit
<1>. QED  BY <1>1 DEF EdgesFit

LEMMA FlattenedEdges ==
  ASSUME NEW nodes, NEW s, IsVector(s), NEW t, DOMAIN t = DOMAIN s, t = [k \in DOMAIN t |-> t[k]],
         \A k \in DOMAIN s : EdgesFit(nodes, t[k])
  PROVE  EdgesFit(nodes, FlattenSeq(t))
<1>1. Len(s) \in Nat /\ DOMAIN s = 1..Len(s)
  BY VectorFacts
<1>2. DOMAIN t = 1..Len(s) /\ t = [i \in 1..Len(s) |-> t[i]]
      /\ \A i \in 1..Len(s) : IsVector(t[i])
  BY <1>1 DEF EdgesFit
<1>3. /\ IsVector(FlattenSeq(t))
      /\ ToSet(FlattenSeq(t)) = UNION {ToSet(t[i]) : i \in 1..Len(s)}
  BY <1>1, <1>2, FlattenedVectors
<1>4. \A e \in ToSet(FlattenSeq(t)) : \E i \in 1..Len(s) : e \in ToSet(t[i])
  BY <1>3
<1>. QED  BY <1>1, <1>3, <1>4 DEF EdgesFit

LEMMA OneEdge ==
  ASSUME NEW nodes, NEW src \in nodes, NEW dst \in nodes, NEW kind, NEW positions, NEW channels
  PROVE  EdgesFit(nodes, <<DerivedEdge(src, dst, kind, positions, channels)>>)
<1>. DEFINE e == DerivedEdge(src, dst, kind, positions, channels)
<1>1. e.src \in nodes /\ e.dst \in nodes
  BY DEF DerivedEdge
<1>. HIDE DEF e
<1>2. IsVector(<<e>>) /\ ToSet(<<e>>) = {e}
  BY OneVector
<1>. QED  BY <1>1, <1>2 DEF EdgesFit, e

LEMMA LoopFits ==
  ASSUME NEW nodes, NEW node \in nodes, NEW kind, NEW inst
  PROVE  EdgesFit(nodes, Loop(node, kind, inst))
BY OneEdge DEF Loop

LEMMA BothWaysFit ==
  ASSUME NEW nodes, NEW d, NEW from, NEW to, from[1] \in nodes, to[1] \in nodes,
         NEW kind, NEW channels
  PROVE  EdgesFit(nodes, BothWays(d, from, to, kind, channels))
<1>1. EdgesFit(nodes, <<DerivedEdge(from[1], to[1], <<kind, "fwd">>, <<from[2], to[2]>>, channels)>>)
  BY OneEdge
<1>2. EdgesFit(nodes, IF d.include_reverse_edges
        THEN <<DerivedEdge(to[1], from[1], <<kind, "bwd">>, <<to[2], from[2]>>, channels)>>
        ELSE <<>>)
  BY OneEdge, NoEdges
<1>. QED  BY <1>1, <1>2, JoinedEdges DEF BothWays

\* The pairs of positions are of positions.
PairsFit(pairs, n) ==
  IsVector(pairs) /\ \A p \in ToSet(pairs) : p[1] \in 1..n /\ p[2] \in 1..n

LEMMA PairsFromFit ==
  ASSUME NEW n \in Nat, NEW i \in 1..n
  PROVE  PairsFit(PairsFrom(i, n), n)
<1>. DEFINE t == PairsFrom(i, n)
<1>1. n - i \in Nat
  OBVIOUS
<1>2. DOMAIN t = 1..(n - i) /\ t = [k \in 1..(n - i) |-> t[k]]
  BY DEF PairsFrom
<1>3. \A k \in 1..(n - i) : t[k][1] \in 1..n /\ t[k][2] \in 1..n
  <2>1. ASSUME NEW k \in 1..(n - i)
        PROVE  t[k][1] \in 1..n /\ t[k][2] \in 1..n
    <3>1. t[k] = <<i, i + k>>
      BY DEF PairsFrom
    <3>2. i + k \in 1..n
      OBVIOUS
    <3>. QED  BY <3>1, <3>2
  <2>. QED  BY <2>1
<1>. HIDE DEF t
<1>4. IsVector(t) /\ ToSet(t) = {t[k] : k \in 1..(n - i)}
  BY <1>1, <1>2, VectorOf
<1>. QED  BY <1>3, <1>4 DEF PairsFit, t

LEMMA PositionPairsFit ==
  ASSUME NEW n \in Nat
  PROVE  PairsFit(PositionPairs(n), n)
<1>. DEFINE t == [i \in 1..n |-> PairsFrom(i, n)]
<1>1. \A i \in 1..n : PairsFit(t[i], n)
  BY PairsFromFit
<1>2. DOMAIN t = 1..n /\ t = [i \in 1..n |-> t[i]] /\ \A i \in 1..n : IsVector(t[i])
  BY <1>1 DEF PairsFit
<1>. HIDE DEF t
<1>3. IsVector(FlattenSeq(t)) /\ ToSet(FlattenSeq(t)) = UNION {ToSet(t[i]) : i \in 1..n}
  BY <1>2, FlattenedVectors
<1>4. \A p \in ToSet(FlattenSeq(t)) : \E i \in 1..n : p \in ToSet(t[i])
  BY <1>3
<1>5. PairsFit(FlattenSeq(t), n)
  BY <1>1, <1>3, <1>4 DEF PairsFit
<1>. QED  BY <1>5 DEF PositionPairs, t

LEMMA ChosenPairs ==
  ASSUME NEW n, NEW pairs, PairsFit(pairs, n), NEW places \in SUBSET DOMAIN pairs
  PROVE  PairsFit(Chosen(pairs, places), n)
<1>1. /\ IsVector(Chosen(pairs, places))
      /\ ToSet(Chosen(pairs, places)) = {pairs[k] : k \in places}
  BY ChosenVector DEF PairsFit
<1>2. \A k \in DOMAIN pairs : pairs[k] \in ToSet(pairs)
  BY DEF ToSet
<1>. QED  BY <1>1, <1>2 DEF PairsFit

\* What an instance needs to be drawn: the nodes it is joined to.
Placeable(d, nodes, inst) ==
  /\ IsVector(inst.arguments)
  /\ \A o \in ToSet(inst.arguments) : ObjectNode(o) \in nodes
  /\ HasNode(d, inst) => InstanceNode(inst) \in nodes
  /\ HasAnchorNode(d) => AnchorNode \in nodes

LEMMA StarEdgesFit ==
  ASSUME NEW d, NEW nodes, NEW inst, Placeable(d, nodes, inst), HasNode(d, inst), NEW kind
  PROVE  EdgesFit(nodes, StarEdges(d, inst, kind))
<1>. DEFINE arguments == inst.arguments
            t == [k \in DOMAIN arguments |->
                    BothWays(d, <<InstanceNode(inst), k>>, <<ObjectNode(arguments[k]), k>>, kind,
                             ChannelsOf(inst))]
<1>1. IsVector(arguments) /\ InstanceNode(inst) \in nodes
      /\ \A k \in DOMAIN arguments : ObjectNode(arguments[k]) \in nodes
  BY VectorFacts DEF Placeable
<1>2. ASSUME NEW k \in DOMAIN arguments
      PROVE  EdgesFit(nodes, t[k])
  <2>. DEFINE from == <<InstanceNode(inst), k>>
              to == <<ObjectNode(arguments[k]), k>>
  <2>1. from[1] \in nodes /\ to[1] \in nodes
    BY <1>1
  <2>2. t[k] = BothWays(d, from, to, kind, ChannelsOf(inst))
    OBVIOUS
  <2>. HIDE DEF from, to, t
  <2>. QED  BY <2>1, <2>2, BothWaysFit
<1>3. DOMAIN t = DOMAIN arguments /\ t = [k \in DOMAIN t |-> t[k]]
  OBVIOUS
<1>4. StarEdges(d, inst, kind) = FlattenSeq(t)
  BY DEF StarEdges
<1>. HIDE DEF t, arguments
<1>. QED  BY <1>1, <1>2, <1>3, <1>4, FlattenedEdges

LEMMA ProjectedEdgesFit ==
  ASSUME NEW d, NEW nodes, NEW inst, Placeable(d, nodes, inst)
  PROVE  EdgesFit(nodes, ProjectedEdges(d, inst))
<1>. DEFINE arguments == inst.arguments
            n == Len(arguments)
            pairs == Expanded(d.atom_expansion, n)
<1>1. /\ IsVector(arguments) /\ n \in Nat /\ DOMAIN arguments = 1..n
      /\ \A k \in DOMAIN arguments : ObjectNode(arguments[k]) \in nodes
  BY VectorFacts DEF Placeable
<1>2. CASE n = 1
  <2>1. ObjectNode(arguments[1]) \in nodes
    BY <1>1, <1>2
  <2>. QED  BY <1>2, <2>1, LoopFits DEF ProjectedEdges
<1>3. CASE n # 1
  <2>1. PairsFit(pairs, n)
    <3>. DEFINE all == PositionPairs(n)
                places == {k \in DOMAIN all : Expands(d.atom_expansion, all[k])}
    <3>1. PairsFit(all, n)
      BY <1>1, PositionPairsFit
    <3>2. pairs = Chosen(all, places) /\ places \in SUBSET DOMAIN all
      BY DEF Expanded
    <3>. HIDE DEF all, places
    <3>. QED  BY <3>1, <3>2, ChosenPairs
  <2>. DEFINE t == [k \in DOMAIN pairs |->
                      BothWays(d, PositionOf(inst, pairs[k][1]), PositionOf(inst, pairs[k][2]),
                               d.atom_expansion, ChannelsOf(inst))]
  <2>2. IsVector(pairs) /\ \A k \in DOMAIN pairs : pairs[k][1] \in 1..n /\ pairs[k][2] \in 1..n
    BY <2>1, VectorFacts DEF PairsFit
  <2>3. \A k \in 1..n : PositionOf(inst, k)[1] \in nodes
    BY <1>1 DEF PositionOf
  <2>4. ASSUME NEW k \in DOMAIN pairs
        PROVE  EdgesFit(nodes, t[k])
    <3>1. PositionOf(inst, pairs[k][1])[1] \in nodes /\ PositionOf(inst, pairs[k][2])[1] \in nodes
      BY <2>2, <2>3
    <3>. QED  BY <3>1, BothWaysFit
  <2>5. DOMAIN t = DOMAIN pairs /\ t = [k \in DOMAIN t |-> t[k]]
    OBVIOUS
  <2>6. ProjectedEdges(d, inst) = FlattenSeq(t)
    BY <1>3 DEF ProjectedEdges, PairEdges
  <2>. HIDE DEF t, pairs
  <2>. QED  BY <2>2, <2>4, <2>5, <2>6, FlattenedEdges
<1>. QED  BY <1>2, <1>3

LEMMA InstanceEdgesFit ==
  ASSUME NEW d, NEW nodes, NEW inst, Placeable(d, nodes, inst)
  PROVE  EdgesFit(nodes, InstanceEdges(d, inst))
<1>1. CASE inst.role = "action"
  BY <1>1, StarEdgesFit DEF InstanceEdges, HasNode
<1>2. CASE inst.role # "action" /\ ~Reified(d)
  BY <1>2, ProjectedEdgesFit DEF InstanceEdges
<1>3. CASE inst.role # "action" /\ Reified(d) /\ inst.arguments = <<>>
  <2>1. InstanceNode(inst) \in nodes
    BY <1>3 DEF Placeable, HasNode
  <2>. QED  BY <1>3, <2>1, LoopFits DEF InstanceEdges
<1>4. CASE inst.role # "action" /\ Reified(d) /\ inst.arguments # <<>>
  BY <1>4, StarEdgesFit DEF InstanceEdges, HasNode
<1>. QED  BY <1>1, <1>2, <1>3, <1>4

LEMMA PositionsVector ==
  ASSUME NEW inst, IsVector(inst.arguments), NEW o
  PROVE  IsVector(PositionsAt(inst, o))
<1>. DEFINE at == {p \in DOMAIN inst.arguments : inst.arguments[p] = o}
            f == [p \in at |-> p]
<1>1. Len(inst.arguments) \in Nat /\ DOMAIN inst.arguments = 1..Len(inst.arguments)
  BY VectorFacts
<1>2. IsFiniteSet(1..Len(inst.arguments))
  <2>1. 1 \in Int /\ Len(inst.arguments) \in Int
    BY <1>1
  <2>. QED  BY <2>1, FS_Interval
<1>3. at \in SUBSET (1..Len(inst.arguments))
  BY <1>1
<1>4. IsFiniteSet(at) /\ at \in SUBSET Int
  BY <1>1, <1>2, <1>3, FS_Subset
<1>. HIDE DEF at
<1>5. DOMAIN f = at /\ f \in [at -> at]
  OBVIOUS
<1>6. PositionsAt(inst, o) = InOrder(f)
  BY DEF PositionsAt, at
<1>. HIDE DEF f
<1>7. InOrder(f) \in Seq(at)
  BY <1>4, <1>5, InOrderType
<1>. QED  BY <1>6, <1>7, IntoVector

\* Places where literals meet an object: each on a node.
PlacesFit(nodes, incidents) == IsVector(incidents) /\ \A x \in ToSet(incidents) : x[1] \in nodes

LEMMA InstancePlaces ==
  ASSUME NEW nodes, NEW inst, InstanceNode(inst) \in nodes, NEW positions, IsVector(positions)
  PROVE  PlacesFit(nodes, InstancePositions(inst, positions))
<1>. DEFINE t == InstancePositions(inst, positions)
<1>1. Len(positions) \in Nat /\ DOMAIN positions = 1..Len(positions)
  BY VectorFacts
<1>2. /\ DOMAIN t = 1..Len(positions) /\ t = [n \in 1..Len(positions) |-> t[n]]
      /\ \A n \in 1..Len(positions) : t[n] = <<InstanceNode(inst), positions[n]>>
  BY <1>1 DEF InstancePositions
<1>. HIDE DEF t
<1>3. IsVector(t) /\ ToSet(t) = {t[n] : n \in 1..Len(positions)}
  BY <1>1, <1>2, VectorOf
<1>4. \A n \in 1..Len(positions) : t[n][1] \in nodes
  BY <1>2
<1>. QED  BY <1>3, <1>4 DEF PlacesFit, t

AllPlaceable(d, nodes, instances) ==
  IsVector(instances) /\ \A inst \in ToSet(instances) : Placeable(d, nodes, inst)

LEMMA IncidentsFit ==
  ASSUME NEW d, NEW nodes, NEW literals, AllPlaceable(d, nodes, literals), Reified(d), NEW o
  PROVE  PlacesFit(nodes, Incidents(literals, o))
<1>. DEFINE t == [k \in DOMAIN literals |->
                    InstancePositions(literals[k], PositionsAt(literals[k], o))]
<1>1. /\ Len(literals) \in Nat /\ DOMAIN literals = 1..Len(literals)
      /\ \A k \in DOMAIN literals : literals[k] \in ToSet(literals)
  BY VectorFacts DEF AllPlaceable
<1>2. ASSUME NEW k \in DOMAIN literals
      PROVE  PlacesFit(nodes, t[k])
  <2>1. Placeable(d, nodes, literals[k])
    BY <1>1 DEF AllPlaceable
  <2>2. IsVector(literals[k].arguments) /\ InstanceNode(literals[k]) \in nodes
    BY <2>1 DEF Placeable, HasNode
  <2>. QED  BY <2>2, PositionsVector, InstancePlaces
<1>3. DOMAIN t = 1..Len(literals) /\ t = [k \in 1..Len(literals) |-> t[k]]
      /\ \A k \in 1..Len(literals) : IsVector(t[k])
  BY <1>1, <1>2 DEF PlacesFit
<1>4. Incidents(literals, o) = FlattenSeq(t)
  BY DEF Incidents
<1>. HIDE DEF t
<1>5. /\ IsVector(FlattenSeq(t))
      /\ ToSet(FlattenSeq(t)) = UNION {ToSet(t[k]) : k \in 1..Len(literals)}
  BY <1>1, <1>3, FlattenedVectors
<1>6. \A x \in ToSet(FlattenSeq(t)) : \E k \in 1..Len(literals) : x \in ToSet(t[k])
  BY <1>5
<1>. QED  BY <1>1, <1>2, <1>4, <1>5, <1>6 DEF PlacesFit

LEMMA ShortcutsFit ==
  ASSUME NEW d, NEW nodes, NEW incidents, PlacesFit(nodes, incidents)
  PROVE  EdgesFit(nodes, ShortcutsBy(d, incidents))
<1>. DEFINE n == Len(incidents)
            pairs == PositionPairs(n)
            t == [k \in DOMAIN pairs |->
                    Shortcut(d, incidents[pairs[k][1]], incidents[pairs[k][2]])]
<1>1. n \in Nat /\ \A k \in 1..n : incidents[k][1] \in nodes
  BY VectorFacts DEF PlacesFit
<1>2. PairsFit(pairs, n)
  BY <1>1, PositionPairsFit
<1>3. IsVector(pairs) /\ \A k \in DOMAIN pairs : pairs[k][1] \in 1..n /\ pairs[k][2] \in 1..n
  BY <1>2, VectorFacts DEF PairsFit
<1>4. ASSUME NEW k \in DOMAIN pairs
      PROVE  EdgesFit(nodes, t[k])
  <2>. DEFINE one == incidents[pairs[k][1]]
              other == incidents[pairs[k][2]]
  <2>1. one[1] \in nodes /\ other[1] \in nodes /\ t[k] = Shortcut(d, one, other)
    BY <1>1, <1>3
  <2>. HIDE DEF one, other, t
  <2>. QED  BY <2>1, BothWaysFit, NoEdges DEF Shortcut
<1>5. DOMAIN t = DOMAIN pairs /\ t = [k \in DOMAIN t |-> t[k]]
  OBVIOUS
<1>6. Shortcuts(d, incidents, pairs) = FlattenSeq(t)
  BY DEF Shortcuts
<1>. HIDE DEF t, pairs
<1>7. EdgesFit(nodes, FlattenSeq(t))
  BY <1>3, <1>4, <1>5, FlattenedEdges
<1>. QED  BY <1>6, <1>7, NoEdges DEF ShortcutsBy, pairs

LEMMA LineEdgesFit ==
  ASSUME NEW d, NEW nodes, NEW objects, IsVector(objects),
         NEW literals, AllPlaceable(d, nodes, literals), Reified(d)
  PROVE  EdgesFit(nodes, LineEdges(d, objects, literals))
<1>. DEFINE t == [k \in DOMAIN objects |-> ShortcutsBy(d, Incidents(literals, objects[k]))]
<1>1. \A k \in DOMAIN objects : EdgesFit(nodes, t[k])
  BY IncidentsFit, ShortcutsFit
<1>2. DOMAIN t = DOMAIN objects /\ t = [k \in DOMAIN t |-> t[k]]
  OBVIOUS
<1>3. LineEdges(d, objects, literals) = FlattenSeq(t)
  BY DEF LineEdges
<1>. HIDE DEF t
<1>. QED  BY <1>1, <1>2, <1>3, FlattenedEdges

LEMMA ChosenPlaceable ==
  ASSUME NEW d, NEW nodes, NEW pool, AllPlaceable(d, nodes, pool), NEW places \in SUBSET DOMAIN pool
  PROVE  /\ AllPlaceable(d, nodes, Chosen(pool, places))
         /\ ToSet(Chosen(pool, places)) = {pool[k] : k \in places}
<1>1. /\ IsVector(Chosen(pool, places))
      /\ ToSet(Chosen(pool, places)) = {pool[k] : k \in places}
  BY ChosenVector DEF AllPlaceable
<1>2. \A k \in DOMAIN pool : pool[k] \in ToSet(pool)
  BY DEF ToSet
<1>. QED  BY <1>1, <1>2 DEF AllPlaceable

LEMMA AnchorLoopsFit ==
  ASSUME NEW d, NEW nodes, NEW pool, AllPlaceable(d, nodes, pool)
  PROVE  EdgesFit(nodes, AnchorLoops(d, pool))
<1>. DEFINE places == {k \in DOMAIN pool : ~HasNode(d, pool[k]) /\ pool[k].arguments = <<>>}
            waiting == Chosen(pool, places)
            t == [k \in DOMAIN waiting |-> Loop(AnchorNode, "nullary", waiting[k])]
<1>1. AllPlaceable(d, nodes, waiting) /\ ToSet(waiting) = {pool[k] : k \in places}
  <2>1. places \in SUBSET DOMAIN pool
    OBVIOUS
  <2>. HIDE DEF places
  <2>. QED  BY <2>1, ChosenPlaceable
<1>2. \A inst \in ToSet(waiting) : AnchorNode \in nodes
  <2>1. \A inst \in ToSet(waiting) : ~HasNode(d, inst) /\ Placeable(d, nodes, inst)
    BY <1>1 DEF AllPlaceable
  <2>. QED  BY <2>1 DEF Placeable, HasNode, HasAnchorNode
<1>3. IsVector(waiting) /\ \A k \in DOMAIN waiting : waiting[k] \in ToSet(waiting)
  BY <1>1, VectorFacts DEF AllPlaceable
<1>4. AnchorLoops(d, pool) = FlattenSeq(t)
  BY DEF AnchorLoops
<1>. HIDE DEF waiting
<1>5. \A k \in DOMAIN waiting : EdgesFit(nodes, t[k])
  BY <1>2, <1>3, LoopFits
<1>6. DOMAIN t = DOMAIN waiting /\ t = [k \in DOMAIN t |-> t[k]]
  OBVIOUS
<1>. HIDE DEF t
<1>. QED  BY <1>3, <1>4, <1>5, <1>6, FlattenedEdges

LEMMA DerivedEdgesFit ==
  ASSUME NEW d, d.include_line_graph => Reified(d), NEW nodes, NEW objects, IsVector(objects),
         NEW pool, AllPlaceable(d, nodes, pool)
  PROVE  EdgesFit(nodes, DerivedEdges(d, objects, pool))
<1>. DEFINE t == [k \in DOMAIN pool |-> InstanceEdges(d, pool[k])]
            lines == IF d.include_line_graph THEN LineEdges(d, objects, DrawnLiterals(pool)) ELSE <<>>
<1>1. EdgesFit(nodes, FlattenSeq(t))
  <2>1. /\ IsVector(pool) /\ \A k \in DOMAIN pool : pool[k] \in ToSet(pool)
        /\ \A inst \in ToSet(pool) : Placeable(d, nodes, inst)
    BY VectorFacts DEF AllPlaceable
  <2>2. \A k \in DOMAIN pool : EdgesFit(nodes, t[k])
    BY <2>1, InstanceEdgesFit
  <2>3. DOMAIN t = DOMAIN pool /\ t = [k \in DOMAIN t |-> t[k]]
    OBVIOUS
  <2>. HIDE DEF t
  <2>. QED  BY <2>1, <2>2, <2>3, FlattenedEdges
<1>2. EdgesFit(nodes, lines)
  <2>1. AllPlaceable(d, nodes, DrawnLiterals(pool))
    <3>. DEFINE places == {k \in DOMAIN pool : pool[k].role # "action"}
    <3>1. places \in SUBSET DOMAIN pool /\ DrawnLiterals(pool) = Chosen(pool, places)
      BY DEF DrawnLiterals
    <3>. HIDE DEF places
    <3>. QED  BY <3>1, ChosenPlaceable
  <2>. QED  BY <2>1, LineEdgesFit, NoEdges
<1>3. DerivedEdges(d, objects, pool) = FlattenSeq(t) \o lines \o AnchorLoops(d, pool)
  BY DEF DerivedEdges
<1>. HIDE DEF t, lines
<1>4. EdgesFit(nodes, FlattenSeq(t) \o lines)
  BY <1>1, <1>2, JoinedEdges
<1>5. EdgesFit(nodes, AnchorLoops(d, pool))
  BY AnchorLoopsFit
<1>. QED  BY <1>3, <1>4, <1>5, JoinedEdges

\* Distances are between objects.
LEMMA DistancesFit ==
  ASSUME NEW nodes, NEW objects, IsVector(objects), \A o \in ToSet(objects) : ObjectNode(o) \in nodes,
         NEW reached
  PROVE  EdgesFit(nodes, DistancesAlong(objects, reached))
<1>. DEFINE n == Len(objects)
            all == PositionPairs(n)
            places == {k \in DOMAIN all : DistanceIn(reached[all[k][1]], objects[all[k][2]]) # {}}
            pairs == InReach(objects, reached)
            t == PairDistances(objects, reached, pairs)
<1>1. n \in Nat /\ \A k \in 1..n : ObjectNode(objects[k]) \in nodes
  BY VectorFacts
<1>2. PairsFit(pairs, n)
  <2>1. PairsFit(all, n)
    BY <1>1, PositionPairsFit
  <2>2. places \in SUBSET DOMAIN all /\ pairs = Chosen(all, places)
    BY DEF InReach
  <2>. HIDE DEF all, places, pairs
  <2>. QED  BY <2>1, <2>2, ChosenPairs
<1>3. /\ Len(pairs) \in Nat /\ DOMAIN pairs = 1..Len(pairs)
      /\ \A k \in DOMAIN pairs : pairs[k][1] \in 1..n /\ pairs[k][2] \in 1..n
  BY <1>2, VectorFacts DEF PairsFit
<1>. HIDE DEF pairs
<1>4. ASSUME NEW k \in DOMAIN pairs
      PROVE  t[k].src \in nodes /\ t[k].dst \in nodes
  <2>1. /\ t[k].src = ObjectNode(objects[pairs[k][1]])
        /\ t[k].dst = ObjectNode(objects[pairs[k][2]])
    BY DEF PairDistances
  <2>. QED  BY <1>1, <1>3, <2>1
<1>5. DOMAIN t = 1..Len(pairs) /\ t = [k \in 1..Len(pairs) |-> t[k]]
  BY <1>3 DEF PairDistances
<1>6. DistancesAlong(objects, reached) = t
  BY DEF DistancesAlong, pairs
<1>. HIDE DEF t
<1>7. IsVector(t) /\ ToSet(t) = {t[k] : k \in 1..Len(pairs)}
  BY <1>3, <1>5, VectorOf
<1>. QED  BY <1>3, <1>4, <1>6, <1>7 DEF EdgesFit

\* Three vectors in a row, entry by entry.
InThree(a, b, c, s) ==
  /\ IsVector(s) /\ ToSet(s) = ToSet(a) \cup ToSet(b) \cup ToSet(c)
  /\ Len(s) = Len(a) + Len(b) + Len(c) /\ Len(a) \in Nat /\ Len(b) \in Nat /\ Len(c) \in Nat
  /\ \A k \in 1..Len(s) :
       s[k] = IF k <= Len(a) THEN a[k]
              ELSE IF k <= Len(a) + Len(b) THEN b[k - Len(a)]
              ELSE c[k - Len(a) - Len(b)]

LEMMA ThreeParts ==
  ASSUME NEW a, IsVector(a), NEW b, IsVector(b), NEW c, IsVector(c)
  PROVE  InThree(a, b, c, a \o b \o c)
<1>. DEFINE ab == a \o b
            s == ab \o c
            T == ToSet(a) \cup ToSet(b) \cup ToSet(c)
<1>1. Len(a) \in Nat /\ Len(b) \in Nat /\ Len(c) \in Nat
  BY VectorFacts
<1>2. IsVector(ab) /\ ToSet(ab) = ToSet(a) \cup ToSet(b) /\ Len(ab) = Len(a) + Len(b)
  BY JoinedVectors
<1>3. IsVector(s) /\ ToSet(s) = ToSet(ab) \cup ToSet(c) /\ Len(s) = Len(ab) + Len(c)
  BY <1>2, JoinedVectors
<1>4. a \in Seq(T) /\ b \in Seq(T) /\ c \in Seq(T) /\ ab \in Seq(T)
  BY <1>2, VectorIn
<1>. HIDE DEF T
<1>5. \A k \in 1..(Len(a) + Len(b)) : ab[k] = IF k <= Len(a) THEN a[k] ELSE b[k - Len(a)]
  BY <1>4, ConcatProperties
<1>6. s = ab \o c
  OBVIOUS
<1>. HIDE DEF ab, s
<1>7. \A k \in 1..(Len(ab) + Len(c)) : s[k] = IF k <= Len(ab) THEN ab[k] ELSE c[k - Len(ab)]
  BY <1>4, <1>6, ConcatProperties
<1>8. ASSUME NEW k \in 1..Len(s)
      PROVE  s[k] = IF k <= Len(a) THEN a[k]
                    ELSE IF k <= Len(a) + Len(b) THEN b[k - Len(a)]
                    ELSE c[k - Len(a) - Len(b)]
  <2>. DEFINE la == Len(a)
              lb == Len(b)
              lc == Len(c)
  <2>1. la \in Nat /\ lb \in Nat /\ lc \in Nat /\ k \in 1..(la + lb + lc) /\ Len(ab) = la + lb
    BY <1>1, <1>2, <1>3
  <2>2. s[k] = IF k <= la + lb THEN ab[k] ELSE c[k - (la + lb)]
    BY <1>7, <2>1
  <2>3. k <= la + lb => ab[k] = IF k <= la THEN a[k] ELSE b[k - la]
    BY <1>5, <2>1
  <2>. HIDE DEF la, lb, lc
  <2>4. k - (la + lb) = k - la - lb /\ (k <= la => k <= la + lb)
    BY <2>1
  <2>5. s[k] = IF k <= la THEN a[k] ELSE IF k <= la + lb THEN b[k - la] ELSE c[k - la - lb]
    BY <2>2, <2>3, <2>4
  <2>. QED  BY <2>5 DEF la, lb
<1>9. InThree(a, b, c, s)
  BY <1>1, <1>2, <1>3, <1>8 DEF InThree
<1>. QED  BY <1>9 DEF s, ab

\* The nodes of a drawing: objects, drawn instances, the anchor.
NodesDrawn(d, objects, drawn, nodes) ==
  /\ IsVector(nodes) /\ Len(objects) <= Len(nodes)
  /\ \A o \in ToSet(objects) : ObjectNode(o) \in ToSet(nodes)
  /\ \A inst \in ToSet(drawn) : InstanceNode(inst) \in ToSet(nodes)
  /\ HasAnchorNode(d) => /\ AnchorNode \in ToSet(nodes) /\ Len(nodes) > 0
                         /\ \A k \in DOMAIN nodes : nodes[k] = AnchorNode <=> k = Len(nodes)
  /\ \A k \in DOMAIN nodes :
       IF k <= Len(objects) THEN nodes[k] = ObjectNode(objects[k])
       ELSE \/ nodes[k] = AnchorNode
            \/ \E inst \in ToSet(drawn) : nodes[k] = InstanceNode(inst)

LEMMA DrawnNodes ==
  ASSUME NEW d, NEW objects, IsVector(objects), NEW drawn, IsVector(drawn),
         NEW nodes, nodes = DerivedNodes(d, objects, drawn)
  PROVE  NodesDrawn(d, objects, drawn, nodes)
<1>. DEFINE a == [k \in DOMAIN objects |-> ObjectNode(objects[k])]
            b == [k \in DOMAIN drawn |-> InstanceNode(drawn[k])]
            c == IF HasAnchorNode(d) THEN <<AnchorNode>> ELSE <<>>
<1>1. /\ Len(objects) \in Nat /\ DOMAIN objects = 1..Len(objects)
      /\ Len(drawn) \in Nat /\ DOMAIN drawn = 1..Len(drawn)
      /\ \A k \in DOMAIN drawn : drawn[k] \in ToSet(drawn)
  BY VectorFacts
<1>2. IsVector(a) /\ Len(a) = Len(objects) /\ ToSet(a) = {a[k] : k \in 1..Len(objects)}
  <2>1. DOMAIN a = 1..Len(objects) /\ a = [k \in 1..Len(objects) |-> a[k]]
    BY <1>1
  <2>. HIDE DEF a
  <2>. QED  BY <1>1, <2>1, VectorOf
<1>3. IsVector(b) /\ Len(b) = Len(drawn) /\ ToSet(b) = {b[k] : k \in 1..Len(drawn)}
  <2>1. DOMAIN b = 1..Len(drawn) /\ b = [k \in 1..Len(drawn) |-> b[k]]
    BY <1>1
  <2>. HIDE DEF b
  <2>. QED  BY <1>1, <2>1, VectorOf
<1>4. /\ IsVector(c)
      /\ HasAnchorNode(d) => Len(c) = 1 /\ c[1] = AnchorNode /\ ToSet(c) = {AnchorNode}
      /\ ~HasAnchorNode(d) => Len(c) = 0
  <2>1. IsVector(<<AnchorNode>>) /\ ToSet(<<AnchorNode>>) = {AnchorNode} /\ Len(<<AnchorNode>>) = 1
        /\ <<AnchorNode>>[1] = AnchorNode
    BY OneVector
  <2>. QED  BY <2>1, EmptyVector
<1>5. nodes = a \o b \o c
  BY DEF DerivedNodes
<1>6. /\ \A k \in 1..Len(objects) : a[k] = ObjectNode(objects[k])
      /\ \A k \in 1..Len(drawn) : b[k] = InstanceNode(drawn[k])
  BY <1>1
<1>. HIDE DEF a, b, c
<1>7. /\ IsVector(nodes) /\ ToSet(nodes) = ToSet(a) \cup ToSet(b) \cup ToSet(c)
      /\ Len(nodes) = Len(a) + Len(b) + Len(c)
      /\ InThree(a, b, c, nodes)
  <2>1. InThree(a, b, c, nodes)
    BY <1>2, <1>3, <1>4, <1>5, ThreeParts
  <2>. QED  BY <2>1 DEF InThree
<1>8. DOMAIN nodes = 1..Len(nodes)
  BY <1>7, VectorFacts
<1>. DEFINE m == Len(objects)
            n == Len(drawn)
            last == Len(nodes)
<1>9. /\ m \in Nat /\ n \in Nat
      /\ HasAnchorNode(d) => last = m + n + 1
      /\ ~HasAnchorNode(d) => last = m + n
  <2>. DEFINE lc == Len(c)
  <2>1. last = m + n + lc
    BY <1>2, <1>3, <1>7
  <2>2. m \in Nat /\ n \in Nat
    BY <1>1
  <2>3. HasAnchorNode(d) => lc = 1
    BY <1>4
  <2>4. ~HasAnchorNode(d) => lc = 0
    BY <1>4
  <2>. HIDE DEF m, n, last, lc
  <2>. QED  BY <2>1, <2>2, <2>3, <2>4
<1>10. \A k \in DOMAIN nodes :
         nodes[k] = IF k <= m THEN a[k] ELSE IF k <= m + n THEN b[k - m] ELSE c[k - m - n]
  BY <1>2, <1>3, <1>7, <1>8 DEF InThree
<1>. HIDE DEF m, n, last
<1>11. ASSUME NEW k \in DOMAIN nodes
       PROVE  /\ k <= m => nodes[k] = ObjectNode(objects[k])
              /\ k > m /\ k <= m + n =>
                   \E inst \in ToSet(drawn) : nodes[k] = InstanceNode(inst)
              /\ k > m + n => nodes[k] = AnchorNode /\ HasAnchorNode(d) /\ k = last
  <2>1. k \in 1..last
    BY <1>8 DEF last
  <2>2. last \in Nat
    BY <1>9
  <2>3. CASE k <= m
    <3>1. k \in 1..m
      BY <1>9, <2>1, <2>2, <2>3
    <3>2. nodes[k] = ObjectNode(objects[k])
      BY <1>6, <1>10, <2>3, <3>1 DEF m
    <3>. QED  BY <1>9, <2>1, <2>2, <2>3, <3>2
  <2>4. CASE k > m /\ k <= m + n
    <3>1. k - m \in 1..n /\ ~(k <= m) /\ ~(k > m + n)
      BY <1>9, <2>1, <2>2, <2>4
    <3>2. nodes[k] = b[k - m]
      BY <1>10, <2>4, <3>1
    <3>3. nodes[k] = InstanceNode(drawn[k - m]) /\ drawn[k - m] \in ToSet(drawn)
      BY <1>1, <1>6, <3>1, <3>2 DEF n
    <3>. QED  BY <3>1, <3>3
  <2>5. CASE k > m + n
    <3>1. HasAnchorNode(d) /\ k = m + n + 1 /\ k = last
      BY <1>9, <2>1, <2>2, <2>5
    <3>2. ~(k <= m) /\ ~(k <= m + n) /\ k - m - n = 1
      BY <1>9, <3>1
    <3>3. nodes[k] = c[1]
      BY <1>10, <3>2
    <3>. QED  BY <1>4, <3>1, <3>2, <3>3
  <2>6. k <= m \/ (k > m /\ k <= m + n) \/ k > m + n
    BY <1>9, <2>1, <2>2
  <2>. QED  BY <2>3, <2>4, <2>5, <2>6
<1>12. m <= last
  BY <1>9
<1>13. /\ \A o \in ToSet(objects) : ObjectNode(o) \in ToSet(nodes)
       /\ \A inst \in ToSet(drawn) : InstanceNode(inst) \in ToSet(nodes)
  <2>1. \A o \in ToSet(objects) : \E k \in 1..Len(objects) : o = objects[k]
    BY <1>1 DEF ToSet
  <2>2. \A inst \in ToSet(drawn) : \E k \in 1..Len(drawn) : inst = drawn[k]
    BY <1>1 DEF ToSet
  <2>3. \A o \in ToSet(objects) : ObjectNode(o) \in ToSet(a)
    BY <1>2, <1>6, <2>1
  <2>4. \A inst \in ToSet(drawn) : InstanceNode(inst) \in ToSet(b)
    BY <1>3, <1>6, <2>2
  <2>. QED  BY <1>7, <2>3, <2>4
<1>14. ASSUME HasAnchorNode(d)
       PROVE  /\ AnchorNode \in ToSet(nodes) /\ last > 0
              /\ \A k \in DOMAIN nodes : nodes[k] = AnchorNode <=> k = last
  <2>1. AnchorNode \in ToSet(nodes)
    BY <1>4, <1>7, <1>14
  <2>2. last > 0
    BY <1>9, <1>14
  <2>3. ASSUME NEW k \in DOMAIN nodes
        PROVE  nodes[k] = AnchorNode <=> k = last
    <3>1. k \in 1..last
      BY <1>8 DEF last
    <3>2. k = last => k > m + n
      BY <1>9, <1>14
    <3>3. k <= m \/ (k > m /\ k <= m + n) \/ k > m + n
      BY <1>9, <3>1
    <3>4. k <= m => nodes[k] # AnchorNode
      BY <1>11, NodesApart
    <3>5. k > m /\ k <= m + n => nodes[k] # AnchorNode
      BY <1>11, NodesApart
    <3>6. k > m + n => nodes[k] = AnchorNode /\ k = last
      BY <1>11
    <3>. QED  BY <3>2, <3>3, <3>4, <3>5, <3>6
  <2>. QED  BY <2>1, <2>2, <2>3
<1>15. ASSUME NEW k \in DOMAIN nodes
       PROVE  IF k <= m THEN nodes[k] = ObjectNode(objects[k])
              ELSE \/ nodes[k] = AnchorNode
                   \/ \E inst \in ToSet(drawn) : nodes[k] = InstanceNode(inst)
  <2>1. k \in 1..last
    BY <1>8 DEF last
  <2>2. k <= m \/ (~(k <= m) /\ k > m /\ k <= m + n) \/ (~(k <= m) /\ k > m + n)
    BY <1>9, <2>1
  <2>. QED  BY <1>11, <2>2
<1>. QED  BY <1>7, <1>12, <1>13, <1>14, <1>15 DEF m, last, NodesDrawn

\* What the encoder draws is well drawn.
LEMMA EncodedDrawing ==
  ASSUME NEW d, d.include_line_graph => Reified(d), NEW lanes, LanesDrawable(lanes)
  PROVE  DrawingFits(d, DerivedEncode(d, lanes))
<1>. DEFINE objects == Ordered(lanes.objects)
            instances == Instances(lanes)
            pool == PoolOf(instances)
            drawn == Drawn(d, pool)
            graph == DerivedEncode(d, lanes)
            places == {k \in DOMAIN pool : HasNode(d, pool[k])}
<1>1. /\ graph.objects = objects /\ graph.instances = instances
      /\ graph.nodes = DerivedNodes(d, objects, drawn)
      /\ graph.edges = DerivedEdges(d, objects, pool)
      /\ graph.distances = IF d.include_spd THEN Distances(d, objects, instances) ELSE <<>>
  BY DEF DerivedEncode, DerivedEncodeOf, DerivedGraphOf
<1>2. IsVector(objects) /\ ToSet(objects) = lanes.objects
  BY OrderedVector DEF LanesDrawable
<1>3. InstanceTable(lanes.objects, instances)
  BY InstancesAre
<1>4. IsVector(instances) /\ IsVector(pool) /\ ToSet(pool) = ToSet(instances)
  BY <1>3, PoolVector DEF InstanceTable
<1>5. /\ IsVector(drawn) /\ ToSet(drawn) = {pool[k] : k \in places}
  <2>1. places \in SUBSET DOMAIN pool /\ drawn = Chosen(pool, places)
    BY DEF Drawn
  <2>. HIDE DEF places, drawn, pool
  <2>. QED  BY <1>4, <2>1, ChosenVector
<1>6. /\ ToSet(drawn) \subseteq ToSet(instances)
      /\ \A inst \in ToSet(instances) : HasNode(d, inst) => inst \in ToSet(drawn)
  <2>1. \A k \in DOMAIN pool : pool[k] \in ToSet(instances)
    BY <1>4, VectorFacts
  <2>2. \A inst \in ToSet(instances) : \E k \in DOMAIN pool : inst = pool[k]
    BY <1>4 DEF ToSet
  <2>. QED  BY <1>5, <2>1, <2>2
<1>. HIDE DEF objects, instances, pool, drawn, places, graph
<1>. DEFINE nodes == graph.nodes
            N == ToSet(nodes)
<1>7. NodesDrawn(d, objects, drawn, nodes)
  BY <1>1, <1>2, <1>5, DrawnNodes
<1>8. NodesFit(d, graph)
  <2>1. \A k \in DOMAIN nodes : NodeFits(graph, k)
    BY <1>1, <1>6, <1>7 DEF NodeFits, NodesDrawn
  <2>. QED  BY <1>1, <1>2, <1>7, <2>1 DEF NodesFit, NodesDrawn
<1>9. ASSUME NEW inst \in ToSet(instances)
      PROVE  InstanceFits(d, graph, inst) /\ Placeable(d, N, inst)
  <2>1. inst.role # "object" /\ IsVector(inst.arguments) /\ ToSet(inst.arguments) \subseteq lanes.objects
    BY <1>3 DEF InstanceTable, ArgumentsKnown
  <2>2. \A o \in ToSet(inst.arguments) : ObjectNode(o) \in N
    BY <1>2, <1>7, <2>1 DEF NodesDrawn
  <2>3. HasNode(d, inst) => InstanceNode(inst) \in N
    BY <1>6, <1>7 DEF NodesDrawn
  <2>. QED  BY <1>7, <2>1, <2>2, <2>3 DEF InstanceFits, Placeable, NodesDrawn
<1>10. EdgesFit(N, graph.edges)
  <2>1. AllPlaceable(d, N, pool)
    BY <1>4, <1>9 DEF AllPlaceable
  <2>. HIDE DEF N
  <2>. QED  BY <1>1, <1>2, <2>1, DerivedEdgesFit
<1>11. EdgesFit(N, graph.distances)
  <2>0. \A o \in ToSet(objects) : ObjectNode(o) \in N
    BY <1>7 DEF NodesDrawn
  <2>. HIDE DEF N
  <2>1. \A reached : EdgesFit(N, DistancesAlong(objects, reached))
    BY <1>2, <2>0, DistancesFit
  <2>2. EdgesFit(N, Distances(d, objects, instances))
    BY <2>1 DEF Distances
  <2>. QED  BY <1>1, <2>2, NoEdges
<1>12. DrawingFits(d, graph)
  BY <1>1, <1>4, <1>8, <1>9, <1>10, <1>11 DEF DrawingFits, EdgesFit, EndsFit
<1>. QED  BY <1>12 DEF graph

\* The goals as written, layer after layer.
LEMMA WrittenGoalsAre ==
  ASSUME NEW layers, IsVector(layers), \A layer \in ToSet(layers) : AreLiterals(layer)
  PROVE  /\ IsVector(WrittenGoals(layers))
         /\ \A goal \in ToSet(WrittenGoals(layers)) : IsVector(goal.literal.atom.arguments)
<1>. DEFINE t == [l \in DOMAIN layers |->
                    [i \in DOMAIN layers[l] |-> [literal |-> layers[l][i], level |-> l - 1]]]
            n == Len(layers)
<1>1. n \in Nat /\ DOMAIN layers = 1..n /\ \A l \in 1..n : layers[l] \in ToSet(layers)
  BY VectorFacts
<1>2. DOMAIN t = 1..n /\ t = [l \in 1..n |-> t[l]]
  BY <1>1
<1>3. ASSUME NEW l \in 1..n
      PROVE  /\ IsVector(t[l])
             /\ \A goal \in ToSet(t[l]) : IsVector(goal.literal.atom.arguments)
  <2>. DEFINE layer == layers[l]
              row == [i \in DOMAIN layer |-> [literal |-> layer[i], level |-> l - 1]]
  <2>1. IsVector(layer) /\ \A literal \in ToSet(layer) : IsVector(literal.atom.arguments)
    BY <1>1 DEF AreLiterals, IsLiteral, IsAtom
  <2>2. Len(layer) \in Nat /\ DOMAIN layer = 1..Len(layer)
        /\ \A i \in DOMAIN layer : layer[i] \in ToSet(layer)
    BY <2>1, VectorFacts
  <2>3. t[l] = row
    BY <1>1
  <2>4. DOMAIN row = 1..Len(layer) /\ row = [i \in 1..Len(layer) |-> row[i]]
    BY <2>2
  <2>5. \A i \in 1..Len(layer) : row[i].literal = layer[i]
    BY <2>2
  <2>. HIDE DEF row, layer
  <2>6. IsVector(row) /\ ToSet(row) = {row[i] : i \in 1..Len(layer)}
    BY <2>2, <2>4, VectorOf
  <2>7. \A i \in 1..Len(layer) : IsVector(row[i].literal.atom.arguments)
    BY <2>1, <2>2, <2>5
  <2>. QED  BY <2>3, <2>6, <2>7
<1>4. WrittenGoals(layers) = FlattenSeq(t)
  BY DEF WrittenGoals
<1>. HIDE DEF t, n
<1>5. /\ IsVector(FlattenSeq(t))
      /\ ToSet(FlattenSeq(t)) = UNION {ToSet(t[i]) : i \in 1..n}
  BY <1>1, <1>2, <1>3, FlattenedVectors
<1>. QED  BY <1>3, <1>4, <1>5

\* Sorting the goals loses none and makes none up.
LEMMA SortedGoalsAre ==
  ASSUME NEW goals, IsVector(goals)
  PROVE  IsVector(SortedGoals(goals)) /\ ToSet(SortedGoals(goals)) = ToSet(goals)
<1>. DEFINE order == Ordered(ToSet(goals))
            n == Len(order)
            t == [k \in DOMAIN order |-> SameAs(goals, order[k])]
<1>1. IsFiniteSet(ToSet(goals))
  <2>1. DOMAIN goals = 1..Len(goals) /\ Len(goals) \in Nat
    BY VectorFacts
  <2>2. IsFiniteSet(1..Len(goals))
    <3>1. 1 \in Int /\ Len(goals) \in Int
      BY <2>1
    <3>. QED  BY <3>1, FS_Interval
  <2>3. goals \in Surjection(1..Len(goals), ToSet(goals))
    <3>1. goals = [k \in 1..Len(goals) |-> goals[k]]
      BY <2>1, VectorFacts DEF IsVector
    <3>. QED  BY <2>1, <3>1 DEF Surjection, ToSet
  <2>. QED  BY <2>2, <2>3, FS_Surjection
<1>2. IsVector(order) /\ ToSet(order) = ToSet(goals)
  BY <1>1, OrderedVector
<1>3. n \in Nat /\ DOMAIN order = 1..n /\ \A k \in 1..n : order[k] \in ToSet(goals)
  BY <1>2, VectorFacts
<1>4. DOMAIN t = 1..n /\ t = [k \in 1..n |-> t[k]]
  BY <1>3
<1>5. ASSUME NEW k \in 1..n
      PROVE  IsVector(t[k]) /\ ToSet(t[k]) = {order[k]}
  <2>. DEFINE places == {i \in DOMAIN goals : goals[i] = order[k]}
  <2>1. t[k] = Chosen(goals, places)
    BY <1>3 DEF SameAs
  <2>2. places \in SUBSET DOMAIN goals
    OBVIOUS
  <2>3. IsVector(Chosen(goals, places)) /\ ToSet(Chosen(goals, places)) = {goals[i] : i \in places}
    <3>. HIDE DEF places
    <3>. QED  BY <2>2, ChosenVector
  <2>4. \E i \in DOMAIN goals : goals[i] = order[k]
    BY <1>3 DEF ToSet
  <2>5. {goals[i] : i \in places} = {order[k]}
    BY <2>4
  <2>. HIDE DEF t, places
  <2>. QED  BY <2>1, <2>3, <2>5
<1>6. SortedGoals(goals) = FlattenSeq(t)
  BY DEF SortedGoals, Arranged
<1>. HIDE DEF t, n, order
<1>7. /\ IsVector(FlattenSeq(t))
      /\ ToSet(FlattenSeq(t)) = UNION {ToSet(t[i]) : i \in 1..n}
  BY <1>3, <1>4, <1>5, FlattenedVectors
<1>8. \A goal \in ToSet(goals) : \E k \in 1..n : goal = order[k]
  BY <1>2, <1>3 DEF ToSet
<1>9. ToSet(FlattenSeq(t)) = ToSet(goals)
  <2>1. \A goal \in ToSet(goals) : \E k \in 1..n : goal \in ToSet(t[k])
    BY <1>5, <1>8
  <2>2. \A k \in 1..n : ToSet(t[k]) \subseteq ToSet(goals)
    BY <1>3, <1>5
  <2>3. UNION {ToSet(t[k]) : k \in 1..n} = ToSet(goals)
    BY <2>1, <2>2
  <2>. QED  BY <1>7, <2>3
<1>. QED  BY <1>6, <1>7, <1>9

\* An owned input that is drawn has lanes that can be.
LEMMA OccurrencesDrawable ==
  ASSUME NEW in, IsOwnedInput(in), Draws(OwnedOccurrences(in))
  PROVE  LanesDrawable(OwnedOccurrences(in))
<1>. DEFINE lanes == OwnedOccurrences(in)
            written == WrittenGoals(EffectiveLayers(in))
<1>1. /\ lanes.objects = in.objects /\ lanes.static = in.static /\ lanes.facts = in.facts
      /\ lanes.actions = in.actions /\ lanes.history = in.history
      /\ lanes.goals = SortedGoals(written)
  BY DEF OwnedOccurrences, OwnedLanes
<1>2. IsVector(written) /\ \A goal \in ToSet(written) : IsVector(goal.literal.atom.arguments)
  BY LayersFit, WrittenGoalsAre
<1>3. /\ IsVector(lanes.goals)
      /\ \A goal \in ToSet(lanes.goals) : IsVector(goal.literal.atom.arguments)
  <2>. HIDE DEF written
  <2>1. IsVector(SortedGoals(written)) /\ ToSet(SortedGoals(written)) = ToSet(written)
    BY <1>2, SortedGoalsAre
  <2>. QED  BY <1>1, <1>2, <2>1
<1>4. ~DerivedRefused(lanes) /\ Grounded(lanes)
  BY DEF Draws
<1>. HIDE DEF lanes, written
<1>5. \A k \in DOMAIN lanes.goals :
        ToSet(lanes.goals[k].literal.atom.arguments) \subseteq lanes.objects
  BY <1>4 DEF DerivedRefused
<1>6. \A goal \in ToSet(lanes.goals) : ArgumentsKnown(lanes.objects, goal.literal.atom.arguments)
  BY <1>3, <1>5 DEF ToSet, ArgumentsKnown
<1>7. IsFiniteSet(lanes.objects) /\ AreFacts(lanes.static) /\ AreFacts(lanes.facts)
      /\ AreActions(lanes.actions) /\ IsHistory(lanes.history)
  BY <1>1 DEF IsOwnedInput, AreLayers
<1>8. \A atom \in lanes.static \cup lanes.facts : ArgumentsKnown(lanes.objects, atom.arguments)
  BY <1>4, <1>7 DEF DerivedRefused, AreFacts, IsAtom, ArgumentsKnown
<1>9. \A action \in ToSet(lanes.actions) : ArgumentsKnown(lanes.objects, action.arguments)
  BY <1>4, <1>7 DEF Grounded, AreActions, ArgumentsKnown
<1>10. \A entry \in ToSet(lanes.history) : \A literal \in ToSet(entry.literals) :
         ArgumentsKnown(lanes.objects, literal.atom.arguments)
  BY <1>4, <1>7 DEF Grounded, IsHistory, IsEntry, AreLiterals, IsLiteral, IsAtom, ArgumentsKnown
<1>11. LanesDrawable(lanes)
  BY <1>3, <1>6, <1>7, <1>8, <1>9, <1>10 DEF LanesDrawable, AreFacts, IsAtom, AreActions
<1>. QED  BY <1>11 DEF lanes
-----------------------------------------------------------------------------
(***************************************************************************)
(* Sorting twice is sorting once.                                          *)
(***************************************************************************)
LEMMA SameVector ==
  ASSUME NEW goals, IsVector(goals), NEW x
  PROVE  IsVector(SameAs(goals, x)) /\ ToSet(SameAs(goals, x)) \subseteq {x}
<1>. DEFINE places == {i \in DOMAIN goals : goals[i] = x}
<1>1. places \in SUBSET DOMAIN goals /\ \A i \in places : goals[i] = x
  OBVIOUS
<1>2. SameAs(goals, x) = Chosen(goals, places)
  BY DEF SameAs
<1>. HIDE DEF places
<1>3. IsVector(Chosen(goals, places)) /\ ToSet(Chosen(goals, places)) = {goals[i] : i \in places}
  BY <1>1, ChosenVector
<1>. QED  BY <1>1, <1>2, <1>3

LEMMA SortedBlocks ==
  ASSUME NEW goals, IsVector(goals), NEW x \in ToSet(goals)
  PROVE  SameAs(SortedGoals(goals), x) = SameAs(goals, x)
<1>. DEFINE order == Ordered(ToSet(goals))
            n == Len(order)
            t == [k \in DOMAIN order |-> SameAs(goals, order[k])]
            T == UNION {ToSet(t[k]) : k \in 1..n}
<1>1. IsFiniteSet(ToSet(goals))
  BY VectorFinite
<1>2. /\ IsVector(order) /\ ToSet(order) = ToSet(goals)
      /\ \A i, j \in DOMAIN order : order[i] = order[j] => i = j
  BY <1>1, OrderedVector
<1>3. n \in Nat /\ DOMAIN order = 1..n /\ \A k \in 1..n : order[k] \in ToSet(goals)
  BY <1>2, VectorFacts
<1>4. DOMAIN t = 1..n /\ t = [k \in 1..n |-> t[k]] /\ \A k \in 1..n : t[k] = SameAs(goals, order[k])
  BY <1>3
<1>. HIDE DEF t, n, order
<1>5. ASSUME NEW k \in 1..n
      PROVE  /\ IsVector(t[k])
             /\ \A i \in 1..Len(t[k]) : t[k][i] = order[k]
  <2>1. IsVector(SameAs(goals, order[k])) /\ ToSet(SameAs(goals, order[k])) \subseteq {order[k]}
    BY SameVector
  <2>2. IsVector(t[k]) /\ ToSet(t[k]) \subseteq {order[k]}
    BY <1>4, <2>1
  <2>3. DOMAIN t[k] = 1..Len(t[k]) /\ \A i \in DOMAIN t[k] : t[k][i] \in ToSet(t[k])
    BY <2>2, VectorFacts
  <2>. QED  BY <2>2, <2>3
<1>6. t \in Seq(Seq(T)) /\ Len(t) = n
  BY <1>3, <1>4, <1>5, VectorsNested
<1>. HIDE DEF T
<1>7. PICK k \in 1..n : order[k] = x
  BY <1>2, <1>3 DEF ToSet
<1>8. \A j \in 1..n : j # k => order[j] # x
  BY <1>2, <1>3, <1>7
<1>9. \A i \in 1..Len(t[k]) : t[k][i] \in {x}
  BY <1>5, <1>7
<1>10. \A j \in 1..Len(t) : j # k => \A i \in 1..Len(t[j]) : t[j][i] \notin {x}
  BY <1>5, <1>6, <1>8
<1>11. Chosen(FlattenSeq(t), {p \in DOMAIN FlattenSeq(t) : FlattenSeq(t)[p] \in {x}}) = t[k]
  <2>1. t \in Seq(Seq(T)) /\ k \in 1..Len(t)
    BY <1>6, <1>7
  <2>. DEFINE C == {x}
  <2>2. /\ \A i \in 1..Len(t[k]) : t[k][i] \in C
        /\ \A j \in 1..Len(t) : j # k => \A i \in 1..Len(t[j]) : t[j][i] \notin C
    BY <1>9, <1>10
  <2>. HIDE DEF C
  <2>3. Chosen(FlattenSeq(t), {p \in DOMAIN FlattenSeq(t) : FlattenSeq(t)[p] \in C}) = t[k]
    BY ONLY <2>1, <2>2, BlockChosen
  <2>. QED  BY <2>3 DEF C
<1>12. {p \in DOMAIN FlattenSeq(t) : FlattenSeq(t)[p] \in {x}} = {p \in DOMAIN FlattenSeq(t) : FlattenSeq(t)[p] = x}
  OBVIOUS
<1>13. SortedGoals(goals) = FlattenSeq(t)
  BY DEF SortedGoals, Arranged, t, order
<1>14. t[k] = SameAs(goals, x)
  BY <1>4, <1>7
<1>. QED  BY <1>11, <1>12, <1>13, <1>14 DEF SameAs

\* Sorted goals are sorted.
LEMMA SortedAgain ==
  ASSUME NEW goals, IsVector(goals)
  PROVE  SortedGoals(SortedGoals(goals)) = SortedGoals(goals)
<1>. DEFINE sorted == SortedGoals(goals)
            order == Ordered(ToSet(goals))
<1>1. ToSet(sorted) = ToSet(goals)
  BY SortedGoalsAre
<1>2. IsVector(order) /\ ToSet(order) = ToSet(goals)
  BY VectorFinite, OrderedVector
<1>3. \A k \in DOMAIN order : order[k] \in ToSet(goals)
  BY <1>2, VectorFacts
<1>4. \A k \in DOMAIN order : SameAs(sorted, order[k]) = SameAs(goals, order[k])
  BY <1>3, SortedBlocks
<1>5. Arranged(sorted, order) = Arranged(goals, order)
  BY <1>4 DEF Arranged
<1>. QED  BY <1>1, <1>5 DEF SortedGoals

\* The history, and what of it is near.
LEMMA NearVector ==
  ASSUME NEW history, IsHistory(history), NEW max_steps
  PROVE  /\ IsHistory(NearEntries(history, max_steps))
         /\ ToSet(NearEntries(history, max_steps)) \subseteq ToSet(history)
<1>. DEFINE places == {i \in DOMAIN history : Near(history[i], max_steps)}
<1>1. places \in SUBSET DOMAIN history
  OBVIOUS
<1>2. NearEntries(history, max_steps) = Chosen(history, places)
  BY DEF NearEntries
<1>. HIDE DEF places
<1>3. IsVector(Chosen(history, places)) /\ ToSet(Chosen(history, places)) = {history[n] : n \in places}
  BY <1>1, ChosenVector DEF IsHistory
<1>4. \A n \in places : history[n] \in ToSet(history)
  BY <1>1 DEF ToSet
<1>5. ToSet(Chosen(history, places)) \subseteq ToSet(history)
  BY <1>3, <1>4
<1>. QED  BY <1>2, <1>3, <1>5 DEF IsHistory

LEMMA NearAll ==
  ASSUME NEW history, IsVector(history)
  PROVE  NearEntries(history, Unlimited) = history
<1>. DEFINE n == Len(history)
            f == [i \in {j \in DOMAIN history : Near(history[j], Unlimited)} |-> history[i]]
<1>1. n \in Nat /\ DOMAIN history = 1..n /\ history = [i \in 1..n |-> history[i]]
  BY VectorFacts
<1>2. {j \in DOMAIN history : Near(history[j], Unlimited)} = DOMAIN history
  BY DEF Near
<1>3. DOMAIN f = (0 + 1)..(0 + n) /\ \A i \in 1..n : f[0 + i] = history[i]
  BY <1>1, <1>2
<1>. HIDE DEF f, n
<1>4. InOrder(f) = [i \in 1..n |-> f[0 + i]]
  <2>1. 0 \in Nat /\ n \in Nat
    BY <1>1
  <2>2. DOMAIN f = (0 + 1)..(0 + n)
    BY <1>3
  <2>. QED  BY ONLY <2>1, <2>2, InOrderBlock
<1>5. InOrder(f) = history
  BY <1>1, <1>3, <1>4
<1>. QED  BY <1>5 DEF NearEntries, Chosen, f

AgesOf(entries) == {-entries[i].dt : i \in DOMAIN entries}

\* The entries age by age, the oldest first.
AgeBlocks(entries) ==
  [k \in 1..Cardinality(AgesOf(entries)) |->
     OfAge(entries, Place(AgesOf(entries), Cardinality(AgesOf(entries)) - k + 1))]

LEMMA AgesFinite ==
  ASSUME NEW entries, IsHistory(entries)
  PROVE  /\ AgesOf(entries) \in SUBSET Int /\ IsFiniteSet(AgesOf(entries))
         /\ Cardinality(AgesOf(entries)) \in Nat
<1>1. IsVector(entries) /\ \A entry \in ToSet(entries) : entry.dt \in Int
  BY DEF IsHistory, IsEntry
<1>2. \A i \in DOMAIN entries : -entries[i].dt \in Int
  BY <1>1 DEF ToSet
<1>. DEFINE Age == [i \in DOMAIN entries |-> -entries[i].dt]
<1>3. AgesOf(entries) = {Age[i] : i \in DOMAIN entries}
  BY DEF AgesOf
<1>4. Age \in Surjection(DOMAIN entries, AgesOf(entries))
  BY <1>3 DEF Surjection
<1>5. IsFiniteSet(DOMAIN entries)
  BY <1>1, VectorFinite
<1>6. IsFiniteSet(AgesOf(entries))
  BY <1>4, <1>5, FS_Surjection
<1>. QED  BY <1>2, <1>6, FS_CardinalityType DEF AgesOf

LEMMA OfAgeVector ==
  ASSUME NEW entries, IsVector(entries), NEW age
  PROVE  /\ IsVector(OfAge(entries, age))
         /\ ToSet(OfAge(entries, age)) = {entry \in ToSet(entries) : -entry.dt = age}
<1>. DEFINE places == {i \in DOMAIN entries : -entries[i].dt = age}
<1>1. places \in SUBSET DOMAIN entries
  OBVIOUS
<1>2. OfAge(entries, age) = Chosen(entries, places)
  BY DEF OfAge
<1>3. {entries[n] : n \in places} = {entry \in ToSet(entries) : -entry.dt = age}
  BY DEF ToSet
<1>. HIDE DEF places
<1>4. IsVector(Chosen(entries, places)) /\ ToSet(Chosen(entries, places)) = {entries[n] : n \in places}
  BY <1>1, ChosenVector
<1>. QED  BY <1>2, <1>3, <1>4

LEMMA OldestFlat ==
  ASSUME NEW entries, IsHistory(entries)
  PROVE  OldestFirst(entries) = FlattenSeq(AgeBlocks(entries))
<1>. DEFINE ages == AgesOf(entries)
            n == Cardinality(ages)
            byAge == [age \in ages |-> OfAge(entries, age)]
            oldest == InOrder(byAge)
<1>1. ages \in SUBSET Int /\ IsFiniteSet(ages) /\ n \in Nat
  BY AgesFinite
<1>2. oldest = [k \in 1..n |-> byAge[Place(ages, k)]]
  BY DEF InOrder
<1>3. \A k \in 1..n : Place(ages, k) \in ages
  BY <1>1, PlacesInOrder
<1>4. \A k \in 1..n : oldest[k] = OfAge(entries, Place(ages, k))
  BY <1>2, <1>3
<1>5. Len(oldest) = n /\ DOMAIN oldest = 1..n
  <2>1. oldest \in [1..n -> {oldest[k] : k \in 1..n}]
    BY <1>2
  <2>. QED  BY <1>1, <2>1, SeqOfLength
<1>6. Reverse(oldest) = [k \in 1..n |-> oldest[(n - k) + 1]]
  BY <1>5 DEF Reverse
<1>. HIDE DEF oldest, n
<1>7. \A k \in 1..n : (n - k) + 1 \in 1..n /\ (n - k) + 1 = n - k + 1
  BY <1>1
<1>8. Reverse(oldest) = [k \in 1..n |-> OfAge(entries, Place(ages, n - k + 1))]
  BY <1>4, <1>6, <1>7
<1>9. Reverse(oldest) = AgeBlocks(entries)
  BY <1>8 DEF AgeBlocks, n
<1>10. OldestFirst(entries) = FlattenSeq(Reverse(oldest))
  BY DEF OldestFirst, oldest, AgesOf
<1>. QED  BY <1>9, <1>10

LEMMA AgeBlocksAre ==
  ASSUME NEW entries, IsHistory(entries)
  PROVE  /\ DOMAIN AgeBlocks(entries) = 1..Cardinality(AgesOf(entries))
         /\ \A k \in 1..Cardinality(AgesOf(entries)) :
              /\ IsVector(AgeBlocks(entries)[k])
              /\ \E age \in AgesOf(entries) : AgeBlocks(entries)[k] = OfAge(entries, age)
         /\ \A age \in AgesOf(entries) : \E k \in 1..Cardinality(AgesOf(entries)) :
              /\ AgeBlocks(entries)[k] = OfAge(entries, age)
              /\ \A j \in 1..Cardinality(AgesOf(entries)) : j # k =>
                   \E other \in AgesOf(entries) :
                     other # age /\ AgeBlocks(entries)[j] = OfAge(entries, other)
<1>. DEFINE ages == AgesOf(entries)
            n == Cardinality(ages)
            b == AgeBlocks(entries)
<1>1. ages \in SUBSET Int /\ IsFiniteSet(ages) /\ n \in Nat
  BY AgesFinite
<1>2. /\ \A k \in 1..n : Place(ages, k) \in ages
      /\ \A j, k \in 1..n : j < k => Place(ages, j) < Place(ages, k)
  BY <1>1, PlacesInOrder
<1>3. b = [k \in 1..n |-> OfAge(entries, Place(ages, n - k + 1))]
  BY DEF AgeBlocks
<1>4. \A age \in ages : \E k \in 1..n : Place(ages, k) = age
  BY <1>1, EachHasPlace
<1>5. IsVector(entries)
  BY DEF IsHistory
<1>. HIDE DEF b, n, ages
<1>6. \A k \in 1..n : n - k + 1 \in 1..n
  BY <1>1
<1>7. ASSUME NEW k \in 1..n
      PROVE  IsVector(b[k]) /\ \E age \in ages : b[k] = OfAge(entries, age)
  <2>1. b[k] = OfAge(entries, Place(ages, n - k + 1)) /\ Place(ages, n - k + 1) \in ages
    BY <1>2, <1>3, <1>6
  <2>. QED  BY <1>5, <2>1, OfAgeVector
<1>8. ASSUME NEW age \in ages
      PROVE  \E k \in 1..n :
               /\ b[k] = OfAge(entries, age)
               /\ \A j \in 1..n : j # k =>
                    \E other \in ages : other # age /\ b[j] = OfAge(entries, other)
  <2>1. PICK m \in 1..n : Place(ages, m) = age
    BY <1>4
  <2>. DEFINE k == n - m + 1
  <2>2. k \in 1..n /\ n - k + 1 = m
    BY <1>1
  <2>. HIDE DEF k
  <2>3. b[k] = OfAge(entries, age)
    BY <1>3, <2>1, <2>2
  <2>4. ASSUME NEW j \in 1..n, j # k
        PROVE  \E other \in ages : other # age /\ b[j] = OfAge(entries, other)
    <3>. DEFINE i == n - j + 1
    <3>1. i \in 1..n /\ i # m
      BY <1>1, <2>2, <2>4
    <3>2. b[j] = OfAge(entries, Place(ages, i))
      BY <1>3
    <3>. HIDE DEF i
    <3>3. Place(ages, i) \in ages /\ Place(ages, i) \in Int /\ age \in Int
      BY <1>1, <1>2, <3>1
    <3>4. Place(ages, i) # age
      <4>1. i < m \/ m < i
        BY <3>1
      <4>2. Place(ages, i) < Place(ages, m) \/ Place(ages, m) < Place(ages, i)
        BY <1>2, <3>1, <4>1
      <4>. QED  BY <2>1, <3>3, <4>2
    <3>. QED  BY <3>2, <3>3, <3>4
  <2>. QED  BY <2>2, <2>3, <2>4
<1>. QED  BY <1>3, <1>7, <1>8 DEF b, n, ages

\* Putting the oldest first moves entries and loses none.
LEMMA OldestIs ==
  ASSUME NEW entries, IsHistory(entries)
  PROVE  /\ IsHistory(OldestFirst(entries))
         /\ ToSet(OldestFirst(entries)) = ToSet(entries)
         /\ \A age \in AgesOf(entries) : OfAge(OldestFirst(entries), age) = OfAge(entries, age)
<1>. DEFINE ages == AgesOf(entries)
            n == Cardinality(ages)
            b == AgeBlocks(entries)
            x == OldestFirst(entries)
<1>1. IsVector(entries)
  BY DEF IsHistory
<1>2. /\ DOMAIN b = 1..n
      /\ \A k \in 1..n : IsVector(b[k]) /\ \E age \in ages : b[k] = OfAge(entries, age)
      /\ \A age \in ages : \E k \in 1..n :
           /\ b[k] = OfAge(entries, age)
           /\ \A j \in 1..n : j # k =>
                \E other \in ages : other # age /\ b[j] = OfAge(entries, other)
  BY AgeBlocksAre
<1>3. n \in Nat /\ b = [k \in 1..n |-> b[k]]
  BY AgesFinite DEF AgeBlocks
<1>4. x = FlattenSeq(b)
  BY OldestFlat
<1>5. \A age : /\ IsVector(OfAge(entries, age))
               /\ ToSet(OfAge(entries, age)) = {entry \in ToSet(entries) : -entry.dt = age}
  BY <1>1, OfAgeVector
<1>6. \A entry \in ToSet(entries) : -entry.dt \in ages
  BY DEF AgesOf, ToSet
<1>. HIDE DEF b, n, x, ages
<1>7. /\ IsVector(x) /\ ToSet(x) = UNION {ToSet(b[k]) : k \in 1..n}
  <2>1. \A k \in 1..n : IsVector(b[k])
    BY <1>2
  <2>. QED  BY ONLY <1>2, <1>3, <1>4, <2>1, FlattenedVectors
<1>8. ToSet(x) = ToSet(entries)
  <2>1. \A k \in 1..n : ToSet(b[k]) \subseteq ToSet(entries)
    BY <1>2, <1>5
  <2>2. ASSUME NEW entry \in ToSet(entries)
        PROVE  \E k \in 1..n : entry \in ToSet(b[k])
    <3>1. -entry.dt \in ages
      BY <1>6
    <3>2. PICK k \in 1..n : b[k] = OfAge(entries, -entry.dt)
      BY <1>2, <3>1
    <3>. QED  BY <1>5, <3>2
  <2>. QED  BY <1>7, <2>1, <2>2
<1>9. IsHistory(x)
  BY <1>7, <1>8 DEF IsHistory
<1>. DEFINE T == UNION {ToSet(b[k]) : k \in 1..n}
<1>10. b \in Seq(Seq(T)) /\ Len(b) = n
  <2>1. \A k \in 1..n : IsVector(b[k])
    BY <1>2
  <2>. QED  BY ONLY <1>2, <1>3, <2>1, VectorsNested
<1>. HIDE DEF T
<1>11. ASSUME NEW age \in ages
       PROVE  OfAge(x, age) = OfAge(entries, age)
  <2>1. PICK k \in 1..n :
           /\ b[k] = OfAge(entries, age)
           /\ \A j \in 1..n : j # k =>
                \E other \in ages : other # age /\ b[j] = OfAge(entries, other)
    BY <1>2
  <2>. DEFINE C == {entry \in ToSet(entries) : -entry.dt = age}
  <2>2. \A i \in 1..Len(b[k]) : b[k][i] \in C
    <3>1. ToSet(b[k]) = C /\ IsVector(b[k])
      BY <1>5, <2>1
    <3>. HIDE DEF C
    <3>. QED  BY <3>1, VectorFacts
  <2>3. \A j \in 1..n : j # k => \A i \in 1..Len(b[j]) : b[j][i] \notin C
    <3>1. SUFFICES ASSUME NEW j \in 1..n, j # k, NEW i \in 1..Len(b[j])
                   PROVE  b[j][i] \notin C
      OBVIOUS
    <3>2. PICK other \in ages : other # age /\ b[j] = OfAge(entries, other)
      BY <2>1, <3>1
    <3>3. IsVector(b[j]) /\ ToSet(b[j]) = {entry \in ToSet(entries) : -entry.dt = other}
      BY <1>5, <3>2
    <3>4. b[j][i] \in ToSet(b[j])
      BY <3>1, <3>3, VectorFacts
    <3>5. -b[j][i].dt = other
      BY <3>3, <3>4
    <3>. QED  BY <3>2, <3>5
  <2>. HIDE DEF C
  <2>4. Chosen(FlattenSeq(b), {p \in DOMAIN FlattenSeq(b) : FlattenSeq(b)[p] \in C}) = b[k]
    <3>1. k \in 1..Len(b) /\ \A j \in 1..Len(b) : j # k => \A i \in 1..Len(b[j]) : b[j][i] \notin C
      BY <1>10, <2>3
    <3>. QED  BY ONLY <1>10, <2>2, <3>1, BlockChosen
  <2>5. \A p \in DOMAIN x : x[p] \in C <=> -x[p].dt = age
    <3>1. \A p \in DOMAIN x : x[p] \in ToSet(entries)
      BY <1>8 DEF ToSet
    <3>. QED  BY <3>1 DEF C
  <2>6. {p \in DOMAIN x : x[p] \in C} = {p \in DOMAIN x : -x[p].dt = age}
    BY <2>5
  <2>. QED  BY <1>4, <2>1, <2>4, <2>6 DEF OfAge
<1>. QED  BY <1>8, <1>9, <1>11 DEF ages, x

LEMMA OldestAgain ==
  ASSUME NEW entries, IsHistory(entries)
  PROVE  OldestFirst(OldestFirst(entries)) = OldestFirst(entries)
<1>. DEFINE x == OldestFirst(entries)
            ages == AgesOf(entries)
<1>1. /\ ToSet(x) = ToSet(entries)
      /\ \A age \in ages : OfAge(x, age) = OfAge(entries, age)
  BY OldestIs
<1>2. \A e : AgesOf(e) = {-entry.dt : entry \in ToSet(e)}
  BY DEF AgesOf, ToSet
<1>3. OldestFirst(x) = FlattenSeq(Reverse(InOrder([age \in AgesOf(x) |-> OfAge(x, age)])))
  BY DEF OldestFirst, AgesOf
<1>4. x = FlattenSeq(Reverse(InOrder([age \in ages |-> OfAge(entries, age)])))
  BY DEF OldestFirst, AgesOf
<1>. HIDE DEF x, ages
<1>5. AgesOf(x) = ages
  BY <1>1, <1>2 DEF ages
<1>6. [age \in AgesOf(x) |-> OfAge(x, age)] = [age \in ages |-> OfAge(entries, age)]
  BY <1>1, <1>5
<1>7. OldestFirst(x) = x
  BY <1>3, <1>4, <1>6
<1>. QED  BY <1>7 DEF x

\* The history that views hand over is in order already.
LEMMA OrderedOnce ==
  ASSUME NEW history, IsHistory(history), NEW max_steps
  PROVE  /\ IsHistory(OrderedHistory(history, max_steps))
         /\ ToSet(OrderedHistory(history, max_steps)) = ToSet(NearEntries(history, max_steps))
         /\ ToSet(OrderedHistory(history, max_steps)) \subseteq ToSet(history)
         /\ OrderedHistory(OrderedHistory(history, max_steps), Unlimited)
              = OrderedHistory(history, max_steps)
<1>. DEFINE near == NearEntries(history, max_steps)
            x == OldestFirst(near)
<1>1. IsHistory(near) /\ ToSet(near) \subseteq ToSet(history)
  BY NearVector
<1>. HIDE DEF near
<1>2. IsHistory(x) /\ ToSet(x) = ToSet(near) /\ OldestFirst(x) = x
  BY <1>1, OldestIs, OldestAgain
<1>3. NearEntries(x, Unlimited) = x
  <2>1. IsVector(x)
    BY <1>2 DEF IsHistory
  <2>. QED  BY ONLY <2>1, NearAll
<1>4. OrderedHistory(history, max_steps) = x /\ OrderedHistory(x, Unlimited) = x
  BY <1>2, <1>3 DEF OrderedHistory, near
<1>. QED  BY <1>1, <1>2, <1>4 DEF near

-----------------------------------------------------------------------------
(***************************************************************************)
(* Goals as written: layer by layer, each at the highest of its levels.    *)
(***************************************************************************)
WrittenLayers(layers) ==
  [l \in DOMAIN layers |->
     [i \in DOMAIN layers[l] |-> [literal |-> layers[l][i], level |-> l - 1]]]

LEMMA LayersFacts ==
  ASSUME NEW layers, AreLayers(layers)
  PROVE  /\ Len(layers) \in Nat /\ DOMAIN layers = 1..Len(layers)
         /\ layers = [l \in 1..Len(layers) |-> layers[l]]
         /\ \A l \in 1..Len(layers) :
              /\ layers[l] \in ToSet(layers) /\ AreLiterals(layers[l]) /\ IsVector(layers[l])
              /\ Len(layers[l]) \in Nat /\ DOMAIN layers[l] = 1..Len(layers[l])
<1>1. /\ Len(layers) \in Nat /\ DOMAIN layers = 1..Len(layers)
      /\ layers = [l \in 1..Len(layers) |-> layers[l]]
      /\ \A l \in 1..Len(layers) : layers[l] \in ToSet(layers)
  BY VectorFacts DEF AreLayers
<1>2. \A l \in 1..Len(layers) : AreLiterals(layers[l])
  BY <1>1 DEF AreLayers
<1>3. \A l \in 1..Len(layers) : IsVector(layers[l])
  BY <1>2 DEF AreLiterals
<1>4. \A l \in 1..Len(layers) : Len(layers[l]) \in Nat /\ DOMAIN layers[l] = 1..Len(layers[l])
  BY <1>3, VectorFacts
<1>. QED  BY <1>1, <1>2, <1>3, <1>4

WrittenAt(layers, p) ==
  \E l \in 1..Len(layers) : \E i \in 1..Len(layers[l]) :
    /\ FlattenSeq(layers)[p] = layers[l][i]
    /\ WrittenGoals(layers)[p] = [literal |-> layers[l][i], level |-> l - 1]

LEMMA WrittenRows ==
  ASSUME NEW layers, AreLayers(layers), NEW l \in 1..Len(layers)
  PROVE  /\ IsVector(WrittenLayers(layers)[l])
         /\ Len(WrittenLayers(layers)[l]) = Len(layers[l])
         /\ \A i \in 1..Len(layers[l]) :
              WrittenLayers(layers)[l][i] = [literal |-> layers[l][i], level |-> l - 1]
         /\ ToSet(WrittenLayers(layers)[l]) = {[literal |-> layers[l][i], level |-> l - 1] : i \in 1..Len(layers[l])}
<1>. DEFINE row == [i \in DOMAIN layers[l] |-> [literal |-> layers[l][i], level |-> l - 1]]
<1>1. DOMAIN layers[l] = 1..Len(layers[l]) /\ Len(layers[l]) \in Nat /\ l \in DOMAIN layers
  BY LayersFacts
<1>2. WrittenLayers(layers)[l] = row
  BY <1>1 DEF WrittenLayers
<1>3. DOMAIN row = 1..Len(layers[l]) /\ row = [i \in 1..Len(layers[l]) |-> row[i]]
  BY <1>1
<1>4. \A i \in 1..Len(layers[l]) : row[i] = [literal |-> layers[l][i], level |-> l - 1]
  BY <1>1
<1>. HIDE DEF row
<1>5. IsVector(row) /\ ToSet(row) = {row[i] : i \in 1..Len(layers[l])} /\ Len(row) = Len(layers[l])
  BY <1>1, <1>3, VectorOf
<1>6. {row[i] : i \in 1..Len(layers[l])}
        = {[literal |-> layers[l][i], level |-> l - 1] : i \in 1..Len(layers[l])}
  BY <1>4
<1>. QED  BY <1>2, <1>4, <1>5, <1>6

LEMMA WrittenPlaces ==
  ASSUME NEW layers, AreLayers(layers)
  PROVE  /\ IsVector(FlattenSeq(layers)) /\ IsVector(WrittenGoals(layers))
         /\ Len(FlattenSeq(layers)) = Len(WrittenGoals(layers))
         /\ \A p \in 1..Len(FlattenSeq(layers)) : WrittenAt(layers, p)
         /\ \A l \in 1..Len(layers) : \A i \in 1..Len(layers[l]) :
              [literal |-> layers[l][i], level |-> l - 1] \in ToSet(WrittenGoals(layers))
<1>. DEFINE n == Len(layers)
            t == WrittenLayers(layers)
            T == UNION {ToSet(layers[l]) : l \in 1..n}
            U == UNION {ToSet(t[l]) : l \in 1..n}
<1>1. /\ n \in Nat /\ DOMAIN layers = 1..n /\ layers = [l \in 1..n |-> layers[l]]
      /\ \A l \in 1..n : IsVector(layers[l])
  BY LayersFacts
<1>2. DOMAIN t = 1..n /\ t = [l \in 1..n |-> t[l]]
  BY <1>1 DEF WrittenLayers
<1>3. \A l \in 1..n : IsVector(t[l]) /\ Len(t[l]) = Len(layers[l])
  BY WrittenRows
<1>4. FlattenSeq(t) = WrittenGoals(layers)
  BY DEF WrittenGoals, WrittenLayers
<1>. HIDE DEF n, t
<1>5. layers \in Seq(Seq(T)) /\ Len(layers) = n
  BY <1>1, VectorsNested
<1>6. t \in Seq(Seq(U)) /\ Len(t) = n
  BY <1>1, <1>2, <1>3, VectorsNested
<1>. HIDE DEF T, U
<1>7. Len(layers) = Len(t) /\ \A l \in 1..Len(layers) : Len(layers[l]) = Len(t[l])
  BY <1>3, <1>5, <1>6
<1>8. /\ Len(FlattenSeq(layers)) = Len(FlattenSeq(t))
      /\ \A p \in 1..Len(FlattenSeq(layers)) : AlignedAt(layers, t, p)
  BY <1>5, <1>6, <1>7, AlignedFlat
<1>9. IsVector(FlattenSeq(layers))
  BY <1>1, FlattenedVectors
<1>10. /\ IsVector(FlattenSeq(t))
       /\ ToSet(FlattenSeq(t)) = UNION {ToSet(t[i]) : i \in 1..n}
  BY <1>1, <1>2, <1>3, FlattenedVectors
<1>11. ASSUME NEW p \in 1..Len(FlattenSeq(layers))
       PROVE  WrittenAt(layers, p)
  <2>1. PICK l \in 1..Len(layers) : \E i \in 1..Len(layers[l]) :
               FlattenSeq(layers)[p] = layers[l][i] /\ FlattenSeq(t)[p] = t[l][i]
    BY <1>8 DEF AlignedAt
  <2>2. PICK i \in 1..Len(layers[l]) :
               FlattenSeq(layers)[p] = layers[l][i] /\ FlattenSeq(t)[p] = t[l][i]
    BY <2>1
  <2>3. t[l][i] = [literal |-> layers[l][i], level |-> l - 1]
    BY WrittenRows DEF t
  <2>. QED  BY <1>4, <2>2, <2>3 DEF WrittenAt
<1>12. ASSUME NEW l \in 1..Len(layers), NEW i \in 1..Len(layers[l])
       PROVE  [literal |-> layers[l][i], level |-> l - 1] \in ToSet(FlattenSeq(t))
  <2>1. [literal |-> layers[l][i], level |-> l - 1] \in ToSet(t[l])
    BY WrittenRows DEF t
  <2>. QED  BY <1>5, <1>10, <2>1
<1>. QED  BY <1>4, <1>8, <1>9, <1>10, <1>11, <1>12

\* The levels that a goal is written at.
LevelsOf(goals, literal) ==
  {goals[j].level : j \in {k \in DOMAIN goals : goals[k].literal = literal}}

LEMMA HighestAgree ==
  ASSUME NEW layers, AreLayers(layers)
  PROVE  HighestLevels(WrittenGoals(layers)) = PreparedGoals(layers)
<1>. DEFINE goals == WrittenGoals(layers)
            ordered == FlattenSeq(layers)
            n == Len(ordered)
            m == Len(layers)
<1>1. /\ IsVector(ordered) /\ IsVector(goals) /\ Len(goals) = n
      /\ \A p \in 1..n : WrittenAt(layers, p)
      /\ \A l \in 1..m : \A i \in 1..Len(layers[l]) :
           [literal |-> layers[l][i], level |-> l - 1] \in ToSet(goals)
  BY WrittenPlaces
<1>2. n \in Nat /\ DOMAIN ordered = 1..n /\ DOMAIN goals = 1..n
  BY <1>1, VectorFacts
<1>3. m \in Nat /\ DOMAIN layers = 1..m
      /\ \A l \in 1..m : DOMAIN layers[l] = 1..Len(layers[l])
  BY LayersFacts
<1>4. \A p \in 1..n : \E l \in 1..m : \E i \in 1..Len(layers[l]) :
        /\ ordered[p] = layers[l][i]
        /\ goals[p] = [literal |-> layers[l][i], level |-> l - 1]
  BY <1>1 DEF WrittenAt
<1>. HIDE DEF goals, ordered, n, m
<1>5. ASSUME NEW p \in 1..n
      PROVE  goals[p].literal = ordered[p] /\ goals[p].level \in 0..(m - 1)
  <2>1. PICK l \in 1..m : \E i \in 1..Len(layers[l]) :
          /\ ordered[p] = layers[l][i]
          /\ goals[p] = [literal |-> layers[l][i], level |-> l - 1]
    BY <1>4
  <2>2. goals[p].literal = ordered[p] /\ goals[p].level = l - 1
    BY <2>1
  <2>. QED  BY <1>3, <2>2
<1>6. ASSUME NEW p \in 1..n
      PROVE  Max(LevelsOf(goals, ordered[p])) = GoalLevel(layers, ordered[p])
  <2>. DEFINE A == LevelsOf(goals, ordered[p])
              B == {l - 1 : l \in {k \in DOMAIN layers : ordered[p] \in ToSet(layers[k])}}
  <2>1. ASSUME NEW j \in 1..n, goals[j].literal = ordered[p]
        PROVE  goals[j].level \in B
    <3>1. PICK l \in 1..m : \E i \in 1..Len(layers[l]) :
            /\ ordered[j] = layers[l][i]
            /\ goals[j] = [literal |-> layers[l][i], level |-> l - 1]
      BY <1>4
    <3>2. goals[j].literal \in ToSet(layers[l]) /\ goals[j].level = l - 1
      BY <1>3, <3>1 DEF ToSet
    <3>. QED  BY <1>3, <2>1, <3>2
  <2>2. A \subseteq B
    BY <1>2, <2>1 DEF LevelsOf
  <2>3. ASSUME NEW l \in 1..m, ordered[p] \in ToSet(layers[l])
        PROVE  l - 1 \in A
    <3>1. PICK i \in 1..Len(layers[l]) : layers[l][i] = ordered[p]
      BY <1>3, <2>3 DEF ToSet
    <3>2. [literal |-> layers[l][i], level |-> l - 1] \in ToSet(goals)
      BY <1>1
    <3>3. PICK j \in DOMAIN goals : goals[j] = [literal |-> layers[l][i], level |-> l - 1]
      BY <3>2 DEF ToSet
    <3>4. goals[j].literal = ordered[p] /\ goals[j].level = l - 1
      BY <3>1, <3>3
    <3>. QED  BY <3>4 DEF LevelsOf
  <2>4. B \subseteq A
    BY <1>3, <2>3
  <2>5. A \subseteq 0..m /\ A # {}
    <3>1. p \in DOMAIN goals /\ goals[p].literal = ordered[p]
      BY <1>2, <1>5
    <3>2. goals[p].level \in A
      BY <3>1 DEF LevelsOf
    <3>3. A \subseteq 0..m
      BY <1>2, <1>3, <1>5 DEF LevelsOf
    <3>. QED  BY <3>2, <3>3
  <2>6. GoalLevel(layers, ordered[p]) = Max({0} \cup B)
    BY DEF GoalLevel
  <2>. HIDE DEF A, B
  <2>7. Max({0} \cup A) = Max(A)
    BY <1>3, <2>5, GreatestIs
  <2>8. A = B
    BY <2>2, <2>4
  <2>. QED  BY <2>6, <2>7, <2>8 DEF A
<1>7. ASSUME NEW p \in 1..n
      PROVE  [goals[p] EXCEPT !.level =
                Max({goals[j].level : j \in {k \in DOMAIN goals : goals[k].literal = goals[p].literal}})]
               = [literal |-> ordered[p], level |-> GoalLevel(layers, ordered[p])]
  <2>1. \E l \in 1..m : \E i \in 1..Len(layers[l]) : goals[p] = [literal |-> layers[l][i], level |-> l - 1]
    BY <1>4
  <2>2. \E x, y : goals[p] = [literal |-> x, level |-> y]
    BY <2>1
  <2>3. Max({goals[j].level : j \in {k \in DOMAIN goals : goals[k].literal = goals[p].literal}})
          = GoalLevel(layers, ordered[p])
    BY <1>5, <1>6 DEF LevelsOf
  <2>. DEFINE g == GoalLevel(layers, ordered[p])
  <2>. HIDE DEF g
  <2>4. [goals[p] EXCEPT !.level = g] = [literal |-> ordered[p], level |-> g]
    BY <1>5, <2>2
  <2>. QED  BY <2>3, <2>4 DEF g
<1>8. HighestLevels(goals) = [p \in 1..n |-> [literal |-> ordered[p], level |-> GoalLevel(layers, ordered[p])]]
  BY <1>2, <1>7 DEF HighestLevels
<1>9. PreparedGoals(layers) = [p \in 1..n |-> [literal |-> ordered[p], level |-> GoalLevel(layers, ordered[p])]]
  BY <1>2 DEF PreparedGoals, ordered
<1>. QED  BY <1>8, <1>9 DEF goals
==============================================================================
