------------------------ MODULE LookaheadGraphs_proofs ------------------------
(***************************************************************************)
(* For any states, actions, labels, calls and rustworkx graphs: a dag is   *)
(* well formed and has one node per state after every step of every call,  *)
(* and no call takes anything back.  The dag that an import fills is kept  *)
(* in the invariant because it becomes the caller's.                       *)
(***************************************************************************)
EXTENDS LookaheadGraphs, FiniteSetTheorems, WellFoundedInduction, TLAPS

DagOK(g) == DagTyped(g) /\ OneNodePerState(g)

-----------------------------------------------------------------------------
(***************************************************************************)
(* Finding a node.                                                         *)
(***************************************************************************)
LEMMA IndexFinds ==
  ASSUME NEW g, NEW s, contains(g, s)
  PROVE  index(g, s) \in Positions(g) /\ g.nodes[index(g, s)].state = s
<1>1. PICK i \in Positions(g) : g.nodes[i].state = s  BY DEF contains, Known
<1>2. \E n \in Positions(g) : g.nodes[n].state = s  BY <1>1
<1> HIDE DEF Positions
<1> QED  BY <1>2 DEF index

LEMMA LabelsOfNode ==
  ASSUME NEW g, DagTyped(g), NEW i \in Positions(g)
  PROVE  /\ g.nodes[i] \in DagNodes
         /\ g.nodes[i].labels \in Labels
         /\ g.nodes[i].state \in States
<1>1. g.nodes \in Seq(DagNodes)  BY DEF DagTyped
<1>2. g.nodes[i] \in DagNodes  BY <1>1 DEF Positions
<1> QED  BY <1>2 DEF DagNodes

LEMMA RowsOfDag ==
  ASSUME NEW g, DagTyped(g), NEW i \in Positions(g)
  PROVE  g.adjacency[i] \in Seq(Positions(g))
<1>1. g.adjacency \in Seq(Seq(Positions(g)))  BY DEF DagTyped
<1>2. i \in DOMAIN g.adjacency  BY DEF DagTyped
<1> QED  BY <1>1, <1>2

LEMMA PositionsAreInitial ==
  ASSUME NEW g, DagTyped(g)
  PROVE  /\ Len(g.nodes) \in Nat \ {0}
         /\ Positions(g) = 1..Len(g.nodes)
         /\ Len(g.adjacency) = Len(g.nodes)
<1>1. g.nodes \in Seq(DagNodes) /\ g.nodes # <<>>  BY DEF DagTyped
<1>2. Positions(g) = 1..Len(g.nodes)  BY <1>1 DEF Positions
<1>3. g.adjacency \in Seq(Seq(Positions(g))) /\ DOMAIN g.adjacency = Positions(g)
  BY DEF DagTyped
<1>4. 1..Len(g.adjacency) = 1..Len(g.nodes)  BY <1>2, <1>3
<1> QED  BY <1>1, <1>2, <1>3, <1>4

LEMMA Appended ==
  ASSUME NEW S, NEW q \in Seq(S), NEW e \in S
  PROVE  /\ Append(q, e) \in Seq(S)
         /\ Len(Append(q, e)) = Len(q) + 1
         /\ DOMAIN Append(q, e) = 1..(Len(q) + 1)
         /\ \A i \in 1..Len(q) : Append(q, e)[i] = q[i]
         /\ Append(q, e)[Len(q) + 1] = e
OBVIOUS

LEMMA Changed ==
  ASSUME NEW S, NEW q \in Seq(S), NEW p \in 1..Len(q), NEW e \in S
  PROVE  /\ [q EXCEPT ![p] = e] \in Seq(S)
         /\ Len([q EXCEPT ![p] = e]) = Len(q)
         /\ \A i \in 1..Len(q) : i # p => [q EXCEPT ![p] = e][i] = q[i]
         /\ [q EXCEPT ![p] = e][p] = e
OBVIOUS

LEMMA Retyped ==
  ASSUME NEW S, NEW T, NEW q \in Seq(S), \A i \in 1..Len(q) : q[i] \in T
  PROVE  q \in Seq(T)
OBVIOUS

LEMMA HeadAndTail ==
  ASSUME NEW S, NEW q \in Seq(S), q # <<>>
  PROVE  Head(q) \in S /\ Tail(q) \in Seq(S)
OBVIOUS

LEMMA RowsOfMore ==
  ASSUME NEW m \in Nat, NEW n \in Nat, m <= n, NEW row \in Seq(1..m)
  PROVE  row \in Seq(1..n)
OBVIOUS

LEMMA FilledIsLabels ==
  ASSUME NEW known \in Labels, NEW given \in Labels
  PROVE  FilledLabels(known, given) \in Labels
BY DEF FilledLabels, Filled, Labels

LEMMA FilledKeeps ==
  ASSUME NEW known \in Labels, NEW given \in Labels, NEW field \in DOMAIN NoLabels
  PROVE  known[field] \in {None, FilledLabels(known, given)[field]}
<1>1. field \in {"action", "candidate_id", "delta"}  BY DEF NoLabels
<1>2. CASE field = "action"        BY <1>2 DEF FilledLabels, Filled
<1>3. CASE field = "candidate_id"  BY <1>3 DEF FilledLabels, Filled
<1>4. CASE field = "delta"         BY <1>4 DEF FilledLabels, Filled
<1> QED  BY <1>1, <1>2, <1>3, <1>4

-----------------------------------------------------------------------------
(***************************************************************************)
(* Extends is reflexive and transitive.                                    *)
(***************************************************************************)
LEMMA ExtendsSelf ==
  ASSUME NEW g, DagTyped(g)
  PROVE  Extends(g, g)
BY SMTT(30) DEF Extends, DagTyped, Positions

LEMMA ExtendsTransitive ==
  ASSUME NEW g, NEW h, NEW k,
         DagTyped(g), DagTyped(h), DagTyped(k), Extends(h, g), Extends(k, h)
  PROVE  Extends(k, g)
<1>1. Positions(g) \subseteq Positions(h)
  BY DEF Extends, DagTyped, Positions
<1>2. Len(g.nodes) <= Len(k.nodes)
  <2>1. Len(g.nodes) \in Nat /\ Len(h.nodes) \in Nat /\ Len(k.nodes) \in Nat
    BY DEF DagTyped
  <2> QED  BY <2>1 DEF Extends
<1>3. ASSUME NEW i \in Positions(g)
      PROVE  /\ g.nodes[i].state = k.nodes[i].state
             /\ \A field \in DOMAIN NoLabels :
                  g.nodes[i].labels[field] \in {None, k.nodes[i].labels[field]}
             /\ \A n \in DOMAIN g.adjacency[i] :
                  /\ n \in DOMAIN k.adjacency[i]
                  /\ k.adjacency[i][n] = g.adjacency[i][n]
  BY <1>1, <1>3, SMTT(30) DEF Extends
<1> QED  BY <1>2, <1>3 DEF Extends

-----------------------------------------------------------------------------
(***************************************************************************)
(* get_or_add_node.                                                        *)
(***************************************************************************)
LEMMA WithNodeOK ==
  ASSUME NEW g, DagOK(g), NEW s \in States, NEW labels \in Labels
  PROVE  /\ DagOK(WithNode(g, s, labels))
         /\ Extends(WithNode(g, s, labels), g)
         /\ contains(WithNode(g, s, labels), s)
<1> DEFINE h == WithNode(g, s, labels)
<1>0. DagTyped(g) /\ OneNodePerState(g)  BY DEF DagOK
<1>1. /\ Len(g.nodes) \in Nat \ {0}
      /\ Positions(g) = 1..Len(g.nodes)
      /\ Len(g.adjacency) = Len(g.nodes)
      /\ g.nodes \in Seq(DagNodes)
      /\ g.adjacency \in Seq(Seq(Positions(g)))
  BY <1>0, PositionsAreInitial DEF DagTyped
<1>2. CASE contains(g, s)
  <2> DEFINE p == index(g, s)
             changed == FilledLabels(g.nodes[p].labels, labels)
             node == [g.nodes[p] EXCEPT !.labels = changed]
             nodes == [g.nodes EXCEPT ![p] = node]
  <2>1. p \in 1..Len(g.nodes) /\ g.nodes[p].state = s  BY <1>1, <1>2, IndexFinds
  <2>2. g.nodes[p].labels \in Labels /\ g.nodes[p] \in DagNodes
    BY <1>0, <1>1, <2>1, LabelsOfNode
  <2>3. changed \in Labels  BY <2>2, FilledIsLabels
  <2> HIDE DEF p
  <2>4. h = [g EXCEPT !.nodes = nodes]
    BY <1>2, <1>1, <2>1, <2>2 DEF WithNode, p, DagNodes
  <2> HIDE DEF changed
  <2>a. node \in DagNodes /\ node.state = g.nodes[p].state /\ node.labels = changed
    BY <2>2, <2>3 DEF DagNodes
  <2> HIDE DEF node
  <2>5. /\ nodes \in Seq(DagNodes)
        /\ Len(nodes) = Len(g.nodes)
        /\ \A i \in 1..Len(g.nodes) : nodes[i].state = g.nodes[i].state
        /\ \A i \in 1..Len(g.nodes) : i # p => nodes[i] = g.nodes[i]
        /\ nodes[p].labels = changed
    BY <1>1, <2>1, <2>a, Changed
  <2> HIDE DEF nodes
  <2>6. h.nodes = nodes /\ h.adjacency = g.adjacency /\ h = [nodes |-> nodes, adjacency |-> g.adjacency]
    BY <1>0, <2>4 DEF DagTyped
  <2> HIDE DEF h
  <2>7. Positions(h) = Positions(g)  BY <1>1, <2>5, <2>6 DEF Positions
  <2>8. DagTyped(h)  BY <1>0, <1>1, <2>5, <2>6, <2>7 DEF DagTyped
  <2>9. OneNodePerState(h)  BY <1>0, <1>1, <2>5, <2>6, <2>7 DEF OneNodePerState
  <2>10. Extends(h, g)
    <3>1. ASSUME NEW i \in Positions(g), NEW field \in DOMAIN NoLabels
          PROVE  g.nodes[i].labels[field] \in {None, h.nodes[i].labels[field]}
      BY <1>1, <2>2, <2>5, <2>6, FilledKeeps DEF changed
    <3> QED  BY <1>1, <2>5, <2>6, <3>1 DEF Extends
  <2>11. contains(h, s)  BY <1>1, <2>1, <2>5, <2>6, <2>7 DEF contains, Known
  <2> QED  BY <2>8, <2>9, <2>10, <2>11 DEF DagOK, h
<1>3. CASE ~contains(g, s)
  <2> DEFINE new == Node(s, -1, labels)
             nodes == Append(g.nodes, new)
             rows == Append(g.adjacency, <<>>)
  <2>1. h = [nodes |-> nodes, adjacency |-> rows]  BY <1>3 DEF WithNode
  <2>2. new \in DagNodes /\ new.state = s  BY DEF Node, DagNodes
  <2> HIDE DEF new
  <2>3. /\ nodes \in Seq(DagNodes)
        /\ Len(nodes) = Len(g.nodes) + 1
        /\ \A i \in 1..Len(g.nodes) : nodes[i] = g.nodes[i]
        /\ nodes[Len(g.nodes) + 1] = new
        /\ nodes # <<>>
        /\ DOMAIN nodes = 1..(Len(g.nodes) + 1)
    <3>1. Len(g.nodes) \in Nat /\ g.nodes \in Seq(DagNodes)  BY <1>1
    <3>2. /\ nodes \in Seq(DagNodes)
          /\ Len(nodes) = Len(g.nodes) + 1
          /\ DOMAIN nodes = 1..(Len(g.nodes) + 1)
          /\ \A i \in 1..Len(g.nodes) : nodes[i] = g.nodes[i]
          /\ nodes[Len(g.nodes) + 1] = new
      BY <3>1, <2>2, Appended
    <3>3. nodes # <<>>
      <4> HIDE DEF nodes
      <4> QED  BY <3>1, <3>2
    <3> QED  BY <3>2, <3>3
  <2>4. /\ g.adjacency \in Seq(Seq(1..(Len(g.nodes) + 1)))
        /\ \A i \in 1..Len(g.nodes) : rows[i] = g.adjacency[i]
        /\ Len(rows) = Len(g.nodes) + 1
    <3>1. \A i \in 1..Len(g.nodes) : g.adjacency[i] \in Seq(1..Len(g.nodes))
      BY <1>1
    <3>2. \A i \in 1..Len(g.nodes) : g.adjacency[i] \in Seq(1..(Len(g.nodes) + 1))
      BY <1>1, <3>1, RowsOfMore
    <3>3. g.adjacency \in Seq(Seq(1..(Len(g.nodes) + 1)))
      BY <1>1, <3>2, Retyped
    <3>4. <<>> \in Seq(1..(Len(g.nodes) + 1))  OBVIOUS
    <3> QED  BY <1>1, <3>3, <3>4, Appended
  <2>5. rows \in Seq(Seq(1..(Len(g.nodes) + 1))) /\ DOMAIN rows = 1..(Len(g.nodes) + 1)
    <3>1. <<>> \in Seq(1..(Len(g.nodes) + 1))  OBVIOUS
    <3> QED  BY <1>1, <2>4, <3>1, Appended
  <2> HIDE DEF nodes, rows
  <2>6. h.nodes = nodes /\ h.adjacency = rows  BY <2>1
  <2>7. Positions(h) = 1..(Len(g.nodes) + 1)  BY <1>1, <2>3, <2>6 DEF Positions
  <2>8. DagTyped(h)  BY <2>1, <2>3, <2>5, <2>6, <2>7 DEF DagTyped
  <2>9. \A i \in Positions(g) : g.nodes[i].state # s  BY <1>3 DEF contains, Known
  <2> HIDE DEF h
  <2> DEFINE n == Len(g.nodes)
  <2>a. /\ n \in Nat
        /\ \A i \in 1..(n + 1) : i \in 1..n \/ i = n + 1
        /\ Positions(g) = 1..n
        /\ \A i \in 1..n : h.nodes[i] = g.nodes[i] /\ h.adjacency[i] = g.adjacency[i]
        /\ h.nodes[n + 1].state = s
        /\ Len(h.nodes) = n + 1
    <3>1. n \in Nat /\ Positions(g) = 1..n  BY <1>1
    <3>2. \A i \in 1..(n + 1) : i \in 1..n \/ i = n + 1  BY <3>1
    <3> QED  BY <3>1, <3>2, <2>2, <2>3, <2>4, <2>6
  <2> HIDE DEF n
  <2>10. OneNodePerState(h)
    <3>1. ASSUME NEW i \in 1..(n + 1), NEW j \in 1..(n + 1),
                 h.nodes[i].state = h.nodes[j].state
          PROVE  i = j
      <4>1. CASE i \in 1..n /\ j \in 1..n
        BY <1>0, <2>a, <3>1, <4>1 DEF OneNodePerState
      <4>2. CASE i = n + 1 \/ j = n + 1
        BY <2>a, <2>9, <3>1, <4>2
      <4> QED  BY <2>a, <4>1, <4>2
    <3> QED  BY <3>1, <2>7 DEF OneNodePerState, n
  <2>11. Extends(h, g)
    <3>1. ASSUME NEW i \in Positions(g)
          PROVE  /\ g.nodes[i].state = h.nodes[i].state
                 /\ \A field \in DOMAIN NoLabels :
                      g.nodes[i].labels[field] \in {None, h.nodes[i].labels[field]}
                 /\ \A k \in DOMAIN g.adjacency[i] :
                      /\ k \in DOMAIN h.adjacency[i]
                      /\ h.adjacency[i][k] = g.adjacency[i][k]
      BY <2>a
    <3>2. Len(g.nodes) <= Len(h.nodes)  BY <2>a DEF n
    <3> QED  BY <3>1, <3>2 DEF Extends
  <2>12. contains(h, s)
    <3>1. n + 1 \in Positions(h)  BY <2>7, <2>a DEF n
    <3> QED  BY <2>a, <3>1 DEF contains, Known
  <2> QED  BY <2>8, <2>10, <2>11, <2>12 DEF DagOK, h
<1> QED  BY <1>2, <1>3

-----------------------------------------------------------------------------
(***************************************************************************)
(* Adding an edge and computing the depths.                                *)
(***************************************************************************)
LEMMA JoinedOK ==
  ASSUME NEW g, DagOK(g), NEW r \in Records, contains(g, r.parent), contains(g, r.child)
  PROVE  DagOK(Joined(g, r)) /\ Extends(Joined(g, r), g)
<1> DEFINE h == Joined(g, r)
           p == index(g, r.parent)
           c == index(g, r.child)
           row == Append(g.adjacency[p], c)
           rows == [g.adjacency EXCEPT ![p] = row]
<1>0. DagTyped(g) /\ OneNodePerState(g)  BY DEF DagOK
<1>1. /\ Len(g.adjacency) = Len(g.nodes)
      /\ g.adjacency \in Seq(Seq(Positions(g)))
      /\ Positions(g) = 1..Len(g.nodes)
  BY <1>0, PositionsAreInitial DEF DagTyped
<1>2. p \in Positions(g) /\ c \in Positions(g)  BY IndexFinds
<1>3. g.adjacency[p] \in Seq(Positions(g))  BY <1>0, <1>2, RowsOfDag
<1> HIDE DEF p, c
<1>4. /\ row \in Seq(Positions(g))
      /\ \A k \in DOMAIN g.adjacency[p] : k \in DOMAIN row /\ row[k] = g.adjacency[p][k]
  BY <1>2, <1>3
<1> HIDE DEF row
<1>5. /\ rows \in Seq(Seq(Positions(g)))
      /\ Len(rows) = Len(g.adjacency)
      /\ \A i \in Positions(g) : i # p => rows[i] = g.adjacency[i]
      /\ rows[p] = row
  BY <1>1, <1>2, <1>4, Changed
<1>6. h = [g EXCEPT !.adjacency = rows]  BY DEF Joined, p, c, row
<1> HIDE DEF rows, h
<1>7. h = [nodes |-> g.nodes, adjacency |-> rows]  BY <1>0, <1>6 DEF DagTyped
<1>8. h.nodes = g.nodes /\ h.adjacency = rows /\ Positions(h) = Positions(g)
  BY <1>7 DEF Positions
<1>9. DOMAIN rows = Positions(g)
  <2>1. DOMAIN rows = 1..Len(rows)  BY <1>5
  <2> QED  BY <2>1, <1>1, <1>5
<1>10. DagTyped(h)
  BY <1>0, <1>5, <1>7, <1>8, <1>9 DEF DagTyped
<1>11. OneNodePerState(h)  BY <1>0, <1>8 DEF OneNodePerState
<1>12. Extends(h, g)
  <2>1. Extends(g, g)  BY <1>0, ExtendsSelf
  <2>2. ASSUME NEW i \in Positions(g), NEW k \in DOMAIN g.adjacency[i]
        PROVE  k \in DOMAIN h.adjacency[i] /\ h.adjacency[i][k] = g.adjacency[i][k]
    BY <1>4, <1>5, <1>8, <2>2
  <2> QED  BY <1>8, <2>1, <2>2 DEF Extends
<1> QED  BY <1>10, <1>11, <1>12 DEF DagOK, h

LEMMA DepthIsInt ==
  ASSUME NEW levels, NEW n \in Nat, NEW i
  PROVE  Depth(levels, n, i) \in Int
<1> DEFINE missed == {k \in 0..(n - 1) : i \notin levels[k]}
<1>1. IsFiniteSet(0..(n - 1))
  <2>1. 0 \in Int /\ n - 1 \in Int  OBVIOUS
  <2> QED  BY <2>1, FS_Interval
<1>2. IsFiniteSet(missed)  BY <1>1, FS_Subset
<1>3. Cardinality(missed) \in Nat  BY <1>2, FS_CardinalityType
<1> HIDE DEF missed
<1>4. Depth(levels, n, i) = IF i \in levels[n] THEN Cardinality(missed) ELSE -1
  BY DEF Depth, missed
<1> QED  BY <1>3, <1>4

LEMMA FinalizedOK ==
  ASSUME NEW g, DagOK(g)
  PROVE  DagOK(Finalized(g)) /\ Extends(Finalized(g), g)
<1> DEFINE levels == Levels(1, PairsOf(g), Len(g.nodes))
           node(i) == [g.nodes[i] EXCEPT !.depth = Depth(levels, Len(g.nodes), i)]
           nodes == [i \in Positions(g) |-> node(i)]
           h == Finalized(g)
<1>0. DagTyped(g) /\ OneNodePerState(g)  BY DEF DagOK
<1>1. Len(g.nodes) \in Nat \ {0} /\ Positions(g) = 1..Len(g.nodes)
  BY <1>0, PositionsAreInitial
<1>2. h = [g EXCEPT !.nodes = nodes]  BY DEF Finalized
<1> HIDE DEF levels, h
<1>3. ASSUME NEW i \in Positions(g)
      PROVE  /\ node(i) \in DagNodes
             /\ node(i).state = g.nodes[i].state
             /\ node(i).labels = g.nodes[i].labels
  <2>1. g.nodes[i] \in DagNodes  BY <1>0, <1>3, LabelsOfNode
  <2>2. Depth(levels, Len(g.nodes), i) \in Int  BY <1>1, DepthIsInt
  <2> QED  BY <2>1, <2>2 DEF DagNodes
<1> HIDE DEF node
<1>4. /\ nodes \in Seq(DagNodes)
      /\ Len(nodes) = Len(g.nodes)
      /\ DOMAIN nodes = Positions(g)
      /\ \A i \in Positions(g) : nodes[i].state = g.nodes[i].state
                               /\ nodes[i].labels = g.nodes[i].labels
  BY <1>1, <1>3
<1> HIDE DEF nodes
<1>5. h = [nodes |-> nodes, adjacency |-> g.adjacency]  BY <1>0, <1>2 DEF DagTyped
<1>6. h.nodes = nodes /\ h.adjacency = g.adjacency /\ Positions(h) = Positions(g)
  BY <1>4, <1>5 DEF Positions
<1>7. nodes # <<>>  BY <1>1, <1>4
<1>8. DagTyped(h)  BY <1>0, <1>4, <1>5, <1>6, <1>7 DEF DagTyped
<1>9. OneNodePerState(h)  BY <1>0, <1>4, <1>6 DEF OneNodePerState
<1>10. Extends(h, g)  BY <1>1, <1>4, <1>6 DEF Extends
<1> QED  BY <1>8, <1>9, <1>10 DEF DagOK, h

-----------------------------------------------------------------------------
(***************************************************************************)
(* One record, accepted or refused.                                        *)
(***************************************************************************)
LEMMA ContainsKept ==
  ASSUME NEW g, NEW h, DagTyped(g), DagTyped(h), Extends(h, g), NEW s, contains(g, s)
  PROVE  contains(h, s)
<1>1. PICK i \in Positions(g) : g.nodes[i].state = s  BY DEF contains, Known
<1>2. i \in Positions(h)
  BY <1>1, PositionsAreInitial DEF Extends
<1>3. h.nodes[i].state = s  BY <1>1 DEF Extends
<1> QED  BY <1>2, <1>3 DEF contains, Known

LEMMA AfterRecordOK ==
  ASSUME NEW g, DagOK(g), NEW r \in Records, NEW require_parent \in BOOLEAN
  PROVE  /\ DagOK(AfterRecord(g, r, require_parent))
         /\ Extends(AfterRecord(g, r, require_parent), g)
<1> DEFINE parented == WithParent(g, r, require_parent)
           childed == WithChild(g, r, require_parent)
<1>0. DagTyped(g)  BY DEF DagOK
<1>1. r.parent \in States /\ r.child \in States /\ r.labels \in Labels /\ NoLabels \in Labels
  BY DEF Records, Labels, NoLabels, Optional
<1>2. CASE require_parent /\ ~contains(g, r.parent)
  <2>1. AfterRecord(g, r, require_parent) = g  BY <1>2 DEF AfterRecord
  <2> QED  BY <1>0, <2>1, ExtendsSelf
<1>3. CASE ~(require_parent /\ ~contains(g, r.parent))
  <2>1. DagOK(parented) /\ Extends(parented, g) /\ contains(parented, r.parent)
    <3>1. CASE require_parent
      BY <1>0, <1>3, <3>1, ExtendsSelf DEF WithParent
    <3>2. CASE ~require_parent
      BY <1>1, <3>2, WithNodeOK DEF WithParent
    <3> QED  BY <3>1, <3>2
  <2> HIDE DEF parented
  <2>2. DagOK(childed) /\ Extends(childed, parented) /\ contains(childed, r.child)
    <3>1. childed = WithNode(parented, r.child, r.labels)  BY DEF WithChild, parented
    <3> QED  BY <1>1, <2>1, <3>1, WithNodeOK
  <2> HIDE DEF childed
  <2>3. Extends(childed, g)
    BY <1>0, <2>1, <2>2, ExtendsTransitive DEF DagOK
  <2>4. contains(childed, r.parent)
    BY <2>1, <2>2, ContainsKept DEF DagOK
  <2>5. DagOK(Joined(childed, r)) /\ Extends(Joined(childed, r), childed)
    BY <2>2, <2>4, JoinedOK
  <2>6. Extends(Joined(childed, r), g)
    BY <1>0, <2>2, <2>3, <2>5, ExtendsTransitive DEF DagOK
  <2>7. AfterRecord(g, r, require_parent) \in {Joined(childed, r), childed}
    BY <1>3 DEF AfterRecord, childed
  <2> QED  BY <2>2, <2>3, <2>5, <2>6, <2>7
<1> QED  BY <1>2, <1>3

-----------------------------------------------------------------------------
(***************************************************************************)
(* What a dag tells of the first n records of a sequence: an edge for each *)
(* of them, and no nodes but those they meet, the root and a few others.   *)
(***************************************************************************)
Arcs(g, s, t) ==
  {a \in Transitions(g) :
     g.nodes[Endpoints(g, a)[1]].state = s /\ g.nodes[Endpoints(g, a)[2]].state = t}

Registrations(records, n, s, t) ==
  {k \in 1..n : records[k].parent = s /\ records[k].child = t}

Met(g, records, n) ==
  {g.nodes[1].state} \cup {records[k].parent : k \in 1..n} \cup {records[k].child : k \in 1..n}

ToldArcs(g, records, n) ==
  \A s, t \in States :
    /\ IsFiniteSet(Arcs(g, s, t))
    /\ Cardinality(Arcs(g, s, t)) = Cardinality(Registrations(records, n, s, t))

Told(g, records, n, others) ==
  /\ ToldArcs(g, records, n)
  /\ Met(g, records, n) \subseteq Known(g)
  /\ Known(g) \subseteq Met(g, records, n) \cup others

LEMMA ArcMember ==
  ASSUME NEW g, NEW s, NEW t, NEW a
  PROVE  a \in Arcs(g, s, t) <=>
           \E i \in Positions(g) : \E k \in DOMAIN g.adjacency[i] :
             /\ a = <<i, k>>
             /\ g.nodes[i].state = s
             /\ g.nodes[g.adjacency[i][k]].state = t
<1>1. ASSUME NEW i \in Positions(g), NEW k \in DOMAIN g.adjacency[i], a = <<i, k>>
      PROVE  a \in Transitions(g) /\ Endpoints(g, a)[1] = i /\ Endpoints(g, a)[2] = g.adjacency[i][k]
  BY <1>1 DEF Transitions, Endpoints
<1>2. ASSUME a \in Transitions(g)
      PROVE  \E i \in Positions(g) : \E k \in DOMAIN g.adjacency[i] : a = <<i, k>>
  BY <1>2 DEF Transitions
<1> QED  BY <1>1, <1>2 DEF Arcs

\* What get_or_add_node changes: the labels of a known node, or one node more.
LEMMA WithNodeIs ==
  ASSUME NEW g, DagOK(g), NEW s \in States, NEW labels \in Labels
  PROVE  /\ contains(g, s) =>
              /\ WithNode(g, s, labels).adjacency = g.adjacency
              /\ Positions(WithNode(g, s, labels)) = Positions(g)
              /\ \A i \in Positions(g) :
                   /\ WithNode(g, s, labels).nodes[i].state = g.nodes[i].state
                   /\ WithNode(g, s, labels).nodes[i].depth = g.nodes[i].depth
                   /\ WithNode(g, s, labels).nodes[i].labels =
                        IF g.nodes[i].state = s THEN FilledLabels(g.nodes[i].labels, labels)
                        ELSE g.nodes[i].labels
         /\ ~contains(g, s) =>
              WithNode(g, s, labels) = [nodes     |-> Append(g.nodes, Node(s, -1, labels)),
                                        adjacency |-> Append(g.adjacency, <<>>)]
<1>0. DagTyped(g) /\ OneNodePerState(g)  BY DEF DagOK
<1>1. CASE contains(g, s)
  <2> DEFINE p == index(g, s)
             node == [g.nodes[p] EXCEPT !.labels = FilledLabels(g.nodes[p].labels, labels)]
             nodes == [g.nodes EXCEPT ![p] = node]
             h == WithNode(g, s, labels)
  <2>1. p \in Positions(g) /\ g.nodes[p].state = s  BY <1>1, IndexFinds
  <2>2. g.nodes \in Seq(DagNodes) /\ Positions(g) = 1..Len(g.nodes)
        /\ g = [nodes |-> g.nodes, adjacency |-> g.adjacency]
    BY <1>0, PositionsAreInitial DEF DagTyped
  <2>3. \A i \in Positions(g) : g.nodes[i].state = s <=> i = p
    BY <1>0, <2>1 DEF OneNodePerState
  <2>4. g.nodes[p] \in DagNodes /\ DOMAIN g.nodes = Positions(g)
    BY <1>0, <2>1, LabelsOfNode DEF Positions
  <2> HIDE DEF p
  <2>5. /\ node.state = g.nodes[p].state
        /\ node.depth = g.nodes[p].depth
        /\ node.labels = FilledLabels(g.nodes[p].labels, labels)
    BY <2>4 DEF DagNodes
  <2>6. h = [g EXCEPT !.nodes = nodes]
    BY <1>1, <2>1, <2>2, <2>4 DEF WithNode, p, DagNodes
  <2> HIDE DEF node
  <2>7. /\ DOMAIN nodes = DOMAIN g.nodes
        /\ nodes[p] = node
        /\ \A i \in Positions(g) : i # p => nodes[i] = g.nodes[i]
    BY <2>1, <2>4
  <2> HIDE DEF nodes
  <2>8. h.nodes = nodes /\ h.adjacency = g.adjacency
    BY <2>2, <2>6
  <2> HIDE DEF h
  <2>9. Positions(h) = Positions(g)  BY <2>7, <2>8 DEF Positions
  <2> QED  BY <1>1, <2>1, <2>3, <2>5, <2>7, <2>8, <2>9 DEF h
<1>2. CASE ~contains(g, s)
  BY <1>2 DEF WithNode
<1> QED  BY <1>1, <1>2

LEMMA WithNodeTells ==
  ASSUME NEW g, DagOK(g), NEW s \in States, NEW labels \in Labels
  PROVE  /\ Known(WithNode(g, s, labels)) = Known(g) \cup {s}
         /\ WithNode(g, s, labels).nodes[1].state = g.nodes[1].state
         /\ \A t, u : Arcs(WithNode(g, s, labels), t, u) = Arcs(g, t, u)
<1> DEFINE h == WithNode(g, s, labels)
<1>0. DagTyped(g) /\ DagOK(h) /\ Extends(h, g)  BY WithNodeOK DEF DagOK
<1>1. /\ Len(g.nodes) \in Nat \ {0}
      /\ Positions(g) = 1..Len(g.nodes)
      /\ Len(g.adjacency) = Len(g.nodes)
      /\ g.nodes \in Seq(DagNodes)
      /\ g.adjacency \in Seq(Seq(Positions(g)))
  BY <1>0, PositionsAreInitial DEF DagTyped
<1>2. h.nodes[1].state = g.nodes[1].state
  <2>1. 1 \in Positions(g)  BY <1>1
  <2> HIDE DEF h
  <2> QED  BY <1>0, <2>1 DEF Extends
<1>3. \A i \in Positions(g) : g.adjacency[i] \in Seq(Positions(g))  BY <1>0, RowsOfDag
<1>4. CASE contains(g, s)
  <2>1. /\ h.adjacency = g.adjacency
        /\ Positions(h) = Positions(g)
        /\ \A i \in Positions(g) : h.nodes[i].state = g.nodes[i].state
    BY <1>4, WithNodeIs
  <2> HIDE DEF h
  <2>2. Known(h) = Known(g) \cup {s}  BY <1>4, <2>1 DEF Known, contains
  <2>3. \A i \in Positions(g) : \A k \in DOMAIN g.adjacency[i] : g.adjacency[i][k] \in Positions(g)
    BY <1>3
  <2>4. ASSUME NEW t, NEW u, NEW a
        PROVE  a \in Arcs(h, t, u) <=> a \in Arcs(g, t, u)
    BY <2>1, <2>3, ArcMember, SMTT(30)
  <2>5. \A t, u : Arcs(h, t, u) = Arcs(g, t, u)  BY <2>4
  <2> QED  BY <1>2, <2>2, <2>5 DEF h
<1>5. CASE ~contains(g, s)
  <2> DEFINE n == Len(g.nodes)
             nodes == Append(g.nodes, Node(s, -1, labels))
             rows == Append(g.adjacency, <<>>)
  <2>0. Positions(g) = 1..n  BY <1>1
  <2>1. h.nodes = nodes /\ h.adjacency = rows  BY <1>5, WithNodeIs
  <2>2. Node(s, -1, labels) \in DagNodes /\ Node(s, -1, labels).state = s
    BY DEF Node, DagNodes
  <2>3. /\ DOMAIN nodes = 1..(n + 1)
        /\ \A i \in 1..n : nodes[i] = g.nodes[i]
        /\ nodes[n + 1].state = s
    BY <1>1, <2>2, Appended
  <2>4. /\ DOMAIN rows = 1..(n + 1)
        /\ \A i \in 1..n : rows[i] = g.adjacency[i]
        /\ rows[n + 1] = <<>>
    <3>1. <<>> \in Seq(Positions(g))  OBVIOUS
    <3> QED  BY <1>1, <3>1, Appended
  <2> HIDE DEF h, nodes, rows
  <2>5. Positions(h) = 1..(n + 1) /\ (\A i \in 1..(n + 1) : i \in 1..n \/ i = n + 1)
        /\ 1..n \subseteq 1..(n + 1) /\ n + 1 \in 1..(n + 1)
    BY <1>1, <2>1, <2>3 DEF Positions
  <2>6. Known(h) = Known(g) \cup {s}
    BY <1>1, <2>1, <2>3, <2>5 DEF Known
  <2>7. \A i \in 1..n : \A k \in DOMAIN g.adjacency[i] : g.adjacency[i][k] \in 1..n
    BY <1>1, <1>3, SMTT(30)
  <2>8. DOMAIN rows[n + 1] = {}  BY <2>4
  <2>9. ASSUME NEW t, NEW u, NEW a
        PROVE  a \in Arcs(h, t, u) <=> a \in Arcs(g, t, u)
    <3>1. a \in Arcs(h, t, u) <=>
            \E i \in 1..n : \E k \in DOMAIN h.adjacency[i] :
              a = <<i, k>> /\ h.nodes[i].state = t /\ h.nodes[h.adjacency[i][k]].state = u
      BY <2>1, <2>5, <2>8, ArcMember, SMTT(30)
    <3>2. \A i \in 1..n : h.adjacency[i] = g.adjacency[i] /\ h.nodes[i] = g.nodes[i]
      BY <2>1, <2>3, <2>4
    <3> HIDE DEF n
    <3>3. a \in Arcs(g, t, u) <=>
            \E i \in Positions(g) : \E k \in DOMAIN g.adjacency[i] :
              a = <<i, k>> /\ g.nodes[i].state = t /\ g.nodes[g.adjacency[i][k]].state = u
      BY ArcMember
    <3> QED  BY <2>0, <2>7, <3>1, <3>2, <3>3, SMTT(30)
  <2>10. \A t, u : Arcs(h, t, u) = Arcs(g, t, u)  BY <2>9
  <2> QED  BY <1>2, <2>6, <2>10 DEF h
<1> QED  BY <1>4, <1>5

\* An accepted record adds one edge between the nodes of its states.
LEMMA JoinedTells ==
  ASSUME NEW g, DagOK(g), NEW r \in Records, contains(g, r.parent), contains(g, r.child)
  PROVE  /\ Known(Joined(g, r)) = Known(g)
         /\ Joined(g, r).nodes = g.nodes
         /\ \E new :
              /\ new \notin Arcs(g, r.parent, r.child)
              /\ Arcs(Joined(g, r), r.parent, r.child) = Arcs(g, r.parent, r.child) \cup {new}
         /\ \A t, u : <<t, u>> # <<r.parent, r.child>> => Arcs(Joined(g, r), t, u) = Arcs(g, t, u)
<1> DEFINE h == Joined(g, r)
           p == index(g, r.parent)
           c == index(g, r.child)
           row == g.adjacency[p]
           new == <<p, Len(row) + 1>>
<1>0. DagTyped(g) /\ OneNodePerState(g)  BY DEF DagOK
<1>1. p \in Positions(g) /\ c \in Positions(g)
      /\ g.nodes[p].state = r.parent /\ g.nodes[c].state = r.child
  BY IndexFinds
<1>2. row \in Seq(Positions(g)) /\ DOMAIN g.adjacency = Positions(g)
      /\ g = [nodes |-> g.nodes, adjacency |-> g.adjacency]
  BY <1>0, <1>1, RowsOfDag DEF DagTyped
<1>3. h = [g EXCEPT !.adjacency[p] = Append(row, c)]  BY DEF Joined
<1> HIDE DEF p, c, h
<1>4. /\ h.nodes = g.nodes
      /\ h.adjacency[p] = Append(row, c)
      /\ \A i \in Positions(g) : i # p => h.adjacency[i] = g.adjacency[i]
  BY <1>1, <1>2, <1>3
<1>5. /\ DOMAIN Append(row, c) = DOMAIN row \cup {Len(row) + 1}
      /\ Len(row) + 1 \notin DOMAIN row
      /\ \A k \in DOMAIN row : Append(row, c)[k] = row[k]
      /\ Append(row, c)[Len(row) + 1] = c
  BY <1>1, <1>2
<1> HIDE DEF row
<1>6. Positions(h) = Positions(g) /\ Known(h) = Known(g)  BY <1>4 DEF Positions, Known
<1>7. new \notin Arcs(g, r.parent, r.child)
  <2>1. ASSUME NEW i \in Positions(g), NEW k \in DOMAIN g.adjacency[i], new = <<i, k>>
        PROVE  FALSE
    BY <1>5, <2>1 DEF row
  <2> QED  BY <2>1, ArcMember
<1>8. ASSUME NEW t, NEW u, NEW a
      PROVE  a \in Arcs(h, t, u) <=>
               a \in Arcs(g, t, u) \/ (a = new /\ t = r.parent /\ u = r.child)
  <2>1. ASSUME NEW i \in Positions(g), i # p
        PROVE  \A k : (k \in DOMAIN h.adjacency[i] <=> k \in DOMAIN g.adjacency[i])
                      /\ h.adjacency[i][k] = g.adjacency[i][k]
    BY <1>4, <2>1
  <2>2. \A k : k \in DOMAIN h.adjacency[p] <=> k \in DOMAIN g.adjacency[p] \/ k = Len(row) + 1
    BY <1>4, <1>5 DEF row
  <2>3. /\ \A k \in DOMAIN g.adjacency[p] : h.adjacency[p][k] = g.adjacency[p][k]
        /\ h.adjacency[p][Len(row) + 1] = c
    BY <1>4, <1>5 DEF row
  <2> DEFINE In(x, i, k) == a = <<i, k>> /\ x.nodes[i].state = t /\ x.nodes[x.adjacency[i][k]].state = u
  <2>4. a \in Arcs(h, t, u) <=> \E i \in Positions(g) : \E k \in DOMAIN h.adjacency[i] : In(h, i, k)
    BY <1>6, ArcMember
  <2>5. a \in Arcs(g, t, u) <=> \E i \in Positions(g) : \E k \in DOMAIN g.adjacency[i] : In(g, i, k)
    BY ArcMember
  <2>6. \A i \in Positions(g) : i # p =>
          ((\E k \in DOMAIN h.adjacency[i] : In(h, i, k)) <=> (\E k \in DOMAIN g.adjacency[i] : In(g, i, k)))
    BY <1>4, <2>1
  <2>7. \A k \in DOMAIN g.adjacency[p] : In(h, p, k) <=> In(g, p, k)
    BY <1>4, <2>3
  <2>8. In(h, p, Len(row) + 1) <=> (a = new /\ t = r.parent /\ u = r.child)
    BY <1>1, <1>4, <2>3
  <2> HIDE DEF In
  <2> QED  BY <1>1, <2>2, <2>4, <2>5, <2>6, <2>7, <2>8
<1>9. Arcs(h, r.parent, r.child) = Arcs(g, r.parent, r.child) \cup {new}  BY <1>8
<1>10. ASSUME NEW t, NEW u, <<t, u>> # <<r.parent, r.child>>
       PROVE  Arcs(h, t, u) = Arcs(g, t, u)
  <2>1. \A a : a \in Arcs(h, t, u) <=> a \in Arcs(g, t, u)
    BY <1>8, <1>10
  <2> QED  BY <2>1 DEF Arcs
<1> HIDE DEF new
<1> QED  BY <1>4, <1>6, <1>7, <1>9, <1>10 DEF h

LEMMA FinalizedTells ==
  ASSUME NEW g, DagOK(g)
  PROVE  /\ Known(Finalized(g)) = Known(g)
         /\ Positions(Finalized(g)) = Positions(g)
         /\ Finalized(g).adjacency = g.adjacency
         /\ \A i \in Positions(g) : /\ Finalized(g).nodes[i].state = g.nodes[i].state
                                    /\ Finalized(g).nodes[i].labels = g.nodes[i].labels
         /\ \A t, u : Arcs(Finalized(g), t, u) = Arcs(g, t, u)
<1> DEFINE levels == Levels(1, PairsOf(g), Len(g.nodes))
           nodes == [i \in Positions(g) |->
                       [g.nodes[i] EXCEPT !.depth = Depth(levels, Len(g.nodes), i)]]
           h == Finalized(g)
<1>0. DagTyped(g)  BY DEF DagOK
<1>1. h = [g EXCEPT !.nodes = nodes]  BY DEF Finalized
<1> HIDE DEF levels, h
<1>2. \A i \in Positions(g) :
        nodes[i].state = g.nodes[i].state /\ nodes[i].labels = g.nodes[i].labels
  BY <1>0, LabelsOfNode DEF DagNodes
<1>3. DOMAIN nodes = Positions(g)  OBVIOUS
<1> HIDE DEF nodes
<1>4. h.nodes = nodes /\ h.adjacency = g.adjacency  BY <1>0, <1>1 DEF DagTyped
<1>5. Positions(h) = Positions(g)  BY <1>3, <1>4 DEF Positions
<1>6. Known(h) = Known(g)  BY <1>2, <1>4, <1>5 DEF Known
<1>7. \A i \in Positions(g) : \A k \in DOMAIN g.adjacency[i] : g.adjacency[i][k] \in Positions(g)
  BY <1>0, RowsOfDag
<1>8. ASSUME NEW t, NEW u, NEW a
      PROVE  a \in Arcs(h, t, u) <=> a \in Arcs(g, t, u)
  BY <1>2, <1>4, <1>5, <1>7, ArcMember, SMTT(30)
<1>9. \A t, u : Arcs(h, t, u) = Arcs(g, t, u)  BY <1>8
<1> QED  BY <1>2, <1>4, <1>5, <1>6, <1>9 DEF h

\* A known state gets no new node, so a record's states are all that it adds.
LEMMA WithChildTells ==
  ASSUME NEW g, DagOK(g), NEW r \in Records, NEW require_parent \in BOOLEAN,
         require_parent => contains(g, r.parent)
  PROVE  /\ DagOK(WithChild(g, r, require_parent))
         /\ contains(WithChild(g, r, require_parent), r.parent)
         /\ contains(WithChild(g, r, require_parent), r.child)
         /\ Known(WithChild(g, r, require_parent)) = Known(g) \cup {r.parent, r.child}
         /\ WithChild(g, r, require_parent).nodes[1].state = g.nodes[1].state
         /\ \A t, u : Arcs(WithChild(g, r, require_parent), t, u) = Arcs(g, t, u)
<1> DEFINE parented == WithParent(g, r, require_parent)
           childed == WithChild(g, r, require_parent)
<1>1. r.parent \in States /\ r.child \in States /\ r.labels \in Labels /\ NoLabels \in Labels
  BY DEF Records, Labels, NoLabels, Optional
<1>2. /\ DagOK(parented)
      /\ Known(parented) = Known(g) \cup {r.parent}
      /\ parented.nodes[1].state = g.nodes[1].state
      /\ \A t, u : Arcs(parented, t, u) = Arcs(g, t, u)
  <2>1. CASE require_parent
    <3>1. parented = g  BY <2>1 DEF WithParent
    <3>2. r.parent \in Known(g)  BY <2>1 DEF contains
    <3> QED  BY <3>1, <3>2
  <2>2. CASE ~require_parent
    <3>1. parented = WithNode(g, r.parent, NoLabels)  BY <2>2 DEF WithParent
    <3> QED  BY <1>1, <3>1, WithNodeOK, WithNodeTells
  <2> QED  BY <2>1, <2>2
<1>3. childed = WithNode(parented, r.child, r.labels)  BY DEF WithChild
<1> HIDE DEF parented
<1>4. /\ DagOK(childed)
      /\ Known(childed) = Known(parented) \cup {r.child}
      /\ childed.nodes[1].state = parented.nodes[1].state
      /\ \A t, u : Arcs(childed, t, u) = Arcs(parented, t, u)
  BY <1>1, <1>2, <1>3, WithNodeOK, WithNodeTells, SMTT(30)
<1> HIDE DEF childed
<1>5. Known(childed) = Known(g) \cup {r.parent, r.child}  BY <1>2, <1>4
<1>6. contains(childed, r.parent) /\ contains(childed, r.child)  BY <1>5 DEF contains
<1>7. \A t, u : Arcs(childed, t, u) = Arcs(g, t, u)  BY <1>2, <1>4
<1> QED  BY <1>2, <1>4, <1>5, <1>6, <1>7 DEF childed

LEMMA RegistrationsOfMore ==
  ASSUME NEW records, NEW more, NEW n \in Nat, \A k \in 1..n : more[k] = records[k],
         NEW s, NEW t
  PROVE  /\ IsFiniteSet(Registrations(records, n, s, t))
         /\ n + 1 \notin Registrations(records, n, s, t)
         /\ \A k : k \in Registrations(more, n + 1, s, t) <=>
                    \/ k \in Registrations(records, n, s, t)
                    \/ k = n + 1 /\ more[n + 1].parent = s /\ more[n + 1].child = t
<1>1. IsFiniteSet(1..n)  BY FS_Interval
<1>2. IsFiniteSet(Registrations(records, n, s, t))
  BY <1>1, FS_Subset DEF Registrations
<1>3. \A k : k \in 1..(n + 1) <=> k \in 1..n \/ k = n + 1  OBVIOUS
<1>4. n + 1 \notin 1..n  OBVIOUS
<1>5. \A k : k \in Registrations(more, n + 1, s, t) <=>
               \/ k \in Registrations(records, n, s, t)
               \/ k = n + 1 /\ more[n + 1].parent = s /\ more[n + 1].child = t
  BY <1>3, <1>4 DEF Registrations
<1>6. n + 1 \notin Registrations(records, n, s, t)  BY <1>4 DEF Registrations
<1> QED  BY <1>2, <1>5, <1>6

\* An accepted record is one edge more, and a registration more.
LEMMA ToldOfAccepted ==
  ASSUME NEW g, DagOK(g), NEW r \in Records, NEW require_parent \in BOOLEAN,
         Registers(g, r, require_parent),
         NEW records, NEW more, NEW n \in Nat, NEW others,
         \A k \in 1..n : more[k] = records[k], more[n + 1] = r,
         Told(g, records, n, others)
  PROVE  Told(AfterRecord(g, r, require_parent), more, n + 1, others)
<1> DEFINE childed == WithChild(g, r, require_parent)
           h == AfterRecord(g, r, require_parent)
<1>0. require_parent => contains(g, r.parent)  BY DEF Registers
<1>1. /\ DagOK(childed)
      /\ contains(childed, r.parent)
      /\ contains(childed, r.child)
      /\ Known(childed) = Known(g) \cup {r.parent, r.child}
      /\ childed.nodes[1].state = g.nodes[1].state
      /\ \A t, u : Arcs(childed, t, u) = Arcs(g, t, u)
  BY <1>0, WithChildTells
<1>2. h = Joined(childed, r)  BY <1>0 DEF AfterRecord
<1> HIDE DEF childed, h
<1>3. /\ Known(h) = Known(childed)
      /\ h.nodes = childed.nodes
      /\ \A t, u : <<t, u>> # <<r.parent, r.child>> => Arcs(h, t, u) = Arcs(childed, t, u)
  BY <1>1, <1>2, JoinedTells
<1>4. PICK new : /\ new \notin Arcs(childed, r.parent, r.child)
                 /\ Arcs(h, r.parent, r.child) = Arcs(childed, r.parent, r.child) \cup {new}
  BY <1>1, <1>2, JoinedTells, SMTT(30)
<1>5. ASSUME NEW s \in States, NEW t \in States
      PROVE  /\ IsFiniteSet(Arcs(h, s, t))
             /\ Cardinality(Arcs(h, s, t)) = Cardinality(Registrations(more, n + 1, s, t))
  <2> DEFINE old == Registrations(records, n, s, t)
  <2>1. /\ IsFiniteSet(old)
        /\ n + 1 \notin old
        /\ Registrations(more, n + 1, s, t) =
             IF r.parent = s /\ r.child = t THEN old \cup {n + 1} ELSE old
    <3>1. IsFiniteSet(Registrations(records, n, s, t))  BY RegistrationsOfMore
    <3>2. n + 1 \notin Registrations(records, n, s, t)  BY RegistrationsOfMore
    <3>3. \A k : k \in Registrations(more, n + 1, s, t) <=>
                  \/ k \in Registrations(records, n, s, t)
                  \/ k = n + 1 /\ more[n + 1].parent = s /\ more[n + 1].child = t
      BY RegistrationsOfMore, ZenonT(30)
    <3>4. \A k : k \in Registrations(more, n + 1, s, t) <=>
                  \/ k \in old
                  \/ k = n + 1 /\ r.parent = s /\ r.child = t
      BY <3>3
    <3>5. Registrations(more, n + 1, s, t) =
            IF r.parent = s /\ r.child = t THEN old \cup {n + 1} ELSE old
      <4> HIDE DEF old
      <4>1. CASE r.parent = s /\ r.child = t  BY <3>4, <4>1
      <4>2. CASE ~(r.parent = s /\ r.child = t)  BY <3>4, <4>2
      <4> QED  BY <4>1, <4>2
    <3> QED  BY <3>1, <3>2, <3>5
  <2> HIDE DEF old
  <2>2. IsFiniteSet(Arcs(g, s, t)) /\ Cardinality(Arcs(g, s, t)) = Cardinality(old)
    BY DEF Told, ToldArcs, old
  <2>3. CASE r.parent = s /\ r.child = t
    <3>1. new \notin Arcs(g, s, t) /\ Arcs(h, s, t) = Arcs(g, s, t) \cup {new}
      BY <1>1, <1>4, <2>3
    <3>2. Cardinality(old \cup {n + 1}) = Cardinality(old) + 1
      BY <2>1, FS_AddElement
    <3>3. IsFiniteSet(Arcs(h, s, t)) /\ Cardinality(Arcs(h, s, t)) = Cardinality(Arcs(g, s, t)) + 1
      BY <2>2, <3>1, FS_AddElement
    <3> QED  BY <2>1, <2>2, <2>3, <3>2, <3>3
  <2>4. CASE ~(r.parent = s /\ r.child = t)
    <3>1. Arcs(h, s, t) = Arcs(g, s, t)  BY <1>1, <1>3, <2>4
    <3> QED  BY <2>1, <2>2, <2>4, <3>1
  <2> QED  BY <2>3, <2>4
<1>6. Met(h, more, n + 1) = Met(g, records, n) \cup {r.parent, r.child}
  <2>1. \A k : k \in 1..(n + 1) <=> k \in 1..n \/ k = n + 1  OBVIOUS
  <2>2. h.nodes[1].state = g.nodes[1].state  BY <1>1, <1>3
  <2>3. {more[k].parent : k \in 1..(n + 1)} = {records[k].parent : k \in 1..n} \cup {r.parent}
    BY <2>1
  <2>4. {more[k].child : k \in 1..(n + 1)} = {records[k].child : k \in 1..n} \cup {r.child}
    BY <2>1
  <2> QED  BY <2>2, <2>3, <2>4 DEF Met
<1>7. ToldArcs(h, more, n + 1)  BY <1>5 DEF ToldArcs
<1>8. Met(g, records, n) \subseteq Known(g) /\ Known(g) \subseteq Met(g, records, n) \cup others
  BY DEF Told
<1>9. Known(h) = Known(g) \cup {r.parent, r.child}  BY <1>1, <1>3
<1>10. Told(h, more, n + 1, others)  BY <1>6, <1>7, <1>8, <1>9 DEF Told
<1> QED  BY <1>10 DEF h

\* A refused one adds no edge, and at most the node of its parent.
LEMMA ToldOfRefused ==
  ASSUME NEW g, DagOK(g), NEW r \in Records, NEW require_parent \in BOOLEAN,
         require_parent => contains(g, r.parent), ~Registers(g, r, require_parent),
         NEW records, NEW n \in Nat, NEW others, NEW more,
         others \cup {r.parent} \subseteq more,
         Told(g, records, n, others)
  PROVE  Told(AfterRecord(g, r, require_parent), records, n, more)
<1> DEFINE parented == WithParent(g, r, require_parent)
           h == AfterRecord(g, r, require_parent)
<1>1. h = WithChild(g, r, require_parent)  BY DEF AfterRecord
<1>2. r.parent \in States /\ NoLabels \in Labels
  BY DEF Records, Labels, NoLabels, Optional
<1>3. contains(parented, r.child)  BY DEF Registers, MayLabel
<1>4. Known(parented) \subseteq Known(g) \cup {r.parent}
  BY <1>2, WithNodeTells DEF WithParent
<1>5. r.child \in Known(g) \cup {r.parent}  BY <1>3, <1>4 DEF contains
<1> HIDE DEF h, parented
<1>6. /\ Known(h) = Known(g) \cup {r.parent, r.child}
      /\ h.nodes[1].state = g.nodes[1].state
      /\ \A t, u : Arcs(h, t, u) = Arcs(g, t, u)
  BY <1>1, WithChildTells
<1>7. ToldArcs(h, records, n)  BY <1>6 DEF Told, ToldArcs
<1>8. Met(h, records, n) = Met(g, records, n)  BY <1>6 DEF Met
<1>9. Met(g, records, n) \subseteq Known(g) /\ Known(g) \subseteq Met(g, records, n) \cup others
  BY DEF Told
<1>10. Told(h, records, n, more)  BY <1>5, <1>6, <1>7, <1>8, <1>9 DEF Told
<1> QED  BY <1>10 DEF h

-----------------------------------------------------------------------------
(***************************************************************************)
(* The labels: a node carries the first that a registration gave it.       *)
(***************************************************************************)
\* A set of naturals has a least member.
LEMMA NatLeast ==
  ASSUME NEW S, S \subseteq Nat, S # {}
  PROVE  \E x \in S : \A y \in S : x <= y
<1> DEFINE Smaller == OpToRel(<, Nat)
<1>1. IsWellFoundedOn(Smaller, Nat)  BY NatLessThanWellFounded
<1>2. \A x, y \in Nat : x < y => <<x, y>> \in Smaller  BY DEF OpToRel
<1> HIDE DEF Smaller
<1>3. PICK x \in S : \A y \in S : ~(<<y, x>> \in Smaller)  BY <1>1, WFMin
<1>4. \A y \in S : x \in Nat /\ y \in Nat /\ ~(y < x)  BY <1>2, <1>3
<1> QED  BY <1>4

GivenTo(records, n, s, field) ==
  {k \in 1..n : records[k].child = s /\ records[k].labels[field] # None}

First(records, n, s, field) ==
  LET given == GivenTo(records, n, s, field)
  IN  IF given = {} THEN None
      ELSE records[CHOOSE k \in given : \A l \in given : k <= l].labels[field]

\* Only the first record that gives a label decides.
LEMMA FirstOfMore ==
  ASSUME NEW records, NEW more, NEW n \in Nat, \A k \in 1..n : more[k] = records[k],
         NEW r, more[n + 1] = r, NEW s, NEW field
  PROVE  /\ r.child = s =>
              First(more, n + 1, s, field) = Filled(First(records, n, s, field), r.labels[field])
         /\ r.child # s => First(more, n + 1, s, field) = First(records, n, s, field)
<1> DEFINE given == GivenTo(records, n, s, field)
           now == GivenTo(more, n + 1, s, field)
           gives == more[n + 1].child = s /\ more[n + 1].labels[field] # None
<1>1. \A k : k \in 1..(n + 1) <=> k \in 1..n \/ k = n + 1  OBVIOUS
<1>2. \A k : k \in now <=> k \in given \/ (k = n + 1 /\ gives)
  BY <1>1 DEF GivenTo
<1>3. given \subseteq 1..n /\ now \subseteq 1..(n + 1)  BY DEF GivenTo
<1>4. \A k \in given : records[k].labels[field] # None /\ more[k] = records[k]
  BY DEF GivenTo
<1>5. First(records, n, s, field) =
        IF given = {} THEN None
        ELSE records[CHOOSE k \in given : \A l \in given : k <= l].labels[field]
  BY DEF First
<1>6. First(more, n + 1, s, field) =
        IF now = {} THEN None
        ELSE more[CHOOSE k \in now : \A l \in now : k <= l].labels[field]
  BY DEF First
<1> HIDE DEF given, now
<1>7. CASE given # {}
  <2> DEFINE m == CHOOSE k \in given : \A l \in given : k <= l
             m2 == CHOOSE k \in now : \A l \in now : k <= l
  <2>0. 1..n \subseteq Nat /\ 1..(n + 1) \subseteq Nat  OBVIOUS
  <2>1. \E k \in given : \A l \in given : k <= l  BY <1>3, <1>7, <2>0, NatLeast
  <2>2. m \in given /\ \A l \in given : m <= l  BY <2>1
  <2>3. \E k \in now : \A l \in now : k <= l
    <3>1. now # {} /\ now \subseteq Nat  BY <1>2, <1>3, <1>7, <2>0
    <3> QED  BY <3>1, NatLeast
  <2>4. m2 \in now /\ \A l \in now : m2 <= l  BY <2>3
  <2> HIDE DEF m, m2
  <2>5. m2 = m
    <3>1. m \in now /\ m \in 1..n  BY <1>2, <1>3, <2>2
    <3>2. m2 <= m /\ m2 \in 1..(n + 1)  BY <1>3, <2>4, <3>1
    <3>3. m2 # n + 1  BY <3>1, <3>2
    <3>4. m2 \in given  BY <1>2, <2>4, <3>3
    <3>5. m <= m2  BY <2>2, <3>4
    <3> QED  BY <3>1, <3>2, <3>5
  <2>6. First(records, n, s, field) = records[m].labels[field]  BY <1>5, <1>7 DEF m
  <2>7. First(more, n + 1, s, field) = more[m2].labels[field]
    <3>1. now # {}  BY <2>4
    <3> QED  BY <1>6, <3>1 DEF m2
  <2> QED  BY <1>4, <2>2, <2>5, <2>6, <2>7 DEF Filled
<1>8. CASE given = {} /\ gives
  <2>1. now = {n + 1}  BY <1>2, <1>8
  <2>2. (CHOOSE k \in now : \A l \in now : k <= l) = n + 1
    <3>1. \A k : k \in now <=> k = n + 1  BY <2>1
    <3>2. n + 1 <= n + 1  OBVIOUS
    <3>3. \E k \in now : \A l \in now : k <= l  BY <3>1, <3>2
    <3> QED  BY <3>1, <3>3
  <2> QED  BY <1>5, <1>6, <1>8, <2>1, <2>2 DEF Filled
<1>9. CASE given = {} /\ ~gives
  <2>1. now = {}  BY <1>2, <1>9
  <2> QED  BY <1>5, <1>6, <1>9, <2>1 DEF Filled
<1> QED  BY <1>7, <1>8, <1>9

\* What the labels of a dag tell of the first n records, but for the nodes
\* of the others.
Labelled(g, records, n, others) ==
  \A i \in Positions(g) : \A field \in DOMAIN NoLabels :
    /\ g.nodes[i].state \notin others =>
         g.nodes[i].labels[field] = First(records, n, g.nodes[i].state, field)
    /\ field # "action" => \A k \in 1..n :
         records[k].child = g.nodes[i].state =>
           records[k].labels[field] \in {None, g.nodes[i].labels[field]}

LEMMA FirstOfNone ==
  ASSUME NEW records, NEW n, NEW s, NEW field, \A k \in 1..n : records[k].child # s
  PROVE  First(records, n, s, field) = None
<1>1. GivenTo(records, n, s, field) = {}  BY DEF GivenTo
<1> QED  BY <1>1 DEF First

\* Labels that agree with a node's are filled in, field by field; NoLabels
\* changes nothing.
LEMMA FilledFields ==
  ASSUME NEW known \in Labels, NEW given \in Labels, NEW field \in DOMAIN NoLabels
  PROVE  /\ FilledLabels(known, NoLabels)[field] = known[field]
         /\ LabelsAgree(known, given) =>
              /\ FilledLabels(known, given)[field] = Filled(known[field], given[field])
              /\ field # "action" => Agrees(known[field], given[field])
<1>1. field \in {"action", "candidate_id", "delta"}  BY DEF NoLabels
<1>2. CASE field = "action"
  BY <1>2 DEF FilledLabels, Filled, NoLabels
<1>3. CASE field = "candidate_id"
  BY <1>3 DEF FilledLabels, Filled, NoLabels, LabelsAgree, CandidateAgrees
<1>4. CASE field = "delta"
  BY <1>4 DEF FilledLabels, Filled, NoLabels, LabelsAgree, CandidateAgrees, Agrees
<1> QED  BY <1>1, <1>2, <1>3, <1>4

LEMMA NodesOfNew ==
  ASSUME NEW g, DagOK(g), NEW s \in States, NEW labels \in Labels, ~contains(g, s)
  PROVE  /\ \A i \in Positions(WithNode(g, s, labels)) : i \in Positions(g) \/ i = Len(g.nodes) + 1
         /\ \A i \in Positions(g) : WithNode(g, s, labels).nodes[i] = g.nodes[i]
         /\ WithNode(g, s, labels).nodes[Len(g.nodes) + 1].state = s
         /\ WithNode(g, s, labels).nodes[Len(g.nodes) + 1].labels = labels
<1> DEFINE n == Len(g.nodes)
           h == WithNode(g, s, labels)
           nodes == Append(g.nodes, Node(s, -1, labels))
<1>1. g.nodes \in Seq(DagNodes) /\ n \in Nat /\ Positions(g) = 1..n
  BY PositionsAreInitial DEF DagOK, DagTyped
<1>2. Node(s, -1, labels) \in DagNodes /\ Node(s, -1, labels).state = s
      /\ Node(s, -1, labels).labels = labels
  BY DEF Node, DagNodes
<1>3. h.nodes = nodes  BY WithNodeIs
<1>4. /\ DOMAIN nodes = 1..(n + 1)
      /\ \A i \in 1..n : nodes[i] = g.nodes[i]
      /\ nodes[n + 1] = Node(s, -1, labels)
  BY <1>1, <1>2, Appended
<1> HIDE DEF h, nodes, n
<1>5. \A i \in 1..(n + 1) : i \in 1..n \/ i = n + 1  BY <1>1
<1>6. \A i \in Positions(h) : i \in Positions(g) \/ i = n + 1
  BY <1>1, <1>3, <1>4, <1>5 DEF Positions
<1>7. \A i \in Positions(g) : h.nodes[i] = g.nodes[i]  BY <1>1, <1>3, <1>4
<1>8. h.nodes[n + 1].state = s /\ h.nodes[n + 1].labels = labels  BY <1>2, <1>3, <1>4
<1> QED  BY <1>6, <1>7, <1>8 DEF h, n

\* A parent that is registered on the way has no labels, and none to take.
LEMMA LabelledParent ==
  ASSUME NEW g, DagOK(g), NEW s \in States,
         NEW records, NEW n, NEW others, Met(g, records, n) \subseteq Known(g),
         Labelled(g, records, n, others)
  PROVE  Labelled(WithNode(g, s, NoLabels), records, n, others)
<1> DEFINE h == WithNode(g, s, NoLabels)
<1>0. DagTyped(g) /\ NoLabels \in Labels
  BY DEF DagOK, Labels, NoLabels, Optional
<1>1. CASE contains(g, s)
  <2>1. /\ Positions(h) = Positions(g)
        /\ \A i \in Positions(g) :
             /\ h.nodes[i].state = g.nodes[i].state
             /\ h.nodes[i].labels = IF g.nodes[i].state = s
                                    THEN FilledLabels(g.nodes[i].labels, NoLabels)
                                    ELSE g.nodes[i].labels
    BY <1>0, <1>1, WithNodeIs
  <2> HIDE DEF h
  <2>2. \A i \in Positions(g) : \A field \in DOMAIN NoLabels :
          h.nodes[i].labels[field] = g.nodes[i].labels[field]
    BY <1>0, <2>1, LabelsOfNode, FilledFields
  <2>3. Labelled(h, records, n, others)  BY <2>1, <2>2 DEF Labelled
  <2> QED  BY <2>3 DEF h
<1>2. CASE ~contains(g, s)
  <2> DEFINE m == Len(g.nodes) + 1
  <2>1. /\ \A i \in Positions(h) : i \in Positions(g) \/ i = m
        /\ \A i \in Positions(g) : h.nodes[i] = g.nodes[i]
        /\ h.nodes[m].state = s
        /\ h.nodes[m].labels = NoLabels
    BY <1>0, <1>2, NodesOfNew
  <2> HIDE DEF h, m
  <2>2. \A k \in 1..n : records[k].child # s
    BY <1>2 DEF contains, Met
  <2>3. \A field \in DOMAIN NoLabels :
          NoLabels[field] = None /\ First(records, n, s, field) = None
    BY <2>2, FirstOfNone DEF NoLabels
  <2>4. Labelled(h, records, n, others)  BY <2>1, <2>2, <2>3, SMTT(30) DEF Labelled
  <2> QED  BY <2>4 DEF h
<1> QED  BY <1>1, <1>2

\* An accepted record fills in what its child's node lacks.
LEMMA LabelledChild ==
  ASSUME NEW g, DagOK(g), NEW r \in Records, MayLabel(g, r.child, r.labels),
         NEW records, NEW more, NEW n \in Nat, NEW others,
         \A k \in 1..n : more[k] = records[k], more[n + 1] = r,
         Met(g, records, n) \subseteq Known(g), Labelled(g, records, n, others)
  PROVE  Labelled(WithNode(g, r.child, r.labels), more, n + 1, others)
<1> DEFINE h == WithNode(g, r.child, r.labels)
           Fits(state, labels, field) ==
             /\ state \notin others => labels[field] = First(more, n + 1, state, field)
             /\ field # "action" => \A k \in 1..(n + 1) :
                  more[k].child = state => more[k].labels[field] \in {None, labels[field]}
<1>0. /\ DagTyped(g) /\ OneNodePerState(g)
      /\ r.child \in States /\ r.labels \in Labels
  BY DEF DagOK, Records
<1>1. \A k : k \in 1..(n + 1) <=> k \in 1..n \/ k = n + 1  OBVIOUS
<1>2. ASSUME NEW s, NEW field
      PROVE  /\ r.child = s => First(more, n + 1, s, field) =
                                 Filled(First(records, n, s, field), r.labels[field])
             /\ r.child # s => First(more, n + 1, s, field) = First(records, n, s, field)
  BY FirstOfMore
<1>3. \A i \in Positions(g) : \A field \in DOMAIN NoLabels :
        /\ g.nodes[i].state \notin others =>
             g.nodes[i].labels[field] = First(records, n, g.nodes[i].state, field)
        /\ field # "action" => \A k \in 1..n :
             records[k].child = g.nodes[i].state =>
               records[k].labels[field] \in {None, g.nodes[i].labels[field]}
  BY SMTT(30) DEF Labelled
<1>4. SUFFICES \A i \in Positions(h) : \A field \in DOMAIN NoLabels :
                 Fits(h.nodes[i].state, h.nodes[i].labels, field)
  BY DEF Labelled
<1>5. ASSUME NEW i \in Positions(g), NEW field \in DOMAIN NoLabels, g.nodes[i].state # r.child
      PROVE  Fits(g.nodes[i].state, g.nodes[i].labels, field)
  <2>1. ASSUME g.nodes[i].state \notin others
        PROVE  g.nodes[i].labels[field] = First(more, n + 1, g.nodes[i].state, field)
    BY <1>2, <1>3, <1>5, <2>1
  <2>2. ASSUME field # "action", NEW k \in 1..(n + 1), more[k].child = g.nodes[i].state
        PROVE  more[k].labels[field] \in {None, g.nodes[i].labels[field]}
    BY <1>1, <1>3, <1>5, <2>2
  <2> QED  BY <2>1, <2>2
<1>6. CASE contains(g, r.child)
  <2>1. /\ Positions(h) = Positions(g)
        /\ \A i \in Positions(g) :
             /\ h.nodes[i].state = g.nodes[i].state
             /\ h.nodes[i].labels = IF g.nodes[i].state = r.child
                                    THEN FilledLabels(g.nodes[i].labels, r.labels)
                                    ELSE g.nodes[i].labels
    BY <1>0, <1>6, WithNodeIs
  <2>2. ASSUME NEW i \in Positions(g), NEW field \in DOMAIN NoLabels, g.nodes[i].state = r.child
        PROVE  Fits(r.child, h.nodes[i].labels, field)
    <3> DEFINE l == g.nodes[i].labels
    <3>1. l \in Labels  BY <1>0, LabelsOfNode
    <3>2. LabelsAgree(l, r.labels)
      <4>1. index(g, r.child) = i
        BY <1>0, <1>6, <2>2, IndexFinds DEF OneNodePerState
      <4> QED  BY <1>6, <4>1 DEF MayLabel
    <3>3. h.nodes[i].labels = FilledLabels(l, r.labels)  BY <2>1, <2>2
    <3> HIDE DEF l, h
    <3>4. /\ h.nodes[i].labels[field] = Filled(l[field], r.labels[field])
          /\ field # "action" => Agrees(l[field], r.labels[field])
      BY <1>0, <3>1, <3>2, <3>3, FilledFields
    <3>5. ASSUME r.child \notin others
          PROVE  h.nodes[i].labels[field] = First(more, n + 1, r.child, field)
      <4>1. l[field] = First(records, n, r.child, field)  BY <1>3, <2>2, <3>5 DEF l
      <4> QED  BY <1>2, <3>4, <4>1
    <3>6. ASSUME field # "action", NEW k \in 1..(n + 1), more[k].child = r.child
          PROVE  more[k].labels[field] \in {None, h.nodes[i].labels[field]}
      <4>1. CASE k \in 1..n
        <5>1. records[k].labels[field] \in {None, l[field]} /\ more[k] = records[k]
          BY <1>3, <2>2, <3>6, <4>1 DEF l
        <5> QED  BY <3>4, <5>1 DEF Filled
      <4>2. CASE k = n + 1
        BY <3>4, <3>6, <4>2 DEF Filled, Agrees
      <4> QED  BY <1>1, <4>1, <4>2
    <3> QED  BY <3>5, <3>6
  <2> HIDE DEF Fits, h
  <2> QED  BY <1>5, <2>1, <2>2
<1>7. CASE ~contains(g, r.child)
  <2> DEFINE m == Len(g.nodes) + 1
  <2>1. /\ \A i \in Positions(h) : i \in Positions(g) \/ i = m
        /\ \A i \in Positions(g) : h.nodes[i] = g.nodes[i]
        /\ h.nodes[m].state = r.child
        /\ h.nodes[m].labels = r.labels
    BY <1>0, <1>7, NodesOfNew
  <2>2. \A i \in Positions(g) : g.nodes[i].state # r.child
    BY <1>7 DEF contains, Known
  <2>3. \A k \in 1..n : records[k].child # r.child
    BY <1>7 DEF contains, Met
  <2>4. ASSUME NEW field \in DOMAIN NoLabels
        PROVE  Fits(r.child, r.labels, field)
    <3>1. First(records, n, r.child, field) = None  BY <2>3, FirstOfNone
    <3>2. First(more, n + 1, r.child, field) = r.labels[field]  BY <1>2, <3>1 DEF Filled
    <3>3. ASSUME NEW k \in 1..(n + 1), more[k].child = r.child
          PROVE  more[k].labels[field] = r.labels[field]
      BY <1>1, <2>3, <3>3
    <3> QED  BY <3>2, <3>3
  <2> HIDE DEF Fits, h, m
  <2> QED  BY <1>5, <2>1, <2>2, <2>4
<1> QED  BY <1>6, <1>7

\* A refused one may only have filled in the node that it was refused at.
LEMMA LabelledRefused ==
  ASSUME NEW g, DagOK(g), NEW r \in Records, contains(g, r.child),
         NEW records, NEW n, NEW others, NEW wider, others \cup {r.child} \subseteq wider,
         Labelled(g, records, n, others)
  PROVE  Labelled(WithNode(g, r.child, r.labels), records, n, wider)
<1> DEFINE h == WithNode(g, r.child, r.labels)
<1>0. DagTyped(g) /\ r.child \in States /\ r.labels \in Labels
  BY DEF DagOK, Records
<1>1. /\ Positions(h) = Positions(g)
      /\ \A i \in Positions(g) :
           /\ h.nodes[i].state = g.nodes[i].state
           /\ h.nodes[i].labels = IF g.nodes[i].state = r.child
                                  THEN FilledLabels(g.nodes[i].labels, r.labels)
                                  ELSE g.nodes[i].labels
  BY <1>0, WithNodeIs
<1> HIDE DEF h
<1>2. \A i \in Positions(g) : \A field \in DOMAIN NoLabels :
        g.nodes[i].labels[field] \in {None, h.nodes[i].labels[field]}
  BY <1>0, <1>1, LabelsOfNode, FilledKeeps
<1>3. ASSUME NEW i \in Positions(h), NEW field \in DOMAIN NoLabels
      PROVE  /\ h.nodes[i].state \notin wider =>
                  h.nodes[i].labels[field] = First(records, n, h.nodes[i].state, field)
             /\ field # "action" => \A k \in 1..n :
                  records[k].child = h.nodes[i].state =>
                    records[k].labels[field] \in {None, h.nodes[i].labels[field]}
  <2>1. /\ g.nodes[i].state \notin others =>
             g.nodes[i].labels[field] = First(records, n, g.nodes[i].state, field)
        /\ field # "action" => \A k \in 1..n :
             records[k].child = g.nodes[i].state =>
               records[k].labels[field] \in {None, g.nodes[i].labels[field]}
    BY <1>1 DEF Labelled
  <2> QED  BY <1>1, <1>2, <2>1
<1>4. Labelled(h, records, n, wider)  BY <1>3 DEF Labelled
<1> QED  BY <1>4 DEF h

-----------------------------------------------------------------------------
(***************************************************************************)
(* What a dag shows of n accepted records and a set of refused ones.       *)
(***************************************************************************)
Shows(g, records, n, turned) ==
  /\ Told(g, records, n, {r.parent : r \in turned})
  /\ Labelled(g, records, n, {r.child : r \in turned})

LEMMA ShowsNew ==
  ASSUME NEW s \in States, NEW records
  PROVE  Shows(NewDag(s), records, 0, {})
<1> DEFINE g == NewDag(s)
           node == Node(s, 0, NoLabels)
<1>1. g = [nodes |-> <<node>>, adjacency |-> <<<<>>>>]  BY DEF NewDag
<1>2. node.state = s /\ node.labels = NoLabels  BY DEF Node
<1> HIDE DEF node, g
<1>3. Positions(g) = {1} /\ g.nodes[1] = node /\ g.adjacency[1] = <<>>
  BY <1>1 DEF Positions
<1>4. \A t, u : Arcs(g, t, u) = {}
  <2>1. DOMAIN g.adjacency[1] = {}  BY <1>3
  <2> QED  BY <1>3, <2>1, ArcMember
<1>5. \A k : k \notin 1..0  OBVIOUS
<1>6. \A t, u : Registrations(records, 0, t, u) = {}  BY <1>5 DEF Registrations
<1>7. ToldArcs(g, records, 0)
  BY <1>4, <1>6, FS_EmptySet DEF ToldArcs
<1>8. Known(g) = {s}  BY <1>2, <1>3 DEF Known
<1>9. Met(g, records, 0) = {s}  BY <1>2, <1>3, <1>5 DEF Met
<1>10. \A field \in DOMAIN NoLabels : NoLabels[field] = None  BY DEF NoLabels
<1>11. \A field : First(records, 0, s, field) = None  BY <1>5, FirstOfNone
<1>12. Labelled(g, records, 0, {})
  BY <1>2, <1>3, <1>5, <1>10, <1>11 DEF Labelled
<1>13. Told(g, records, 0, {})  BY <1>7, <1>8, <1>9 DEF Told
<1> QED  BY <1>12, <1>13 DEF Shows, g

LEMMA ShowsAccepted ==
  ASSUME NEW g, DagOK(g), NEW r \in Records, NEW require_parent \in BOOLEAN,
         Registers(g, r, require_parent),
         NEW records, NEW more, NEW n \in Nat, NEW turned,
         \A k \in 1..n : more[k] = records[k], more[n + 1] = r,
         Shows(g, records, n, turned)
  PROVE  Shows(AfterRecord(g, r, require_parent), more, n + 1, turned)
<1> DEFINE parented == WithParent(g, r, require_parent)
           childed == WithChild(g, r, require_parent)
           h == AfterRecord(g, r, require_parent)
           children == {q.child : q \in turned}
           parents == {q.parent : q \in turned}
<1>0. require_parent => contains(g, r.parent)  BY DEF Registers
<1>1. r.parent \in States /\ NoLabels \in Labels
  BY DEF Records, Labels, NoLabels, Optional
<1>2. Told(g, records, n, parents) /\ Labelled(g, records, n, children)  BY DEF Shows
<1>3. Met(g, records, n) \subseteq Known(g)  BY <1>2 DEF Told
<1> HIDE DEF children, parents
<1>4. /\ DagOK(parented)
      /\ Met(parented, records, n) \subseteq Known(parented)
      /\ Labelled(parented, records, n, children)
  <2>1. CASE require_parent
    BY <1>2, <1>3, <2>1 DEF WithParent
  <2>2. CASE ~require_parent
    <3>1. parented = WithNode(g, r.parent, NoLabels)  BY <2>2 DEF WithParent
    <3> HIDE DEF parented
    <3>2. /\ DagOK(parented)
          /\ Known(parented) = Known(g) \cup {r.parent}
          /\ parented.nodes[1].state = g.nodes[1].state
      BY <1>1, <3>1, WithNodeOK, WithNodeTells
    <3>3. Labelled(parented, records, n, children)
      BY <1>1, <1>2, <1>3, <3>1, LabelledParent
    <3> QED  BY <1>3, <3>2, <3>3 DEF Met
  <2> QED  BY <2>1, <2>2
<1>5. MayLabel(parented, r.child, r.labels)  BY DEF Registers
<1>6. childed = WithNode(parented, r.child, r.labels)  BY DEF WithChild
<1> HIDE DEF parented
<1>7. Labelled(childed, more, n + 1, children)
  BY <1>4, <1>5, <1>6, LabelledChild
<1>8. h = Joined(childed, r)  BY <1>0 DEF AfterRecord
<1>9. DagOK(childed) /\ contains(childed, r.parent) /\ contains(childed, r.child)
  BY <1>0, WithChildTells
<1> HIDE DEF childed, h
<1>10. h.nodes = childed.nodes  BY <1>8, <1>9, JoinedTells
<1>11. Labelled(h, more, n + 1, children)
  BY <1>7, <1>10 DEF Labelled, Positions
<1>12. Told(h, more, n + 1, parents)
  BY <1>2, ToldOfAccepted DEF h
<1> QED  BY <1>11, <1>12 DEF Shows, h, children, parents

LEMMA ShowsRefused ==
  ASSUME NEW g, DagOK(g), NEW r \in Records, NEW require_parent \in BOOLEAN,
         require_parent => contains(g, r.parent), ~Registers(g, r, require_parent),
         NEW records, NEW n \in Nat, NEW turned,
         Shows(g, records, n, turned)
  PROVE  Shows(AfterRecord(g, r, require_parent), records, n, turned \cup {r})
<1> DEFINE parented == WithParent(g, r, require_parent)
           h == AfterRecord(g, r, require_parent)
           children == {q.child : q \in turned}
           parents == {q.parent : q \in turned}
           children2 == {q.child : q \in turned \cup {r}}
           parents2 == {q.parent : q \in turned \cup {r}}
<1>1. r.parent \in States /\ NoLabels \in Labels
  BY DEF Records, Labels, NoLabels, Optional
<1>2. Told(g, records, n, parents) /\ Labelled(g, records, n, children)  BY DEF Shows
<1>3. Met(g, records, n) \subseteq Known(g)  BY <1>2 DEF Told
<1>4. children \cup {r.child} \subseteq children2 /\ parents \cup {r.parent} \subseteq parents2
  OBVIOUS
<1> HIDE DEF children, parents, children2, parents2
<1>5. DagOK(parented) /\ Labelled(parented, records, n, children)
  <2>1. CASE require_parent
    BY <1>2, <2>1 DEF WithParent
  <2>2. CASE ~require_parent
    <3>1. parented = WithNode(g, r.parent, NoLabels)  BY <2>2 DEF WithParent
    <3> HIDE DEF parented
    <3> QED  BY <1>1, <1>2, <1>3, <3>1, WithNodeOK, LabelledParent
  <2> QED  BY <2>1, <2>2
<1>6. contains(parented, r.child)  BY DEF Registers, MayLabel
<1>7. h = WithNode(parented, r.child, r.labels)  BY DEF AfterRecord, WithChild
<1>8. Told(h, records, n, parents2)  BY <1>2, <1>4, ToldOfRefused
<1> HIDE DEF parented, h
<1>9. Labelled(h, records, n, children2)
  BY <1>4, <1>5, <1>6, <1>7, LabelledRefused
<1> QED  BY <1>8, <1>9 DEF Shows, h, children2, parents2

LEMMA ShowsFinalized ==
  ASSUME NEW g, DagOK(g), NEW records, NEW n, NEW turned, Shows(g, records, n, turned)
  PROVE  Shows(Finalized(g), records, n, turned)
<1> DEFINE h == Finalized(g)
<1>1. /\ Known(h) = Known(g)
      /\ Positions(h) = Positions(g)
      /\ \A i \in Positions(g) :
           h.nodes[i].state = g.nodes[i].state /\ h.nodes[i].labels = g.nodes[i].labels
      /\ \A t, u : Arcs(h, t, u) = Arcs(g, t, u)
  BY FinalizedTells
<1>2. 1 \in Positions(g)  BY PositionsAreInitial DEF DagOK
<1> HIDE DEF h
<1>3. Met(h, records, n) = Met(g, records, n)  BY <1>1, <1>2 DEF Met
<1>4. ToldArcs(h, records, n)  BY <1>1 DEF Shows, Told, ToldArcs
<1>5. Labelled(h, records, n, {r.child : r \in turned})
  BY <1>1 DEF Shows, Labelled
<1> QED  BY <1>1, <1>3, <1>4, <1>5 DEF Shows, Told, h

\* Records behind the first n do not matter.
LEMMA ShowsPrefix ==
  ASSUME NEW g, NEW records, NEW more, NEW n \in Nat, NEW turned,
         \A k \in 1..n : more[k] = records[k],
         Shows(g, records, n, turned)
  PROVE  Shows(g, more, n, turned)
<1>1. \A s, t : Registrations(more, n, s, t) = Registrations(records, n, s, t)
  BY DEF Registrations
<1>2. Met(g, more, n) = Met(g, records, n)
  <2>1. {more[k].parent : k \in 1..n} = {records[k].parent : k \in 1..n}  OBVIOUS
  <2>2. {more[k].child : k \in 1..n} = {records[k].child : k \in 1..n}  OBVIOUS
  <2> QED  BY <2>1, <2>2 DEF Met
<1>3. \A s, field : First(more, n, s, field) = First(records, n, s, field)
  <2>1. ASSUME NEW s, NEW field
        PROVE  First(more, n, s, field) = First(records, n, s, field)
    <3> DEFINE given == GivenTo(records, n, s, field)
               least == CHOOSE k \in given : \A l \in given : k <= l
    <3>1. GivenTo(more, n, s, field) = given  BY DEF GivenTo
    <3>2. given \subseteq 1..n  BY DEF GivenTo
    <3>3. First(more, n, s, field) = IF given = {} THEN None ELSE more[least].labels[field]
      BY <3>1 DEF First
    <3>4. First(records, n, s, field) = IF given = {} THEN None ELSE records[least].labels[field]
      BY DEF First
    <3> HIDE DEF given
    <3>5. ASSUME given # {}
          PROVE  least \in given
      <4>1. 1..n \subseteq Nat  OBVIOUS
      <4>2. \E k \in given : \A l \in given : k <= l  BY <3>2, <3>5, <4>1, NatLeast
      <4> QED  BY <4>2
    <3> HIDE DEF least
    <3>6. CASE given = {}  BY <3>3, <3>4, <3>6
    <3>7. CASE given # {}
      <4>1. more[least] = records[least]  BY <3>2, <3>5, <3>7
      <4> QED  BY <3>3, <3>4, <3>7, <4>1
    <3> QED  BY <3>6, <3>7
  <2> QED  BY <2>1
<1>4. ToldArcs(g, more, n)  BY <1>1 DEF Shows, Told, ToldArcs
<1>5. Labelled(g, more, n, {r.child : r \in turned})
  BY <1>3 DEF Shows, Labelled
<1> QED  BY <1>2, <1>4, <1>5 DEF Shows, Told

-----------------------------------------------------------------------------
(***************************************************************************)
(* The levels of finalize_depths.  Facts about every level go up from the  *)
(* first one, by UpTo.                                                     *)
(***************************************************************************)
LEMMA UpTo ==
  ASSUME NEW S, NEW n \in Nat, 0 \in S, \A k \in 0..(n - 1) : k \in S => k + 1 \in S
  PROVE  \A k \in 0..n : k \in S
<1> DEFINE Missing == {k \in 0..n : k \notin S}
<1>1. SUFFICES ASSUME Missing # {} PROVE FALSE
  OBVIOUS
<1>2. Missing \subseteq Nat  OBVIOUS
<1> HIDE DEF Missing
<1>3. PICK k \in Missing : \A l \in Missing : k <= l  BY <1>1, <1>2, NatLeast
<1> USE DEF Missing
<1>4. k \in 0..n /\ k \notin S /\ k # 0  BY <1>3
<1>5. k - 1 \in 0..(n - 1) /\ k - 1 \in 0..n /\ ~(k <= k - 1) /\ (k - 1) + 1 = k  BY <1>4
<1>6. k - 1 \in S  BY <1>3, <1>5
<1> QED  BY <1>4, <1>5, <1>6

IsLevels(f, root, pairs, n) ==
  f = [k \in 0..n |-> IF k = 0 THEN {root} ELSE Reached(pairs, f[k - 1])]

LEMMA LevelsExist ==
  ASSUME NEW root, NEW pairs, NEW n \in Nat
  PROVE  \E f : IsLevels(f, root, pairs, n)
<1> DEFINE Found == {m \in Nat : \E f : IsLevels(f, root, pairs, m)}
<1>1. 0 \in Found
  <2> DEFINE f == [k \in 0..0 |-> {root}]
  <2>1. f = [k \in 0..0 |-> IF k = 0 THEN {root} ELSE Reached(pairs, f[k - 1])]  OBVIOUS
  <2>2. IsLevels(f, root, pairs, 0)  BY <2>1 DEF IsLevels
  <2> QED  BY <2>2
<1>2. ASSUME NEW m \in 0..(n - 1), m \in Found
      PROVE  m + 1 \in Found
  <2>1. PICK g : IsLevels(g, root, pairs, m)  BY <1>2
  <2> DEFINE f == [k \in 0..(m + 1) |-> IF k <= m THEN g[k] ELSE Reached(pairs, g[m])]
             r == [k \in 0..(m + 1) |-> IF k = 0 THEN {root} ELSE Reached(pairs, f[k - 1])]
  <2>2. \A k \in 0..m : g[k] = IF k = 0 THEN {root} ELSE Reached(pairs, g[k - 1])
    BY <2>1 DEF IsLevels
  <2>3. ASSUME NEW k \in 0..(m + 1)
        PROVE  f[k] = IF k = 0 THEN {root} ELSE Reached(pairs, f[k - 1])
    <3>1. CASE k = m + 1
      <4>1. f[k - 1] = g[m] /\ f[k] = Reached(pairs, g[m]) /\ k # 0  BY <3>1
      <4> QED  BY <3>1, <4>1
    <3>2. CASE k # m + 1
      <4>1. k \in 0..m /\ f[k] = g[k] /\ (k # 0 => f[k - 1] = g[k - 1])  BY <3>2
      <4> QED  BY <2>2, <4>1
    <3> QED  BY <3>1, <3>2
  <2>4. \A k \in 0..(m + 1) : f[k] = r[k]  BY <2>3
  <2>5. f = r  BY <2>4
  <2>6. IsLevels(f, root, pairs, m + 1)  BY <2>5 DEF IsLevels
  <2>7. m + 1 \in Nat  OBVIOUS
  <2> QED  BY <2>6, <2>7
<1> HIDE DEF Found
<1>3. n \in Found  BY <1>1, <1>2, UpTo
<1> QED  BY <1>3 DEF Found

LEMMA LevelsAre ==
  ASSUME NEW root, NEW pairs, NEW n \in Nat
  PROVE  /\ Levels(root, pairs, n)[0] = {root}
         /\ \A k \in 0..(n - 1) :
              Levels(root, pairs, n)[k + 1] = Reached(pairs, Levels(root, pairs, n)[k])
<1> DEFINE f == Levels(root, pairs, n)
<1>1. f = CHOOSE g : IsLevels(g, root, pairs, n)  BY DEF Levels, IsLevels
<1>2. IsLevels(f, root, pairs, n)  BY <1>1, LevelsExist
<1> HIDE DEF f
<1>3. \A k \in 0..n : f[k] = IF k = 0 THEN {root} ELSE Reached(pairs, f[k - 1])
  BY <1>2 DEF IsLevels
<1>4. f[0] = {root}  BY <1>3
<1>5. ASSUME NEW k \in 0..(n - 1)
      PROVE  f[k + 1] = Reached(pairs, f[k])
  <2>1. k + 1 \in 0..n /\ k + 1 # 0 /\ (k + 1) - 1 = k  OBVIOUS
  <2> QED  BY <1>3, <2>1
<1> QED  BY <1>4, <1>5 DEF f

\* Any function whose values follow each other like that.
Climbs(f, pairs, n) == \A k \in 0..(n - 1) : f[k + 1] = Reached(pairs, f[k])

LEMMA LevelsGrow ==
  ASSUME NEW f, NEW pairs, NEW n \in Nat, Climbs(f, pairs, n), NEW j \in 0..n
  PROVE  \A k \in 0..n : j <= k => f[j] \subseteq f[k]
<1> DEFINE Above == {k \in Nat : j <= k => f[j] \subseteq f[k]}
<1>1. 0 \in Above  OBVIOUS
<1>2. ASSUME NEW k \in 0..(n - 1), k \in Above
      PROVE  k + 1 \in Above
  <2>1. f[k] \subseteq f[k + 1]  BY DEF Climbs, Reached
  <2>2. CASE j <= k  BY <1>2, <2>1, <2>2
  <2>3. CASE j = k + 1  BY <2>3
  <2>4. CASE j > k + 1  BY <2>4
  <2> QED  BY <2>2, <2>3, <2>4
<1>3. \A k \in 0..n : k \in Above
  <2> HIDE DEF Above
  <2> QED  BY <1>1, <1>2, UpTo
<1> QED  BY <1>3

\* Levels that stay among n things have settled after n - 1 steps.
LEMMA LevelsSettle ==
  ASSUME NEW f, NEW root, NEW pairs, NEW n \in Nat \ {0}, f[0] = {root}, Climbs(f, pairs, n),
         NEW P, IsFiniteSet(P), Cardinality(P) <= n, root \in P, \A p \in pairs : p[2] \in P
  PROVE  f[n] = f[n - 1] /\ f[n] \subseteq P
<1>1. \A k \in 0..n : f[k] \subseteq P
  <2> DEFINE Inside == {k \in Nat : f[k] \subseteq P}
  <2>1. 0 \in Inside  OBVIOUS
  <2>2. ASSUME NEW k \in 0..(n - 1), k \in Inside
        PROVE  k + 1 \in Inside
    <3>1. f[k + 1] = Reached(pairs, f[k])  BY DEF Climbs
    <3> QED  BY <2>2, <3>1 DEF Reached
  <2>3. \A k \in 0..n : k \in Inside
    <3> HIDE DEF Inside
    <3> QED  BY <2>1, <2>2, UpTo
  <2> QED  BY <2>3
<1>2. \A k \in 0..n : IsFiniteSet(f[k]) /\ Cardinality(f[k]) \in Nat /\ Cardinality(f[k]) <= Cardinality(P)
  BY <1>1, FS_Subset, FS_CardinalityType
<1>3. \A k \in 0..(n - 1) : k \in 0..n /\ k + 1 \in 0..n  OBVIOUS
<1>4. \E m \in 0..(n - 1) : f[m + 1] = f[m]
  <2>1. SUFFICES ASSUME \A m \in 0..(n - 1) : f[m + 1] # f[m] PROVE FALSE
    OBVIOUS
  <2> DEFINE Large == {k \in Nat : k <= n => Cardinality(f[k]) >= k + 1}
  <2>2. 0 \in Large
    <3>1. Cardinality(f[0]) = 1  BY FS_Singleton
    <3> QED  BY <3>1
  <2>3. ASSUME NEW k \in 0..(n - 1), k \in Large
        PROVE  k + 1 \in Large
    <3>1. f[k] \subseteq f[k + 1] /\ f[k] # f[k + 1]  BY <2>1 DEF Climbs, Reached
    <3>2. Cardinality(f[k]) <= Cardinality(f[k + 1]) /\ Cardinality(f[k]) # Cardinality(f[k + 1])
      BY <1>2, <1>3, <3>1, FS_Subset
    <3>3. Cardinality(f[k]) \in Nat /\ Cardinality(f[k + 1]) \in Nat  BY <1>2, <1>3
    <3>4. Cardinality(f[k]) >= k + 1  BY <2>3
    <3> QED  BY <3>2, <3>3, <3>4
  <2>4. n \in Large
    <3> HIDE DEF Large
    <3> QED  BY <2>2, <2>3, UpTo
  <2>5. n \in 0..n /\ Cardinality(P) \in Nat  BY FS_CardinalityType
  <2>6. Cardinality(f[n]) \in Nat /\ Cardinality(f[n]) <= Cardinality(P)  BY <1>2, <2>5
  <2> QED  BY <2>4, <2>5, <2>6
<1>5. PICK m \in 0..(n - 1) : f[m + 1] = f[m]  BY <1>4
<1>6. \A k \in 0..n : m <= k => f[k] = f[m]
  <2> DEFINE Same == {k \in Nat : m <= k => f[k] = f[m]}
  <2>1. 0 \in Same  OBVIOUS
  <2>2. ASSUME NEW k \in 0..(n - 1), k \in Same
        PROVE  k + 1 \in Same
    <3>1. CASE m <= k
      <4>1. f[k] = f[m]  BY <2>2, <3>1
      <4>2. f[k + 1] = Reached(pairs, f[k]) /\ f[m + 1] = Reached(pairs, f[m])  BY DEF Climbs
      <4> QED  BY <1>5, <4>1, <4>2
    <3>2. CASE m = k + 1  BY <3>2
    <3>3. CASE m > k + 1  BY <3>3
    <3> QED  BY <3>1, <3>2, <3>3
  <2>3. \A k \in 0..n : k \in Same
    <3> HIDE DEF Same
    <3> QED  BY <2>1, <2>2, UpTo
  <2> QED  BY <2>3
<1>7. n \in 0..n /\ n - 1 \in 0..n /\ m <= n /\ m <= n - 1  OBVIOUS
<1> QED  BY <1>1, <1>6, <1>7

\* The depth of what is met is the first level that it is met in.
LEMMA DepthIsFirst ==
  ASSUME NEW f, NEW pairs, NEW n \in Nat, Climbs(f, pairs, n), NEW i, i \in f[n]
  PROVE  /\ Depth(f, n, i) \in 0..n
         /\ \A k \in 0..n : i \in f[k] <=> Depth(f, n, i) <= k
<1> DEFINE met == {k \in 0..n : i \in f[k]}
<1>1. met \subseteq Nat /\ n \in met  OBVIOUS
<1>2. PICK m \in met : \A k \in met : m <= k  BY <1>1, NatLeast
<1>3. m \in 0..n /\ i \in f[m] /\ \A k \in 0..n : i \in f[k] => m <= k  BY <1>2
<1>4. \A k \in 0..n : i \in f[k] <=> m <= k  BY <1>3, LevelsGrow
<1>5. {k \in 0..(n - 1) : i \notin f[k]} = 0..(m - 1)
  <2>1. \A k \in 0..(n - 1) : i \notin f[k] <=> k \in 0..(m - 1)  BY <1>3, <1>4
  <2>2. 0..(m - 1) \subseteq 0..(n - 1)  BY <1>3
  <2> QED  BY <2>1, <2>2
<1>6. Cardinality(0..(m - 1)) = m
  <2>1. 0 \in Int /\ m - 1 \in Int  BY <1>3
  <2>2. Cardinality(0..(m - 1)) = IF 0 > m - 1 THEN 0 ELSE (m - 1) - 0 + 1
    BY <2>1, FS_Interval
  <2> QED  BY <1>3, <2>2
<1>7. Depth(f, n, i) = m  BY <1>5, <1>6 DEF Depth
<1> QED  BY <1>3, <1>4, <1>7

-----------------------------------------------------------------------------
(***************************************************************************)
(* The inductive invariant.  An import's edges end at nodes of the graph,  *)
(* so that every record it makes is a record.                              *)
(***************************************************************************)
EdgesOf(graph) == Indices(graph) \X Indices(graph) \X Optional(GroundActions)

GraphOK ==
  /\ rx \in [data : Seq(NodeData), edges : Seq(EdgesOf(rx))]
  /\ Len(rx.data) <= Len(RxNodes)

ImportOK ==
  Importing =>
    /\ import \in [fallback : BOOLEAN, pending : Seq(EdgesOf(rx)), waiting : Seq(EdgesOf(rx)),
                   available : SUBSET Nat, progressed : BOOLEAN,
                   records : Seq(Records), registered : Nat, dag : {import.dag}]
    /\ DagOK(import.dag)

HistoryOK ==
  /\ accepted \in Seq(Records)
  /\ refused \subseteq Records
  /\ bulk \in Seq(Records)
  /\ unfinished \in BOOLEAN
  /\ imported \in BOOLEAN

Inv ==
  /\ DagOK(dag)
  /\ HistoryOK
  /\ GraphOK
  /\ ImportOK

LEMMA NewDagOK ==
  ASSUME NEW s \in States
  PROVE  DagOK(NewDag(s))
<1> DEFINE node == Node(s, 0, NoLabels)
<1>1. node \in DagNodes
  <2>1. NoLabels \in Labels  BY DEF NoLabels, Labels, Optional
  <2> QED  BY <2>1 DEF Node, DagNodes
<1> HIDE DEF node
<1>2. NewDag(s) = [nodes |-> <<node>>, adjacency |-> <<<<>>>>]  BY DEF NewDag, node
<1>3. Positions(NewDag(s)) = {1}  BY <1>2 DEF Positions
<1>4. <<node>> \in Seq(DagNodes) /\ <<node>> # <<>>  BY <1>1
<1>5. <<<<>>>> \in Seq(Seq({1})) /\ DOMAIN <<<<>>>> = {1}  OBVIOUS
<1>6. DagTyped(NewDag(s))  BY <1>2, <1>3, <1>4, <1>5 DEF DagTyped
<1>7. OneNodePerState(NewDag(s))  BY <1>3 DEF OneNodePerState
<1> QED  BY <1>6, <1>7 DEF DagOK

LEMMA RootIsNode ==
  ASSUME NEW graph, SingleRoot(graph)
  PROVE  RootOf(graph) \in Indices(graph)
<1>1. Roots(graph) # {}
  <2>1. Cardinality({}) = 0  BY FS_EmptySet
  <2> QED  BY <2>1 DEF SingleRoot
<1>2. Roots(graph) \subseteq Indices(graph)  BY DEF Roots
<1>3. \E i \in Indices(graph) : i \in Roots(graph)  BY <1>1, <1>2
<1> QED  BY <1>3 DEF RootOf

LEMMA EdgeRecordIsRecord ==
  ASSUME GraphOK, NEW fallback \in BOOLEAN, NEW e \in EdgesOf(rx)
  PROVE  EdgeRecord(rx, fallback, e) \in Records
<1>1. e[1] \in Indices(rx) /\ e[2] \in Indices(rx) /\ e[3] \in Optional(GroundActions)
  BY DEF EdgesOf
<1>2. /\ rx.data \in Seq(NodeData)
      /\ Len(RxNodes) \in Nat
      /\ Len(rx.data) <= Len(RxNodes)
  BY GraphAssumption DEF GraphOK
<1>3. \A i \in Indices(rx) : rx.data[i] \in NodeData /\ i - 1 \in 0..Len(RxNodes)
  BY <1>2 DEF Indices
<1>4. \A i \in Indices(rx) : /\ rx.data[i].state \in States
                             /\ rx.data[i].candidate_id \in Optional(CandidateIds)
                             /\ rx.data[i].delta \in Optional(Deltas)
                             /\ i - 1 \in CandidateIds
  BY <1>3, GraphAssumption DEF NodeData
<1>5. ResolvedId(rx, fallback, e[2]) \in Optional(CandidateIds)
  BY <1>1, <1>4 DEF ResolvedId, Optional
<1> QED  BY <1>1, <1>4, <1>5 DEF EdgeRecord, Records, Labels

LEMMA InitInv ==
  ASSUME Init
  PROVE  Inv
<1>1. DagOK(dag)  BY NewDagOK, RootAssumption DEF Init
<1>2. GraphOK
  BY GraphAssumption DEF Init, GraphOK, EmptyGraph
<1>3. ImportOK  BY DEF Init, ImportOK, Importing
<1>4. accepted \in Seq(Records) /\ bulk \in Seq(Records)  BY DEF Init
<1>5. refused \subseteq Records /\ unfinished \in BOOLEAN /\ imported \in BOOLEAN
  BY DEF Init
<1> QED  BY <1>1, <1>2, <1>3, <1>4, <1>5 DEF Inv, HistoryOK

LEMMA ImportFields ==
  ASSUME Inv, Importing
  PROVE  /\ import.fallback \in BOOLEAN
         /\ import.pending \in Seq(EdgesOf(rx))
         /\ import.waiting \in Seq(EdgesOf(rx))
         /\ import.records \in Seq(Records)
         /\ import.registered \in Nat
         /\ DagOK(import.dag)
BY DEF Inv, ImportOK

(***************************************************************************)
(* Steps on the caller's dag.                                              *)
(***************************************************************************)
DagStep ==
  \/ \E r \in Calls : RegisterTransition(r) \/ RegisterTransitionRaises(r)
  \/ \E records \in BulkCalls : BulkBegins(records)
  \/ BulkRegisters \/ BulkRaises

LEMMA DagStepKeeps ==
  ASSUME Inv, DagStep
  PROVE  Inv' /\ Extends(dag', dag)
<1>0. DagOK(dag) /\ DagTyped(dag) /\ accepted \in Seq(Records) /\ refused \subseteq Records
      /\ bulk \in Seq(Records)
  BY DEF Inv, DagOK, HistoryOK
<1>1. DagOK(dag') /\ Extends(dag', dag)
  <2>1. ASSUME NEW r \in Records, NEW require_parent \in BOOLEAN,
               dag' \in {AfterRecord(dag, r, require_parent),
                        Finalized(AfterRecord(dag, r, require_parent))}
        PROVE  DagOK(dag') /\ Extends(dag', dag)
    <3> DEFINE after == AfterRecord(dag, r, require_parent)
    <3>1. DagOK(after) /\ Extends(after, dag)  BY <1>0, <2>1, AfterRecordOK
    <3> HIDE DEF after
    <3>2. DagOK(Finalized(after)) /\ Extends(Finalized(after), after)
      BY <3>1, FinalizedOK
    <3>3. Extends(Finalized(after), dag)
      BY <1>0, <3>1, <3>2, ExtendsTransitive DEF DagOK
    <3> QED  BY <2>1, <3>1, <3>2, <3>3 DEF after
  <2>2. CASE \E r \in Calls : RegisterTransition(r) \/ RegisterTransitionRaises(r)
    BY <2>1, <2>2, InputAssumption DEF RegisterTransition, RegisterTransitionRaises
  <2>3. CASE \E records \in BulkCalls : BulkBegins(records)
    BY <1>0, <2>3, ExtendsSelf DEF BulkBegins
  <2>4. CASE BulkRegisters \/ BulkRaises
    <3>1. Head(bulk) \in Records  BY <1>0, <2>4, HeadAndTail DEF BulkRegisters, BulkRaises
    <3> QED  BY <2>1, <2>4, <3>1 DEF BulkRegisters, BulkRaises
  <2> QED  BY <2>2, <2>3, <2>4 DEF DagStep
<1>2. HistoryOK'
  <2>1. ASSUME NEW r \in Calls, RegisterTransition(r) \/ RegisterTransitionRaises(r)
        PROVE  HistoryOK'
    <3>1. r \in Records  BY <2>1, InputAssumption
    <3>2. Append(accepted, r) \in Seq(Records) /\ refused \cup {r} \subseteq Records
      BY <1>0, <3>1
    <3>3. accepted' \in {accepted, Append(accepted, r)} /\ refused' \in {refused, refused \cup {r}}
      BY <2>1 DEF RegisterTransition, RegisterTransitionRaises
    <3>4. /\ bulk' = bulk
          /\ unfinished' = FALSE \/ unfinished' = unfinished
          /\ imported' = FALSE
      BY <2>1 DEF RegisterTransition, RegisterTransitionRaises, OnDag
    <3> QED  BY <1>0, <3>2, <3>3, <3>4 DEF Inv, HistoryOK
  <2>2. ASSUME NEW records \in BulkCalls, BulkBegins(records)
        PROVE  HistoryOK'
    BY <1>0, <2>2, InputAssumption DEF BulkBegins, OnDag, Inv, HistoryOK
  <2>3. CASE BulkRegisters \/ BulkRaises
    <3>1. Head(bulk) \in Records /\ Tail(bulk) \in Seq(Records)
      BY <1>0, <2>3, HeadAndTail DEF BulkRegisters, BulkRaises
    <3>2. Append(accepted, Head(bulk)) \in Seq(Records) /\ refused \cup {Head(bulk)} \subseteq Records
      BY <1>0, <3>1
    <3>3. /\ accepted' \in {accepted, Append(accepted, Head(bulk))}
          /\ refused' \in {refused, refused \cup {Head(bulk)}}
          /\ bulk' \in {Tail(bulk), <<>>}
          /\ imported' = imported
      BY <2>3 DEF BulkRegisters, BulkRaises
    <3>4. unfinished' \in BOOLEAN
      BY <2>3 DEF BulkRegisters, BulkRaises, Inv, HistoryOK
    <3>5. bulk' \in Seq(Records)
      <4>1. <<>> \in Seq(Records)  OBVIOUS
      <4> QED  BY <3>1, <3>3, <4>1
    <3> QED  BY <1>0, <3>2, <3>3, <3>4, <3>5 DEF Inv, HistoryOK
  <2> QED  BY <2>1, <2>2, <2>3 DEF DagStep
<1>3. rx' \in {rx, EmptyGraph} /\ import' = import /\ (Importing => rx' = rx)
  BY DEF DagStep, RegisterTransition, RegisterTransitionRaises, BulkBegins, OnDag,
         BulkRegisters, BulkRaises
<1>4. GraphOK'
  <2>1. CASE rx' = rx
    BY <2>1 DEF Inv, GraphOK, EdgesOf, Indices
  <2>2. CASE rx' = EmptyGraph
    <3>1. /\ rx' \in [data : Seq(NodeData), edges : Seq(EdgesOf(rx'))]
          /\ Len(rx'.data) = 0
      BY <2>2 DEF EmptyGraph
    <3>2. Len(RxNodes) \in Nat  BY GraphAssumption
    <3> QED  BY <3>1, <3>2 DEF GraphOK
  <2> QED  BY <1>3, <2>1, <2>2
<1>5. ImportOK'
  BY <1>3 DEF Inv, ImportOK, Importing, EdgesOf, Indices
<1> QED  BY <1>1, <1>2, <1>4, <1>5 DEF Inv

(***************************************************************************)
(* Steps on the rustworkx graph and on an import.                          *)
(***************************************************************************)
GraphStep ==
  \/ \E data \in UNION {RxNodes[k] : k \in DOMAIN RxNodes} : RxAddNode(data)
  \/ \E e \in RxEdges : RxAddEdge(e)

LEMMA GraphStepKeeps ==
  ASSUME Inv, GraphStep
  PROVE  Inv' /\ Extends(dag', dag)
<1>0. /\ ~Importing
      /\ UNCHANGED <<dag, accepted, refused, bulk, unfinished, import>>
      /\ imported' = FALSE
  BY DEF GraphStep, RxAddNode, RxAddEdge, OnGraph
<1>1. rx.data \in Seq(NodeData) /\ rx.edges \in Seq(EdgesOf(rx)) /\ Len(rx.data) <= Len(RxNodes)
      /\ rx = [data |-> rx.data, edges |-> rx.edges]
  BY DEF Inv, GraphOK
<1>2. GraphOK'
  <2>1. ASSUME NEW data \in UNION {RxNodes[k] : k \in DOMAIN RxNodes}, RxAddNode(data)
        PROVE  GraphOK'
    <3> DEFINE more == Append(rx.data, data)
    <3>0. Len(rx.data) < Len(RxNodes)  BY <2>1 DEF RxAddNode
    <3>1. data \in NodeData  BY GraphAssumption
    <3>2. more \in Seq(NodeData) /\ Len(more) = Len(rx.data) + 1 /\ Len(rx.data) \in Nat
          /\ DOMAIN rx.data \subseteq DOMAIN more
      BY <1>1, <3>1, Appended
    <3>3. rx' = [data |-> more, edges |-> rx.edges]  BY <1>1, <2>1 DEF RxAddNode
    <3> HIDE DEF more
    <3>4. EdgesOf(rx) \subseteq EdgesOf(rx')
      BY <3>2, <3>3 DEF EdgesOf, Indices
    <3>5. rx.edges \in Seq(EdgesOf(rx'))
      <4>1. \A k \in 1..Len(rx.edges) : rx.edges[k] \in EdgesOf(rx')  BY <1>1, <3>4
      <4> QED  BY <1>1, <4>1, Retyped
    <3>6. rx' \in [data : Seq(NodeData), edges : Seq(EdgesOf(rx'))]  BY <3>2, <3>3, <3>5
    <3>7. Len(RxNodes) \in Nat  BY GraphAssumption
    <3>8. rx'.data = more  BY <3>3
    <3>9. Len(rx'.data) <= Len(RxNodes)  BY <3>0, <3>2, <3>7, <3>8
    <3> QED  BY <3>6, <3>9 DEF GraphOK
  <2>2. ASSUME NEW e \in RxEdges, RxAddEdge(e)
        PROVE  GraphOK'
    <3> DEFINE more == Append(rx.edges, e)
    <3>1. e \in EdgesOf(rx)
      <4>1. e[1] \in Indices(rx) /\ e[2] \in Indices(rx)  BY <2>2 DEF RxAddEdge
      <4>2. e \in Nat \X Nat \X Optional(GroundActions)  BY GraphAssumption
      <4> QED  BY <4>1, <4>2 DEF EdgesOf
    <3>2. more \in Seq(EdgesOf(rx))  BY <1>1, <3>1, Appended
    <3>3. rx' = [data |-> rx.data, edges |-> more]  BY <1>1, <2>2 DEF RxAddEdge
    <3> HIDE DEF more
    <3>4. EdgesOf(rx') = EdgesOf(rx)  BY <3>3 DEF EdgesOf, Indices
    <3> QED  BY <1>1, <3>2, <3>3, <3>4 DEF GraphOK
  <2> QED  BY <2>1, <2>2 DEF GraphStep
<1>3. HistoryOK'  BY <1>0 DEF Inv, HistoryOK
<1>4. ImportOK'  BY <1>0 DEF ImportOK, Importing
<1>5. DagOK(dag')  BY <1>0 DEF Inv
<1>6. Extends(dag', dag)  BY <1>0, ExtendsSelf DEF Inv, DagOK
<1> QED  BY <1>2, <1>3, <1>4, <1>5, <1>6 DEF Inv

LEMMA ImportBeginsKeeps ==
  ASSUME Inv, NEW fallback \in BOOLEAN, ImportBegins(fallback)
  PROVE  ImportOK'
<1>1. SingleRoot(rx)  BY DEF ImportBegins, ImportChecked
<1>2. RootOf(rx) \in Indices(rx)  BY <1>1, RootIsNode
<1>3. rx.data \in Seq(NodeData) /\ rx.edges \in Seq(EdgesOf(rx))  BY DEF Inv, GraphOK
<1>4. rx.data[RootOf(rx)] \in NodeData /\ RootOf(rx) \in Nat
  BY <1>2, <1>3 DEF Indices
<1>5. DagOK(NewDag(rx.data[RootOf(rx)].state))
  BY <1>4, NewDagOK DEF NodeData
<1>6. import' = ImportStarted(rx, fallback) /\ rx' = rx  BY DEF ImportBegins
<1>7. <<>> \in Seq(EdgesOf(rx)) /\ <<>> \in Seq(Records)  OBVIOUS
<1> QED  BY <1>3, <1>4, <1>5, <1>6, <1>7 DEF ImportOK, ImportStarted

LEMMA ImportGoesOn ==
  ASSUME Inv, Importing, ImportEdge \/ ImportNextRound \/ ImportRegisters
  PROVE  ImportOK'
<1> DEFINE Shape(i) == [fallback : BOOLEAN, pending : Seq(EdgesOf(rx)),
                        waiting : Seq(EdgesOf(rx)), available : SUBSET Nat,
                        progressed : BOOLEAN, records : Seq(Records),
                        registered : Nat, dag : {i.dag}]
<1>0. import \in Shape(import) /\ rx' = rx /\ DagOK(import.dag)
  BY DEF Inv, ImportOK, ImportEdge, ImportNextRound, ImportRegisters
<1> DEFINE whole == [fallback |-> import.fallback, pending |-> import.pending,
                     waiting |-> import.waiting, available |-> import.available,
                     progressed |-> import.progressed, records |-> import.records,
                     registered |-> import.registered, dag |-> import.dag]
<1>4. import = whole  BY <1>0
<1>1. CASE ImportEdge
  <2> DEFINE e == Head(import.pending)
             record == EdgeRecord(rx, import.fallback, e)
  <2>1. e \in EdgesOf(rx) /\ Tail(import.pending) \in Seq(EdgesOf(rx))
    BY <1>0, <1>1, HeadAndTail DEF ImportEdge
  <2>2. record \in Records  BY <1>0, <2>1, EdgeRecordIsRecord DEF Inv
  <2>3. e[2] \in Nat
    <3>1. rx.data \in Seq(NodeData)  BY DEF Inv, GraphOK
    <3> QED  BY <2>1, <3>1 DEF EdgesOf, Indices
  <2>4. import' \in
          {[import EXCEPT !.pending = Tail(@), !.available = @ \cup {e[2]}, !.progressed = TRUE,
                          !.records = Append(@, record)],
           [import EXCEPT !.pending = Tail(@), !.waiting = Append(@, e)]}
    BY <1>1 DEF ImportEdge, AfterEdge
  <2> HIDE DEF e, record
  <2>5. Append(import.records, record) \in Seq(Records)
        /\ Append(import.waiting, e) \in Seq(EdgesOf(rx))
    BY <1>0, <2>1, <2>2, Appended
  <2>6. import' \in Shape(import') /\ import'.dag = import.dag
    <3>1. CASE import' = [import EXCEPT !.pending = Tail(@), !.available = @ \cup {e[2]},
                                        !.progressed = TRUE, !.records = Append(@, record)]
      <4>1. import' = [whole EXCEPT !.pending = Tail(import.pending),
                                    !.available = import.available \cup {e[2]},
                                    !.progressed = TRUE,
                                    !.records = Append(import.records, record)]
        BY <1>4, <3>1
      <4> QED  BY <1>0, <2>1, <2>3, <2>5, <4>1
    <3>2. CASE import' = [import EXCEPT !.pending = Tail(@), !.waiting = Append(@, e)]
      <4>1. import' = [whole EXCEPT !.pending = Tail(import.pending),
                                    !.waiting = Append(import.waiting, e)]
        BY <1>4, <3>2
      <4> QED  BY <1>0, <2>1, <2>5, <4>1
    <3> QED  BY <2>4, <3>1, <3>2
  <2> QED  BY <1>0, <2>6 DEF ImportOK
<1>2. CASE ImportNextRound
  <2>1. <<>> \in Seq(EdgesOf(rx))  OBVIOUS
  <2>2. import' = [import EXCEPT !.pending = import.waiting, !.waiting = <<>>, !.progressed = FALSE]
    BY <1>2 DEF ImportNextRound, NextRound
  <2>3. import' \in Shape(import') /\ import'.dag = import.dag  BY <1>0, <2>1, <2>2
  <2> QED  BY <1>0, <2>3 DEF ImportOK
<1>3. CASE ImportRegisters
  <2> DEFINE after == AfterRecord(import.dag, NextRecord, FALSE)
  <2>1. NextRecord \in Records
    <3>1. import.registered + 1 \in 1..Len(import.records)
      BY <1>0, <1>3 DEF ImportRegisters
    <3> QED  BY <1>0, <3>1 DEF NextRecord
  <2>2. DagOK(after)  BY <1>0, <2>1, AfterRecordOK
  <2>3. import' = [import EXCEPT !.registered = @ + 1, !.dag = after]
    BY <1>0, <1>3 DEF ImportRegisters
  <2> HIDE DEF after
  <2>4. import' \in Shape(import') /\ import'.dag = after
    <3>1. import' = [whole EXCEPT !.registered = import.registered + 1, !.dag = after]
      BY <1>4, <2>3
    <3>2. import' = [fallback |-> import.fallback, pending |-> import.pending,
                     waiting |-> import.waiting, available |-> import.available,
                     progressed |-> import.progressed, records |-> import.records,
                     registered |-> import.registered + 1, dag |-> after]
      BY <3>1
    <3>3. import'.dag = after  BY <3>2
    <3>4. import.registered + 1 \in Nat  BY <1>0
    <3> QED  BY <1>0, <3>2, <3>3, <3>4
  <2> QED  BY <1>0, <2>2, <2>4 DEF ImportOK
<1> QED  BY <1>1, <1>2, <1>3

LEMMA ImportStepKeeps ==
  ASSUME Inv, (\E fallback \in BOOLEAN : ImportBegins(fallback)) \/ ImportSteps
  PROVE  Inv' /\ (imported' \/ Extends(dag', dag))
<1>0. DagOK(dag) /\ Extends(dag, dag)  BY ExtendsSelf DEF Inv, DagOK
<1>1. CASE \/ \E fallback \in BOOLEAN : ImportBegins(fallback)
           \/ ImportEdge \/ ImportNextRound \/ ImportRegisters
  <2>1. UNCHANGED <<dag, accepted, refused, bulk, unfinished, rx, imported>>
    BY <1>1 DEF ImportBegins, ImportEdge, ImportNextRound, ImportRegisters
  <2>2. ImportOK'
    <3>1. CASE \E fallback \in BOOLEAN : ImportBegins(fallback)
      BY <3>1, ImportBeginsKeeps
    <3>2. CASE ImportEdge \/ ImportNextRound \/ ImportRegisters
      BY <3>2, ImportGoesOn DEF ImportEdge, ImportNextRound, ImportRegisters
    <3> QED  BY <1>1, <3>1, <3>2
  <2>3. DagOK(dag)' /\ HistoryOK' /\ GraphOK'
    BY <2>1 DEF Inv, HistoryOK, GraphOK, EdgesOf, Indices
  <2> QED  BY <1>0, <2>1, <2>2, <2>3 DEF Inv
<1>2. CASE ImportReturns
  <2>1. /\ Importing /\ imported' = TRUE /\ unfinished' = FALSE /\ refused' = {}
        /\ accepted' = import.records /\ import' = Idle /\ rx' = rx /\ bulk' = bulk
        /\ dag' \in {import.dag, Finalized(import.dag)}
    BY <1>2 DEF ImportReturns
  <2>2. DagOK(import.dag) /\ import.records \in Seq(Records)  BY <2>1, ImportFields
  <2>3. DagOK(Finalized(import.dag))  BY <2>2, FinalizedOK
  <2>4. DagOK(dag')  BY <2>1, <2>2, <2>3
  <2>5. HistoryOK'  BY <2>1, <2>2 DEF Inv, HistoryOK
  <2>6. GraphOK'  BY <2>1 DEF Inv, GraphOK, EdgesOf, Indices
  <2>7. ImportOK'  BY <2>1 DEF ImportOK, Importing
  <2> QED  BY <2>1, <2>4, <2>5, <2>6, <2>7 DEF Inv
<1>3. CASE ImportRaises
  <2>1. UNCHANGED <<dag, accepted, refused, bulk, unfinished, rx, imported>> /\ import' = Idle
    BY <1>3 DEF ImportRaises
  <2>2. DagOK(dag)' /\ HistoryOK' /\ GraphOK'
    BY <2>1 DEF Inv, HistoryOK, GraphOK, EdgesOf, Indices
  <2>3. ImportOK'  BY <2>1 DEF ImportOK, Importing
  <2> QED  BY <1>0, <2>1, <2>2, <2>3 DEF Inv
<1> QED  BY <1>1, <1>2, <1>3 DEF ImportSteps

-----------------------------------------------------------------------------
(***************************************************************************)
(* Depths that were computed are distances.                                *)
(***************************************************************************)
LevelsOf(g) == Levels(1, PairsOf(g), Len(g.nodes))

Computed(g) ==
  \A i \in Positions(g) : g.nodes[i].depth = Depth(LevelsOf(g), Len(g.nodes), i)

LEMMA PairMember ==
  ASSUME NEW g
  PROVE  \A p : p \in PairsOf(g) <=>
           \E i \in Positions(g) : \E k \in DOMAIN g.adjacency[i] : p = <<i, g.adjacency[i][k]>>
<1>1. ASSUME NEW i \in Positions(g), NEW k \in DOMAIN g.adjacency[i]
      PROVE  <<i, k>> \in Transitions(g) /\ Endpoints(g, <<i, k>>) = <<i, g.adjacency[i][k]>>
  BY DEF Transitions, Endpoints
<1>2. ASSUME NEW t \in Transitions(g)
      PROVE  \E i \in Positions(g) : \E k \in DOMAIN g.adjacency[i] : t = <<i, k>>
  BY DEF Transitions
<1>3. ASSUME NEW p \in PairsOf(g)
      PROVE  \E i \in Positions(g) : \E k \in DOMAIN g.adjacency[i] : p = <<i, g.adjacency[i][k]>>
  <2>1. PICK t \in Transitions(g) : p = Endpoints(g, t)  BY DEF PairsOf
  <2>2. PICK i \in Positions(g) : \E k \in DOMAIN g.adjacency[i] : t = <<i, k>>  BY <1>2
  <2>3. PICK k \in DOMAIN g.adjacency[i] : t = <<i, k>>  BY <2>2
  <2>4. p = <<i, g.adjacency[i][k]>>  BY <1>1, <2>1, <2>3
  <2> QED  BY <2>4
<1>4. ASSUME NEW i \in Positions(g), NEW k \in DOMAIN g.adjacency[i]
      PROVE  <<i, g.adjacency[i][k]>> \in PairsOf(g)
  <2>1. <<i, k>> \in Transitions(g) /\ Endpoints(g, <<i, k>>) = <<i, g.adjacency[i][k]>>
    BY <1>1
  <2> QED  BY <2>1 DEF PairsOf
<1> QED  BY <1>3, <1>4

LEMMA LevelsOfDag ==
  ASSUME NEW g, DagOK(g)
  PROVE  /\ Len(g.nodes) \in Nat \ {0}
         /\ Positions(g) = 1..Len(g.nodes)
         /\ LevelsOf(g)[0] = {1}
         /\ Climbs(LevelsOf(g), PairsOf(g), Len(g.nodes))
         /\ LevelsOf(g)[Len(g.nodes)] = LevelsOf(g)[Len(g.nodes) - 1]
         /\ \A p \in PairsOf(g) : p[1] \in Positions(g) /\ p[2] \in Positions(g)
<1> DEFINE n == Len(g.nodes)
           f == LevelsOf(g)
           P == 1..n
<1>1. DagTyped(g) /\ n \in Nat \ {0} /\ Positions(g) = 1..n
  BY PositionsAreInitial DEF DagOK
<1>2. f[0] = {1} /\ Climbs(f, PairsOf(g), n)
  BY <1>1, LevelsAre DEF LevelsOf, Climbs
<1>3. \A i \in Positions(g) : g.adjacency[i] \in Seq(Positions(g))  BY <1>1, RowsOfDag
<1>4. \A i \in Positions(g) : \A k \in DOMAIN g.adjacency[i] : g.adjacency[i][k] \in Positions(g)
  BY <1>3
<1>5. \A p \in PairsOf(g) : p[1] \in Positions(g) /\ p[2] \in Positions(g)
  BY <1>4, PairMember
<1>6. IsFiniteSet(P) /\ Cardinality(P) <= n
  <2>1. 1 \in Int /\ n \in Int  BY <1>1
  <2>2. IsFiniteSet(P) /\ Cardinality(P) = IF 1 > n THEN 0 ELSE n - 1 + 1
    BY <2>1, FS_Interval
  <2> QED  BY <1>1, <2>2
<1>7. 1 \in P /\ \A p \in PairsOf(g) : p[2] \in P  BY <1>1, <1>5
<1> HIDE DEF f, P, n
<1>8. f[n] = f[n - 1]  BY <1>1, <1>2, <1>6, <1>7, LevelsSettle
<1> QED  BY <1>1, <1>2, <1>5, <1>8 DEF f, n

Distances(g) ==
  LET depth(i) == g.nodes[i].depth IN
  /\ depth(1) = 0
  /\ \A i \in Positions(g) : \A j \in Children(g, i) :
       depth(i) >= 0 => depth(j) \in 0..(depth(i) + 1)
  /\ \A j \in Positions(g) \ {1} :
       depth(j) = -1 \/ \E i \in Positions(g) : j \in Children(g, i)
                                                  /\ depth(j) = depth(i) + 1 /\ depth(i) >= 0

LEMMA ComputedDistances ==
  ASSUME NEW g, DagOK(g), Computed(g)
  PROVE  Distances(g)
<1> DEFINE n == Len(g.nodes)
           f == LevelsOf(g)
           pairs == PairsOf(g)
           d(i) == Depth(f, n, i)
<1>1. /\ n \in Nat \ {0}
      /\ Positions(g) = 1..n
      /\ f[0] = {1}
      /\ Climbs(f, pairs, n)
      /\ f[n] = f[n - 1]
      /\ \A p \in pairs : p[1] \in Positions(g) /\ p[2] \in Positions(g)
  BY LevelsOfDag
<1>2. \A i \in Positions(g) : g.nodes[i].depth = d(i)  BY DEF Computed
<1>3. \A i \in Positions(g) : \A j : j \in Children(g, i) <=> <<i, j>> \in pairs
  BY PairMember DEF Children
<1> HIDE DEF n, f, pairs
<1>4. \A i : i \in f[n] => /\ d(i) \in 0..n
                           /\ \A k \in 0..n : i \in f[k] <=> d(i) <= k
  BY <1>1, DepthIsFirst
<1>5. \A i : i \notin f[n] => d(i) = -1  BY DEF Depth
<1>6. \A j \in 0..n : f[j] \subseteq f[n]
  <2>1. n \in 0..n  BY <1>1
  <2> QED  BY <1>1, <2>1, LevelsGrow
<1> HIDE DEF d
<1>7. ASSUME NEW i, NEW j, <<i, j>> \in pairs, i \in f[n]
      PROVE  j \in f[n] /\ d(j) \in 0..(d(i) + 1)
  <2>1. d(i) \in 0..(n - 1) /\ i \in f[d(i)]
    <3>1. n - 1 \in 0..n /\ i \in f[n - 1]  BY <1>1, <1>7
    <3>2. d(i) \in 0..n /\ d(i) <= n - 1  BY <1>4, <1>7, <3>1
    <3> QED  BY <1>1, <1>4, <1>7, <3>2
  <2>2. j \in f[d(i) + 1]
    <3>1. f[d(i) + 1] = Reached(pairs, f[d(i)])  BY <1>1, <2>1 DEF Climbs
    <3> QED  BY <1>7, <2>1, <3>1 DEF Reached
  <2>3. d(i) + 1 \in 0..n  BY <1>1, <2>1
  <2>4. j \in f[n]  BY <1>6, <2>2, <2>3
  <2> QED  BY <1>4, <2>2, <2>3, <2>4
<1>8. d(1) = 0
  <2>1. 0 \in 0..n /\ 1 \in f[0]  BY <1>1
  <2>2. 1 \in f[n]  BY <1>6, <2>1
  <2> QED  BY <1>4, <2>1, <2>2
<1>9. ASSUME NEW i \in Positions(g), NEW j \in Children(g, i), d(i) >= 0
      PROVE  d(j) \in 0..(d(i) + 1) /\ j \in Positions(g)
  <2>1. <<i, j>> \in pairs  BY <1>3, <1>9
  <2>2. i \in f[n]  BY <1>5, <1>9
  <2>3. j \in Positions(g)  BY <1>1, <2>1
  <2> QED  BY <1>7, <2>1, <2>2, <2>3
<1>10. ASSUME NEW j \in Positions(g) \ {1}, d(j) # -1
       PROVE  \E i \in Positions(g) : j \in Children(g, i) /\ d(j) = d(i) + 1 /\ d(i) >= 0
  <2>1. j \in f[n]  BY <1>5, <1>10
  <2>2. d(j) \in 0..n /\ j \in f[d(j)]  BY <1>4, <2>1
  <2>3. d(j) # 0  BY <1>1, <2>2
  <2>4. d(j) - 1 \in 0..(n - 1) /\ d(j) - 1 \in 0..n /\ (d(j) - 1) + 1 = d(j) /\ ~(d(j) <= d(j) - 1)
    BY <1>1, <2>2, <2>3
  <2>5. j \notin f[d(j) - 1]  BY <1>4, <2>1, <2>4
  <2>6. f[d(j)] = Reached(pairs, f[d(j) - 1])  BY <1>1, <2>4 DEF Climbs
  <2>7. PICK p \in pairs : p[1] \in f[d(j) - 1] /\ p[2] = j
    BY <2>2, <2>5, <2>6 DEF Reached
  <2>8. p = <<p[1], j>> /\ p[1] \in Positions(g)
    BY <1>1, <2>7, PairMember DEF pairs
  <2>9. p[1] \in f[n]  BY <1>6, <2>4, <2>7
  <2>10. d(p[1]) \in 0..n /\ d(p[1]) <= d(j) - 1  BY <1>4, <2>4, <2>7, <2>9
  <2>11. d(j) \in 0..(d(p[1]) + 1)  BY <1>7, <2>7, <2>8, <2>9
  <2>12. d(j) = d(p[1]) + 1 /\ d(p[1]) >= 0  BY <2>2, <2>10, <2>11
  <2>13. j \in Children(g, p[1])  BY <1>3, <2>7, <2>8
  <2> QED  BY <2>8, <2>12, <2>13
<1>11. 1 \in Positions(g)  BY <1>1
<1> QED  BY <1>2, <1>8, <1>9, <1>10, <1>11 DEF Distances

\* Depths only depend on the edges.
LEMMA ComputedKept ==
  ASSUME NEW g, DagOK(g), NEW h, DagOK(h), Computed(g),
         Positions(h) = Positions(g), h.adjacency = g.adjacency,
         \A i \in Positions(g) : h.nodes[i].depth = g.nodes[i].depth
  PROVE  Computed(h)
<1>1. Len(h.nodes) = Len(g.nodes)
  <2>1. Len(g.nodes) \in Nat /\ Len(h.nodes) \in Nat
        /\ Positions(g) = 1..Len(g.nodes) /\ Positions(h) = 1..Len(h.nodes)
    BY LevelsOfDag
  <2> QED  BY <2>1
<1>2. PairsOf(h) = PairsOf(g)
  <2>1. \A p : p \in PairsOf(h) <=> p \in PairsOf(g)  BY PairMember
  <2> QED  BY <2>1
<1> QED  BY <1>1, <1>2 DEF Computed, LevelsOf

LEMMA FinalizedComputed ==
  ASSUME NEW g, DagOK(g)
  PROVE  Computed(Finalized(g))
<1> DEFINE h == Finalized(g)
           n == Len(g.nodes)
<1>1. DagOK(h)  BY FinalizedOK
<1>2. /\ Positions(h) = Positions(g)
      /\ h.adjacency = g.adjacency
  BY FinalizedTells
<1>3. \A i \in Positions(g) : h.nodes[i].depth = Depth(LevelsOf(g), n, i)
  <2> DEFINE nodes == [i \in Positions(g) |-> [g.nodes[i] EXCEPT !.depth = Depth(LevelsOf(g), n, i)]]
  <2>1. h = [g EXCEPT !.nodes = nodes]  BY DEF Finalized, LevelsOf
  <2>2. \A i \in Positions(g) : g.nodes[i] \in DagNodes  BY LabelsOfNode DEF DagOK
  <2>3. \A i \in Positions(g) : nodes[i].depth = Depth(LevelsOf(g), n, i)
    BY <2>2 DEF DagNodes
  <2> HIDE DEF nodes, h
  <2>4. h.nodes = nodes  BY <2>1 DEF DagOK, DagTyped
  <2> QED  BY <2>3, <2>4
<1> HIDE DEF h, n
<1>4. Len(h.nodes) = n
  <2>1. n \in Nat /\ Len(h.nodes) \in Nat
        /\ Positions(g) = 1..n /\ Positions(h) = 1..Len(h.nodes)
    BY <1>1, LevelsOfDag DEF n
  <2> QED  BY <1>2, <2>1
<1>5. PairsOf(h) = PairsOf(g)
  <2>1. \A p : p \in PairsOf(h) <=> p \in PairsOf(g)  BY <1>2, PairMember
  <2> QED  BY <2>1
<1>6. LevelsOf(h) = LevelsOf(g)  BY <1>4, <1>5 DEF LevelsOf, n
<1>7. Computed(h)  BY <1>2, <1>3, <1>4, <1>6 DEF Computed
<1> QED  BY <1>7 DEF h

LEMMA NewComputed ==
  ASSUME NEW s \in States
  PROVE  Computed(NewDag(s))
<1> DEFINE g == NewDag(s)
           f == LevelsOf(g)
<1>1. DagOK(g)  BY NewDagOK
<1>2. Positions(g) = {1} /\ g.nodes[1].depth = 0 /\ Len(g.nodes) = 1
  BY DEF NewDag, Positions, Node
<1> HIDE DEF g
<1>3. f[0] = {1} /\ Climbs(f, PairsOf(g), 1) /\ f[1] = f[0]
  BY <1>1, <1>2, LevelsOfDag
<1> HIDE DEF f
<1>4. 1 \in f[1] /\ 0 \in 0..1 /\ 1 \in Nat  BY <1>3
<1>5. Depth(f, 1, 1) \in 0..1 /\ Depth(f, 1, 1) <= 0
  <2>1. \A k \in 0..1 : 1 \in f[k] <=> Depth(f, 1, 1) <= k
    BY <1>3, <1>4, DepthIsFirst
  <2>2. Depth(f, 1, 1) \in 0..1  BY <1>3, <1>4, DepthIsFirst
  <2> QED  BY <1>3, <1>4, <2>1, <2>2
<1>6. Depth(f, 1, 1) = 0  BY <1>5
<1>7. Computed(g)  BY <1>2, <1>6 DEF Computed, f
<1> QED  BY <1>7 DEF g

-----------------------------------------------------------------------------
(***************************************************************************)
(* The second invariant: what the caller's dag shows of the records that   *)
(* the history names, and an import's dag of those registered so far.      *)
(***************************************************************************)
ImportTells ==
  Importing =>
    /\ import.registered <= Len(import.records)
    /\ Shows(import.dag, import.records, import.registered, {})

Tells ==
  /\ Shows(dag, accepted, Len(accepted), refused)
  /\ ImportTells

LEMMA InitTells ==
  ASSUME Init
  PROVE  Tells
<1>1. Shows(NewDag(Root), <<>>, 0, {})  BY RootAssumption, ShowsNew
<1> QED  BY <1>1 DEF Init, Tells, ImportTells, Importing

LEMMA DagStepTells ==
  ASSUME Inv, Tells, DagStep
  PROVE  Tells'
<1>0. /\ DagOK(dag) /\ accepted \in Seq(Records) /\ bulk \in Seq(Records)
      /\ Shows(dag, accepted, Len(accepted), refused)
  BY DEF Inv, HistoryOK, Tells
<1>1. ASSUME NEW r \in Records, NEW require_parent \in BOOLEAN, Registers(dag, r, require_parent),
             accepted' = Append(accepted, r), refused' = refused,
             dag' \in {AfterRecord(dag, r, require_parent),
                      Finalized(AfterRecord(dag, r, require_parent))}
      PROVE  Shows(dag', accepted', Len(accepted'), refused')
  <2> DEFINE after == AfterRecord(dag, r, require_parent)
             more == Append(accepted, r)
             n == Len(accepted)
  <2>1. /\ n \in Nat
        /\ Len(more) = n + 1
        /\ \A k \in 1..n : more[k] = accepted[k]
        /\ more[n + 1] = r
    BY <1>0, <1>1, Appended
  <2> HIDE DEF more, n
  <2>2. Shows(after, more, n + 1, refused)
    BY <1>0, <1>1, <2>1, ShowsAccepted DEF n
  <2>3. DagOK(after)  BY <1>0, <1>1, AfterRecordOK
  <2> HIDE DEF after
  <2>4. Shows(Finalized(after), more, n + 1, refused)  BY <2>2, <2>3, ShowsFinalized
  <2>5. accepted' = more /\ Len(accepted') = n + 1  BY <1>1, <2>1 DEF more
  <2>6. dag' = after \/ dag' = Finalized(after)  BY <1>1 DEF after
  <2> QED  BY <1>1, <2>2, <2>4, <2>5, <2>6
<1>2. ASSUME NEW r \in Records, NEW require_parent \in BOOLEAN, ~Registers(dag, r, require_parent),
             require_parent => contains(dag, r.parent),
             accepted' = accepted, refused' = refused \cup {r},
             dag' = AfterRecord(dag, r, require_parent)
      PROVE  Shows(dag', accepted', Len(accepted'), refused')
  <2>1. Len(accepted) \in Nat  BY <1>0
  <2>2. Shows(AfterRecord(dag, r, require_parent), accepted, Len(accepted), refused \cup {r})
    BY <1>0, <1>2, <2>1, ShowsRefused
  <2> QED  BY <1>2, <2>2
<1>3. Shows(dag', accepted', Len(accepted'), refused')
  <2>1. ASSUME NEW r \in Calls, RegisterTransition(r)
        PROVE  Shows(dag', accepted', Len(accepted'), refused')
    BY <1>1, <2>1, InputAssumption DEF RegisterTransition
  <2>2. ASSUME NEW r \in Calls, RegisterTransitionRaises(r)
        PROVE  Shows(dag', accepted', Len(accepted'), refused')
    <3>0. r \in Records  BY InputAssumption
    <3>1. CASE contains(dag, r.parent)
      BY <1>2, <2>2, <3>0, <3>1 DEF RegisterTransitionRaises
    <3>2. CASE ~contains(dag, r.parent)
      <4>1. dag' = dag  BY <2>2, <3>2 DEF RegisterTransitionRaises, AfterRecord
      <4> QED  BY <1>0, <2>2, <3>2, <4>1 DEF RegisterTransitionRaises
    <3> QED  BY <3>1, <3>2
  <2>3. CASE \E records \in BulkCalls : BulkBegins(records)
    BY <1>0, <2>3 DEF BulkBegins
  <2>4. CASE BulkRegisters
    <3>1. Head(bulk) \in Records  BY <1>0, <2>4, HeadAndTail DEF BulkRegisters
    <3> QED  BY <1>1, <2>4, <3>1 DEF BulkRegisters
  <2>5. CASE BulkRaises
    <3>1. Head(bulk) \in Records  BY <1>0, <2>5, HeadAndTail DEF BulkRaises
    <3> QED  BY <1>2, <2>5, <3>1 DEF BulkRaises
  <2> QED  BY <2>1, <2>2, <2>3, <2>4, <2>5 DEF DagStep
<1>4. import' = import
  BY DEF DagStep, RegisterTransition, RegisterTransitionRaises, BulkBegins, OnDag,
         BulkRegisters, BulkRaises
<1> QED  BY <1>3, <1>4 DEF Tells, ImportTells, Importing

LEMMA ImportWhole ==
  ASSUME Inv, Importing
  PROVE  import = [fallback |-> import.fallback, pending |-> import.pending,
                   waiting |-> import.waiting, available |-> import.available,
                   progressed |-> import.progressed, records |-> import.records,
                   registered |-> import.registered, dag |-> import.dag]
<1>1. import \in [fallback : BOOLEAN, pending : Seq(EdgesOf(rx)), waiting : Seq(EdgesOf(rx)),
                  available : SUBSET Nat, progressed : BOOLEAN,
                  records : Seq(Records), registered : Nat, dag : {import.dag}]
  BY DEF Inv, ImportOK
<1> QED  BY <1>1

LEMMA ImportStepTells ==
  ASSUME Inv, Tells, (\E fallback \in BOOLEAN : ImportBegins(fallback)) \/ ImportSteps
  PROVE  Tells'
<1>0. Shows(dag, accepted, Len(accepted), refused) /\ ImportTells  BY DEF Tells
<1>1. ASSUME NEW fallback \in BOOLEAN, ImportBegins(fallback)
      PROVE  Tells'
  <2>1. SingleRoot(rx)  BY <1>1 DEF ImportBegins, ImportChecked
  <2>2. RootOf(rx) \in Indices(rx)  BY <2>1, RootIsNode
  <2>3. rx.data \in Seq(NodeData)  BY DEF Inv, GraphOK
  <2>4. rx.data[RootOf(rx)].state \in States
    <3>1. rx.data[RootOf(rx)] \in NodeData  BY <2>2, <2>3 DEF Indices
    <3> QED  BY <3>1 DEF NodeData
  <2>5. Shows(NewDag(rx.data[RootOf(rx)].state), <<>>, 0, {})  BY <2>4, ShowsNew
  <2>6. import' = ImportStarted(rx, fallback) /\ UNCHANGED <<dag, accepted, refused>>
    BY <1>1 DEF ImportBegins
  <2>7. /\ import'.registered = 0
        /\ import'.records = <<>>
        /\ import'.dag = NewDag(rx.data[RootOf(rx)].state)
    BY <2>6 DEF ImportStarted
  <2>8. ImportTells'  BY <2>5, <2>7 DEF ImportTells
  <2> QED  BY <1>0, <2>6, <2>8 DEF Tells
<1> DEFINE whole == [fallback |-> import.fallback, pending |-> import.pending,
                     waiting |-> import.waiting, available |-> import.available,
                     progressed |-> import.progressed, records |-> import.records,
                     registered |-> import.registered, dag |-> import.dag]
<1>2. ASSUME Importing
      PROVE  /\ import = whole
             /\ import.records \in Seq(Records)
             /\ import.registered \in Nat
             /\ DagOK(import.dag)
             /\ import.registered <= Len(import.records)
             /\ Shows(import.dag, import.records, import.registered, {})
             /\ rx.data \in Seq(NodeData)
  <2>1. import.registered <= Len(import.records)
        /\ Shows(import.dag, import.records, import.registered, {})
    BY <1>0, <1>2 DEF ImportTells
  <2>2. rx.data \in Seq(NodeData)  BY DEF Inv, GraphOK
  <2> QED  BY <1>2, <2>1, <2>2, ImportWhole, ImportFields
<1>3. CASE ImportEdge
  <2> DEFINE e == Head(import.pending)
             record == EdgeRecord(rx, import.fallback, e)
  <2>0. Importing  BY <1>3 DEF ImportEdge
  <2>1. /\ UNCHANGED <<dag, accepted, refused>>
        /\ import' \in
             {[import EXCEPT !.pending = Tail(@), !.available = @ \cup {e[2]}, !.progressed = TRUE,
                             !.records = Append(@, record)],
              [import EXCEPT !.pending = Tail(@), !.waiting = Append(@, e)]}
    BY <1>3 DEF ImportEdge, AfterEdge
  <2>2. record \in Records
    <3>1. import.pending \in Seq(EdgesOf(rx)) /\ import.pending # <<>> /\ import.fallback \in BOOLEAN
      BY <1>3, <2>0, ImportFields DEF ImportEdge
    <3>2. e \in EdgesOf(rx)  BY <3>1, HeadAndTail
    <3> QED  BY <3>1, <3>2, EdgeRecordIsRecord DEF Inv
  <2> HIDE DEF record, e
  <2>3. /\ import'.dag = import.dag
        /\ import'.registered = import.registered
        /\ import'.records \in {import.records, Append(import.records, record)}
    <3>1. CASE import' = [import EXCEPT !.pending = Tail(@), !.available = @ \cup {e[2]},
                                        !.progressed = TRUE, !.records = Append(@, record)]
      <4>1. import' = [whole EXCEPT !.pending = Tail(import.pending),
                                    !.available = import.available \cup {e[2]},
                                    !.progressed = TRUE,
                                    !.records = Append(import.records, record)]
        BY <1>2, <2>0, <3>1
      <4> QED  BY <4>1
    <3>2. CASE import' = [import EXCEPT !.pending = Tail(@), !.waiting = Append(@, e)]
      <4>1. import' = [whole EXCEPT !.pending = Tail(import.pending),
                                    !.waiting = Append(import.waiting, e)]
        BY <1>2, <2>0, <3>2
      <4> QED  BY <4>1
    <3> QED  BY <2>1, <3>1, <3>2
  <2>4. /\ \A k \in 1..import.registered : import'.records[k] = import.records[k]
        /\ import.registered <= Len(import'.records)
    <3>1. Len(Append(import.records, record)) = Len(import.records) + 1
          /\ \A k \in 1..Len(import.records) :
               Append(import.records, record)[k] = import.records[k]
      BY <1>2, <2>0, <2>2, Appended
    <3>2. Len(import.records) \in Nat /\ 1..import.registered \subseteq 1..Len(import.records)
      BY <1>2, <2>0
    <3> QED  BY <1>2, <2>0, <2>3, <3>1, <3>2
  <2>5. Shows(import.dag, import'.records, import.registered, {})
    BY <1>2, <2>0, <2>4, ShowsPrefix
  <2>6. ImportTells'  BY <2>3, <2>4, <2>5 DEF ImportTells
  <2> QED  BY <1>0, <2>1, <2>6 DEF Tells
<1>4. CASE ImportNextRound
  <2>1. /\ Importing /\ UNCHANGED <<dag, accepted, refused>>
        /\ import' = [import EXCEPT !.pending = import.waiting, !.waiting = <<>>,
                                    !.progressed = FALSE]
    BY <1>4 DEF ImportNextRound, NextRound
  <2>2. import' = [whole EXCEPT !.pending = import.waiting, !.waiting = <<>>, !.progressed = FALSE]
    BY <1>2, <2>1
  <2>3. /\ import'.dag = import.dag
        /\ import'.registered = import.registered
        /\ import'.records = import.records
    BY <2>2
  <2>4. ImportTells'  BY <1>2, <2>1, <2>3 DEF ImportTells
  <2> QED  BY <1>0, <2>1, <2>4 DEF Tells
<1>5. CASE ImportRegisters
  <2> DEFINE after == AfterRecord(import.dag, NextRecord, FALSE)
             n == import.registered
  <2>0. Importing /\ n < Len(import.records) /\ UNCHANGED <<dag, accepted, refused>>
        /\ Registers(import.dag, NextRecord, FALSE)
        /\ import' = [import EXCEPT !.registered = @ + 1, !.dag = after]
    BY <1>5 DEF ImportRegisters
  <2>1. n \in Nat /\ n + 1 \in 1..Len(import.records)
    BY <1>2, <2>0
  <2>2. NextRecord \in Records /\ import.records[n + 1] = NextRecord
    BY <1>2, <2>0, <2>1 DEF NextRecord
  <2>3. Shows(after, import.records, n + 1, {})
    BY <1>2, <2>0, <2>1, <2>2, ShowsAccepted
  <2> HIDE DEF after
  <2>4. import' = [whole EXCEPT !.registered = import.registered + 1, !.dag = after]
    BY <1>2, <2>0
  <2>5. /\ import'.dag = after
        /\ import'.registered = n + 1
        /\ import'.records = import.records
    BY <2>4
  <2>6. n + 1 <= Len(import.records)  BY <1>2, <2>0, <2>1
  <2>7. ImportTells'  BY <2>3, <2>5, <2>6 DEF ImportTells
  <2> QED  BY <1>0, <2>0, <2>7 DEF Tells
<1>6. CASE ImportReturns
  <2>1. /\ Importing /\ refused' = {} /\ accepted' = import.records /\ import' = Idle
        /\ import.registered = Len(import.records)
        /\ dag' \in {import.dag, Finalized(import.dag)}
    BY <1>6 DEF ImportReturns
  <2>2. Shows(import.dag, import.records, Len(import.records), {}) /\ DagOK(import.dag)
    BY <1>2, <2>1
  <2>3. Shows(Finalized(import.dag), import.records, Len(import.records), {})
    BY <2>2, ShowsFinalized
  <2>4. Shows(dag', accepted', Len(accepted'), refused')
    BY <2>1, <2>2, <2>3
  <2> QED  BY <2>1, <2>4 DEF Tells, ImportTells, Importing
<1>7. CASE ImportRaises
  <2>1. UNCHANGED <<dag, accepted, refused>> /\ import' = Idle  BY <1>7 DEF ImportRaises
  <2> QED  BY <1>0, <2>1 DEF Tells, ImportTells, Importing
<1> QED  BY <1>1, <1>3, <1>4, <1>5, <1>6, <1>7 DEF ImportSteps

LEMMA StepTells ==
  ASSUME Inv, Tells, [Next]_vars
  PROVE  Tells'
<1>1. CASE DagStep  BY <1>1, DagStepTells
<1>2. CASE GraphStep \/ UNCHANGED vars
  <2>1. UNCHANGED <<dag, accepted, refused, import>>
    BY <1>2 DEF GraphStep, RxAddNode, RxAddEdge, OnGraph, vars
  <2> QED  BY <2>1 DEF Tells, ImportTells, Importing
<1>3. CASE (\E fallback \in BOOLEAN : ImportBegins(fallback)) \/ ImportSteps
  BY <1>3, ImportStepTells
<1> QED  BY <1>1, <1>2, <1>3 DEF Next, DagStep, GraphStep

-----------------------------------------------------------------------------
(***************************************************************************)
(* The third invariant: depths are computed unless a bulk call is on its   *)
(* way or ended early; an import that has no record to register keeps      *)
(* those of a new dag.                                                     *)
(***************************************************************************)
ImportComputed ==
  Importing => bulk = <<>> /\ (import.registered = 0 => Computed(import.dag))

DepthsComputed ==
  /\ ~unfinished => Computed(dag)
  /\ bulk # <<>> => unfinished
  /\ ImportComputed

LEMMA DagStepComputes ==
  ASSUME Inv, DepthsComputed, DagStep
  PROVE  DepthsComputed'
<1>0. DagOK(dag) /\ bulk \in Seq(Records) /\ unfinished \in BOOLEAN
  BY DEF Inv, HistoryOK
<1>1. import' = import
  BY DEF DagStep, RegisterTransition, RegisterTransitionRaises, BulkBegins, OnDag,
         BulkRegisters, BulkRaises
<1>2. ImportComputed'
  <2>1. ~Importing
    BY DEF DagStep, RegisterTransition, RegisterTransitionRaises, BulkBegins, OnDag,
           BulkRegisters, BulkRaises, DepthsComputed, ImportComputed
  <2> QED  BY <1>1, <2>1 DEF ImportComputed, Importing
<1>3. ASSUME NEW r \in Records, NEW require_parent \in BOOLEAN
      PROVE  Computed(Finalized(AfterRecord(dag, r, require_parent)))
  BY <1>0, AfterRecordOK, FinalizedComputed
<1>4. ASSUME NEW r \in Calls, RegisterTransition(r)
      PROVE  DepthsComputed'
  <2>1. r \in Records  BY InputAssumption
  <2>2. Computed(dag')  BY <1>3, <1>4, <2>1 DEF RegisterTransition
  <2>3. bulk' = bulk /\ bulk = <<>>  BY <1>4 DEF RegisterTransition, OnDag
  <2> QED  BY <1>2, <2>2, <2>3 DEF DepthsComputed
<1>5. ASSUME NEW r \in Calls, RegisterTransitionRaises(r)
      PROVE  DepthsComputed'
  <2>0. r \in Records  BY InputAssumption
  <2>1. UNCHANGED <<bulk, unfinished>> /\ ~Registers(dag, r, TRUE)
        /\ dag' = AfterRecord(dag, r, TRUE)
    BY <1>5 DEF RegisterTransitionRaises
  <2>2. Computed(dag) => Computed(dag')
    <3>1. CASE ~contains(dag, r.parent)
      <4>1. dag' = dag  BY <2>1, <3>1 DEF AfterRecord
      <4> QED  BY <4>1
    <3>2. CASE contains(dag, r.parent)
      <4>1. contains(dag, r.child)
        BY <2>1, <3>2 DEF Registers, MayLabel, WithParent
      <4>2. dag' = WithNode(dag, r.child, r.labels)
        BY <2>1, <3>2 DEF AfterRecord, WithChild, WithParent
      <4>3. r.child \in States /\ r.labels \in Labels  BY <2>0 DEF Records
      <4>4. /\ DagOK(dag')
            /\ Positions(dag') = Positions(dag)
            /\ dag'.adjacency = dag.adjacency
            /\ \A i \in Positions(dag) : dag'.nodes[i].depth = dag.nodes[i].depth
        BY <1>0, <4>1, <4>2, <4>3, WithNodeOK, WithNodeIs
      <4> QED  BY <1>0, <4>4, ComputedKept
    <3> QED  BY <3>1, <3>2
  <2> QED  BY <1>2, <2>1, <2>2 DEF DepthsComputed
<1>6. ASSUME NEW records \in BulkCalls, BulkBegins(records)
      PROVE  DepthsComputed'
  <2>1. unfinished' = TRUE  BY <1>6 DEF BulkBegins
  <2> QED  BY <1>2, <2>1 DEF DepthsComputed
<1>7. CASE BulkRegisters
  <2>1. Head(bulk) \in Records  BY <1>0, <1>7, HeadAndTail DEF BulkRegisters
  <2>2. /\ unfinished' = (Tail(bulk) # <<>>)
        /\ bulk' = Tail(bulk)
        /\ Tail(bulk) = <<>> => dag' = Finalized(AfterRecord(dag, Head(bulk), FALSE))
    BY <1>7 DEF BulkRegisters
  <2> QED  BY <1>2, <1>3, <2>1, <2>2 DEF DepthsComputed
<1>8. CASE BulkRaises
  <2>1. unfinished' = unfinished /\ bulk' = <<>> /\ bulk # <<>>  BY <1>8 DEF BulkRaises
  <2> QED  BY <1>2, <2>1 DEF DepthsComputed
<1> QED  BY <1>4, <1>5, <1>6, <1>7, <1>8 DEF DagStep

LEMMA ImportStepComputes ==
  ASSUME Inv, DepthsComputed,
         (\E fallback \in BOOLEAN : ImportBegins(fallback)) \/ ImportSteps
  PROVE  DepthsComputed'
<1>0. ASSUME Importing
      PROVE  /\ DagOK(import.dag)
             /\ import.records \in Seq(Records)
             /\ import.registered \in Nat
             /\ import = [fallback |-> import.fallback, pending |-> import.pending,
                          waiting |-> import.waiting, available |-> import.available,
                          progressed |-> import.progressed, records |-> import.records,
                          registered |-> import.registered, dag |-> import.dag]
  BY <1>0, ImportFields, ImportWhole
<1>1. ASSUME NEW fallback \in BOOLEAN, ImportBegins(fallback)
      PROVE  DepthsComputed'
  <2>1. SingleRoot(rx)  BY <1>1 DEF ImportBegins, ImportChecked
  <2>2. RootOf(rx) \in Indices(rx)  BY <2>1, RootIsNode
  <2>3. rx.data \in Seq(NodeData)  BY DEF Inv, GraphOK
  <2>4. rx.data[RootOf(rx)] \in NodeData  BY <2>2, <2>3 DEF Indices
  <2>5. rx.data[RootOf(rx)].state \in States  BY <2>4 DEF NodeData
  <2>6. import'.dag = NewDag(rx.data[RootOf(rx)].state) /\ bulk = <<>>
        /\ UNCHANGED <<dag, bulk, unfinished>>
    BY <1>1 DEF ImportBegins, ImportStarted
  <2>7. Computed(import'.dag)  BY <2>5, <2>6, NewComputed
  <2> QED  BY <2>6, <2>7 DEF DepthsComputed, ImportComputed
<1>2. CASE ImportEdge
  <2>1. Importing /\ UNCHANGED <<dag, bulk, unfinished>>  BY <1>2 DEF ImportEdge
  <2> DEFINE e == Head(import.pending)
             record == EdgeRecord(rx, import.fallback, e)
  <2>2. import' \in
          {[import EXCEPT !.pending = Tail(@), !.available = @ \cup {e[2]}, !.progressed = TRUE,
                          !.records = Append(@, record)],
           [import EXCEPT !.pending = Tail(@), !.waiting = Append(@, e)]}
    BY <1>2 DEF ImportEdge, AfterEdge
  <2> HIDE DEF e, record
  <2>3. import'.dag = import.dag /\ import'.registered = import.registered
    BY <1>0, <2>1, <2>2
  <2> QED  BY <2>1, <2>3 DEF DepthsComputed, ImportComputed
<1>3. CASE ImportNextRound
  <2>1. Importing /\ UNCHANGED <<dag, bulk, unfinished>>
        /\ import' = [import EXCEPT !.pending = import.waiting, !.waiting = <<>>,
                                    !.progressed = FALSE]
    BY <1>3 DEF ImportNextRound, NextRound
  <2>2. import'.dag = import.dag /\ import'.registered = import.registered
    BY <1>0, <2>1
  <2> QED  BY <2>1, <2>2 DEF DepthsComputed, ImportComputed
<1>4. CASE ImportRegisters
  <2>1. Importing /\ UNCHANGED <<dag, bulk, unfinished>>
        /\ import' = [import EXCEPT !.registered = @ + 1,
                                    !.dag = AfterRecord(@, NextRecord, FALSE)]
    BY <1>4 DEF ImportRegisters
  <2>2. import'.registered = import.registered + 1 /\ import.registered \in Nat
    BY <1>0, <2>1
  <2>3. import'.registered # 0  BY <2>2
  <2> QED  BY <2>1, <2>3 DEF DepthsComputed, ImportComputed
<1>5. CASE ImportReturns
  <2>1. /\ Importing /\ import' = Idle /\ bulk' = bulk
        /\ import.registered = Len(import.records)
        /\ dag' = IF import.records = <<>> THEN import.dag ELSE Finalized(import.dag)
    BY <1>5 DEF ImportReturns
  <2>2. Computed(dag')
    <3>1. CASE import.records = <<>>
      BY <2>1, <3>1 DEF DepthsComputed, ImportComputed
    <3>2. CASE import.records # <<>>
      BY <1>0, <2>1, <3>2, FinalizedComputed
    <3> QED  BY <3>1, <3>2
  <2>3. bulk = <<>>  BY <2>1 DEF DepthsComputed, ImportComputed
  <2> QED  BY <2>1, <2>2, <2>3 DEF DepthsComputed, ImportComputed, Importing
<1>6. CASE ImportRaises
  <2>1. UNCHANGED <<dag, bulk, unfinished>> /\ import' = Idle  BY <1>6 DEF ImportRaises
  <2> QED  BY <2>1 DEF DepthsComputed, ImportComputed, Importing
<1> QED  BY <1>1, <1>2, <1>3, <1>4, <1>5, <1>6 DEF ImportSteps

LEMMA StepComputes ==
  ASSUME Inv, DepthsComputed, [Next]_vars
  PROVE  DepthsComputed'
<1>1. CASE DagStep  BY <1>1, DagStepComputes
<1>2. CASE GraphStep \/ UNCHANGED vars
  <2>1. UNCHANGED <<dag, bulk, unfinished, import>>
    BY <1>2 DEF GraphStep, RxAddNode, RxAddEdge, OnGraph, vars
  <2> QED  BY <2>1 DEF DepthsComputed, ImportComputed, Importing
<1>3. CASE (\E fallback \in BOOLEAN : ImportBegins(fallback)) \/ ImportSteps
  BY <1>3, ImportStepComputes
<1> QED  BY <1>1, <1>2, <1>3 DEF Next, DagStep, GraphStep

LEMMA InitComputes ==
  ASSUME Init
  PROVE  DepthsComputed
<1>1. Computed(NewDag(Root))  BY RootAssumption, NewComputed
<1> QED  BY <1>1 DEF Init, DepthsComputed, ImportComputed, Importing

-----------------------------------------------------------------------------
(***************************************************************************)
(* The topological sort takes every node of a dag just when each set of    *)
(* nodes has one that no node of the set leads to.                         *)
(***************************************************************************)
IsTaken(f, d, n) ==
  f = [k \in 0..n |-> IF k = 0 THEN {} ELSE Takeable(d, f[k - 1])]

LEMMA TakenExists ==
  ASSUME NEW d, NEW n \in Nat
  PROVE  \E f : IsTaken(f, d, n)
<1> DEFINE Found == {m \in Nat : \E f : IsTaken(f, d, m)}
<1>1. 0 \in Found
  <2> DEFINE f == [k \in 0..0 |-> {}]
  <2>1. f = [k \in 0..0 |-> IF k = 0 THEN {} ELSE Takeable(d, f[k - 1])]  OBVIOUS
  <2>2. IsTaken(f, d, 0)  BY <2>1 DEF IsTaken
  <2> QED  BY <2>2
<1>2. ASSUME NEW m \in 0..(n - 1), m \in Found
      PROVE  m + 1 \in Found
  <2>1. PICK g : IsTaken(g, d, m)  BY <1>2
  <2> DEFINE f == [k \in 0..(m + 1) |-> IF k <= m THEN g[k] ELSE Takeable(d, g[m])]
             r == [k \in 0..(m + 1) |-> IF k = 0 THEN {} ELSE Takeable(d, f[k - 1])]
  <2>2. \A k \in 0..m : g[k] = IF k = 0 THEN {} ELSE Takeable(d, g[k - 1])
    BY <2>1 DEF IsTaken
  <2>3. ASSUME NEW k \in 0..(m + 1)
        PROVE  f[k] = IF k = 0 THEN {} ELSE Takeable(d, f[k - 1])
    <3>1. CASE k = m + 1
      <4>1. f[k - 1] = g[m] /\ f[k] = Takeable(d, g[m]) /\ k # 0  BY <3>1
      <4> QED  BY <3>1, <4>1
    <3>2. CASE k # m + 1
      <4>1. k \in 0..m /\ f[k] = g[k] /\ (k # 0 => f[k - 1] = g[k - 1])  BY <3>2
      <4> QED  BY <2>2, <4>1
    <3> QED  BY <3>1, <3>2
  <2>4. \A k \in 0..(m + 1) : f[k] = r[k]  BY <2>3
  <2>5. f = r  BY <2>4
  <2>6. IsTaken(f, d, m + 1)  BY <2>5 DEF IsTaken
  <2>7. m + 1 \in Nat  OBVIOUS
  <2> QED  BY <2>6, <2>7
<1> HIDE DEF Found
<1>3. n \in Found  BY <1>1, <1>2, UpTo
<1> QED  BY <1>3 DEF Found

AcyclicNodes(d) ==
  \A S \in (SUBSET NodeSet(d)) \ {{}} : \E t \in S : \A s \in S : <<s, t>> \notin Pairs(d)

LEMMA SortedIsAcyclic ==
  ASSUME NEW d, Len(d.nodes) \in Nat, NodeSet(d) = 1..Len(d.nodes)
  PROVE  Sorted(d) = NodeSet(d) <=> AcyclicNodes(d)
<1> DEFINE n == Len(d.nodes)
           f == CHOOSE g : IsTaken(g, d, n)
           P == NodeSet(d)
<1>0. IsTaken(f, d, n)  BY TakenExists
<1>1. Sorted(d) = f[n]  BY DEF Sorted, IsTaken
<1>2. n \in Nat /\ P = 1..n  OBVIOUS
<1> HIDE DEF f, n
<1>3. /\ f[0] = {}
      /\ \A k \in 0..(n - 1) : f[k + 1] = Takeable(d, f[k])
  <2>1. \A k \in 0..n : f[k] = IF k = 0 THEN {} ELSE Takeable(d, f[k - 1])
    BY <1>0 DEF IsTaken
  <2>2. \A k \in 0..(n - 1) : k + 1 \in 0..n /\ k + 1 # 0 /\ (k + 1) - 1 = k  BY <1>2
  <2>3. 0 \in 0..n  BY <1>2
  <2> QED  BY <2>1, <2>2, <2>3
<1>4. \A k \in 0..n : f[k] \subseteq P
  <2>1. ASSUME NEW k \in 0..n
        PROVE  f[k] \subseteq P
    <3>1. CASE k = 0  BY <1>3, <3>1
    <3>2. CASE k # 0
      <4>1. k - 1 \in 0..(n - 1) /\ (k - 1) + 1 = k  BY <1>2, <3>2
      <4> QED  BY <1>3, <4>1 DEF Takeable
    <3> QED  BY <3>1, <3>2
  <2> QED  BY <2>1
<1>5. ASSUME NEW A, NEW B, A \subseteq B
      PROVE  Takeable(d, A) \subseteq Takeable(d, B)
  BY <1>5 DEF Takeable
<1>6. \A k \in 0..(n - 1) : f[k] \subseteq f[k + 1]
  <2> DEFINE Grows == {k \in Nat : k < n => f[k] \subseteq f[k + 1]}
  <2>1. 0 \in Grows  BY <1>3
  <2>2. ASSUME NEW k \in 0..(n - 1), k \in Grows
        PROVE  k + 1 \in Grows
    <3>1. CASE k + 1 < n
      <4>1. k \in 0..(n - 1) /\ k + 1 \in 0..(n - 1)  BY <1>2, <3>1
      <4>2. f[k + 1] = Takeable(d, f[k]) /\ f[(k + 1) + 1] = Takeable(d, f[k + 1])
        BY <1>3, <4>1
      <4>3. f[k] \subseteq f[k + 1]  BY <1>2, <2>2, <4>1
      <4>4. f[k + 1] \subseteq f[(k + 1) + 1]  BY <1>5, <4>2, <4>3
      <4> QED  BY <4>4
    <3>2. CASE ~(k + 1 < n)  BY <3>2
    <3> QED  BY <3>1, <3>2
  <2>3. \A k \in 0..n : k \in Grows
    <3> HIDE DEF Grows
    <3> QED  BY <1>2, <2>1, <2>2, UpTo
  <2> QED  BY <1>2, <2>3
<1>7. ASSUME f[n] = P
      PROVE  AcyclicNodes(d)
  <2>1. ASSUME NEW S \in SUBSET P, S # {}
        PROVE  \E t \in S : \A s \in S : <<s, t>> \notin Pairs(d)
    <3> DEFINE Hits == {k \in 0..n : f[k] \cap S # {}}
    <3>1. n \in Hits  BY <1>2, <1>7, <2>1
    <3>2. Hits \subseteq Nat  BY <1>2
    <3>3. PICK k \in Hits : \A l \in Hits : k <= l  BY <3>1, <3>2, NatLeast
    <3>4. k \in 0..n /\ k # 0  BY <1>3, <3>3
    <3>5. k - 1 \in 0..(n - 1) /\ k - 1 \in 0..n /\ (k - 1) + 1 = k /\ ~(k <= k - 1)
      BY <1>2, <3>4
    <3>6. f[k - 1] \cap S = {}  BY <3>3, <3>5
    <3>7. PICK t : t \in f[k] \cap S  BY <3>3
    <3>8. f[k] = Takeable(d, f[k - 1])  BY <1>3, <3>5
    <3>9. ParentsOf(d, t) \subseteq f[k - 1]  BY <3>7, <3>8 DEF Takeable
    <3>10. ASSUME NEW s \in S
           PROVE  <<s, t>> \notin Pairs(d)
      BY <2>1, <3>6, <3>9 DEF ParentsOf
    <3> QED  BY <3>7, <3>10
  <2>2. \A S \in (SUBSET P) \ {{}} : \E t \in S : \A s \in S : <<s, t>> \notin Pairs(d)
    <3> HIDE DEF P
    <3> QED  BY <2>1
  <2> QED  BY <2>2 DEF AcyclicNodes
<1>8. ASSUME AcyclicNodes(d)
      PROVE  f[n] = P
  <2>1. IsFiniteSet(P) /\ Cardinality(P) = n
    <3>1. 1 \in Int /\ n \in Int  BY <1>2
    <3>2. IsFiniteSet(1..n) /\ Cardinality(1..n) = IF 1 > n THEN 0 ELSE n - 1 + 1
      BY <3>1, FS_Interval
    <3> QED  BY <1>2, <3>2
  <2>2. \A k \in 0..n : IsFiniteSet(f[k]) /\ Cardinality(f[k]) \in Nat /\ Cardinality(f[k]) <= n
    BY <1>4, <2>1, FS_Subset, FS_CardinalityType
  <2> DEFINE Far == {k \in Nat : k <= n => f[k] = P \/ Cardinality(f[k]) >= k}
  <2>3. 0 \in Far
    <3>1. Cardinality(f[0]) = 0  BY <1>3, FS_EmptySet
    <3> QED  BY <3>1
  <2>4. ASSUME NEW k \in 0..(n - 1), k \in Far
        PROVE  k + 1 \in Far
    <3>0. k \in 0..n /\ k + 1 \in 0..n /\ k <= n  BY <1>2
    <3>1. f[k] \subseteq f[k + 1] /\ f[k + 1] \subseteq P  BY <1>4, <1>6, <3>0
    <3>2. CASE f[k] = P
      <4>1. f[k + 1] = P  BY <3>1, <3>2
      <4> QED  BY <4>1
    <3>3. CASE f[k] # P
      <4>1. P \ f[k] # {} /\ P \ f[k] \in SUBSET P  BY <1>4, <3>0, <3>3
      <4>2. PICK t \in P \ f[k] : \A s \in P \ f[k] : <<s, t>> \notin Pairs(d)
        BY <1>8, <4>1 DEF AcyclicNodes
      <4>3. ParentsOf(d, t) \subseteq f[k]  BY <4>2 DEF ParentsOf
      <4>4. t \in f[k + 1]  BY <1>3, <4>2, <4>3 DEF Takeable
      <4>5. f[k] # f[k + 1]  BY <4>2, <4>4
      <4>6. Cardinality(f[k]) <= Cardinality(f[k + 1]) /\ Cardinality(f[k]) # Cardinality(f[k + 1])
        BY <2>2, <3>0, <3>1, <4>5, FS_Subset
      <4>7. Cardinality(f[k]) \in Nat /\ Cardinality(f[k + 1]) \in Nat  BY <2>2, <3>0
      <4>8. Cardinality(f[k]) >= k  BY <2>4, <3>0, <3>3
      <4>9. Cardinality(f[k + 1]) >= k + 1  BY <4>6, <4>7, <4>8
      <4> QED  BY <4>9
    <3> QED  BY <3>2, <3>3
  <2>5. n \in Far
    <3> HIDE DEF Far
    <3>1. \A k \in 0..n : k \in Far  BY <1>2, <2>3, <2>4, UpTo
    <3> QED  BY <1>2, <3>1
  <2>6. n \in 0..n /\ n <= n  BY <1>2
  <2>7. f[n] = P \/ Cardinality(f[n]) >= n  BY <2>5, <2>6
  <2>8. Cardinality(f[n]) \in Nat /\ Cardinality(f[n]) <= n /\ f[n] \subseteq P  BY <1>4, <2>2, <2>6
  <2>9. CASE Cardinality(f[n]) >= n
    <3>1. Cardinality(f[n]) = Cardinality(P)  BY <1>2, <2>1, <2>8, <2>9
    <3> QED  BY <2>1, <2>8, <3>1, FS_Subset
  <2> QED  BY <2>7, <2>9
<1> QED  BY <1>1, <1>7, <1>8

-----------------------------------------------------------------------------
(***************************************************************************)
(* Registrations and edges: a pair of states was registered twice just     *)
(* when two edges join its nodes.                                          *)
(***************************************************************************)
LEMMA AtMostOne ==
  ASSUME NEW S, IsFiniteSet(S)
  PROVE  Cardinality(S) <= 1 <=> \A x, y \in S : x = y
<1>0. Cardinality(S) \in Nat  BY FS_CardinalityType
<1>1. ASSUME NEW x \in S, NEW y \in S, x # y
      PROVE  Cardinality(S) > 1
  <2>1. IsFiniteSet({x}) /\ Cardinality({x}) = 1  BY FS_Singleton
  <2>2. Cardinality({x} \cup {y}) = 2  BY <1>1, <2>1, FS_AddElement
  <2>3. {x} \cup {y} \in SUBSET S  OBVIOUS
  <2>4. Cardinality({x} \cup {y}) <= Cardinality(S)  BY <2>3, FS_Subset
  <2> QED  BY <1>0, <2>2, <2>4
<1>2. ASSUME \A x, y \in S : x = y
      PROVE  Cardinality(S) <= 1
  <2>1. CASE S = {}  BY <2>1, FS_EmptySet
  <2>2. CASE S # {}
    <3>1. \E x : S = {x}  BY <1>2, <2>2
    <3>2. Cardinality(S) = 1  BY <3>1, FS_Singleton
    <3> QED  BY <3>2
  <2> QED  BY <2>1, <2>2
<1> QED  BY <1>0, <1>1, <1>2

\* The states at the ends of an edge.
LEMMA EndStates ==
  ASSUME NEW g, DagOK(g), NEW a \in Transitions(g)
  PROVE  /\ Endpoints(g, a) \in PairsOf(g)
         /\ Endpoints(g, a) = <<Endpoints(g, a)[1], Endpoints(g, a)[2]>>
         /\ Endpoints(g, a)[1] \in Positions(g)
         /\ Endpoints(g, a)[2] \in Positions(g)
         /\ g.nodes[Endpoints(g, a)[1]].state \in States
         /\ g.nodes[Endpoints(g, a)[2]].state \in States
<1>1. Endpoints(g, a) \in PairsOf(g)  BY DEF PairsOf
<1>2. Endpoints(g, a)[1] \in Positions(g) /\ Endpoints(g, a)[2] \in Positions(g)
  BY <1>1, LevelsOfDag
<1>3. Endpoints(g, a) = <<Endpoints(g, a)[1], Endpoints(g, a)[2]>>  BY DEF Endpoints
<1> QED  BY <1>1, <1>2, <1>3, LabelsOfNode DEF DagOK

EdgesOnce(g) == \A a, b \in Transitions(g) : Endpoints(g, a) = Endpoints(g, b) => a = b

LEMMA OnceByArcs ==
  ASSUME NEW g, DagOK(g), \A s, t \in States : IsFiniteSet(Arcs(g, s, t))
  PROVE  EdgesOnce(g) <=> \A s, t \in States : Cardinality(Arcs(g, s, t)) <= 1
<1>1. ASSUME EdgesOnce(g), NEW s \in States, NEW t \in States
      PROVE  Cardinality(Arcs(g, s, t)) <= 1
  <2>1. ASSUME NEW x \in Arcs(g, s, t), NEW y \in Arcs(g, s, t)
        PROVE  x = y
    <3>1. x \in Transitions(g) /\ y \in Transitions(g)  BY DEF Arcs
    <3>2. /\ g.nodes[Endpoints(g, x)[1]].state = g.nodes[Endpoints(g, y)[1]].state
          /\ g.nodes[Endpoints(g, x)[2]].state = g.nodes[Endpoints(g, y)[2]].state
      BY DEF Arcs
    <3>3. Endpoints(g, x)[1] = Endpoints(g, y)[1] /\ Endpoints(g, x)[2] = Endpoints(g, y)[2]
      BY <3>1, <3>2, EndStates DEF DagOK, OneNodePerState
    <3>4. Endpoints(g, x) = Endpoints(g, y)  BY <3>1, <3>3, EndStates
    <3> QED  BY <1>1, <3>1, <3>4 DEF EdgesOnce
  <2> QED  BY <2>1, AtMostOne
<1>2. ASSUME \A s, t \in States : Cardinality(Arcs(g, s, t)) <= 1,
             NEW x \in Transitions(g), NEW y \in Transitions(g), Endpoints(g, x) = Endpoints(g, y)
      PROVE  x = y
  <2> DEFINE s == g.nodes[Endpoints(g, x)[1]].state
             t == g.nodes[Endpoints(g, x)[2]].state
  <2>1. s \in States /\ t \in States  BY EndStates
  <2>2. x \in Arcs(g, s, t) /\ y \in Arcs(g, s, t)  BY <1>2 DEF Arcs
  <2> HIDE DEF s, t
  <2> QED  BY <1>2, <2>1, <2>2, AtMostOne
<1> QED  BY <1>1, <1>2 DEF EdgesOnce

\* Counting pairs of records tells whether one comes twice.
LEMMA OnceByRecords ==
  ASSUME accepted \in Seq(Records)
  PROVE  RegisteredOnce <=>
           \A s, t \in States : Cardinality(Registrations(accepted, Len(accepted), s, t)) <= 1
<1> DEFINE n == Len(accepted)
           f == [k \in 1..n |-> <<accepted[k].parent, accepted[k].child>>]
<1>1. n \in Nat /\ DOMAIN accepted = 1..n /\ \A k \in 1..n : accepted[k] \in Records
  OBVIOUS
<1>2. IsFiniteSet(1..n) /\ Cardinality(1..n) = n
  <2>1. 1 \in Int /\ n \in Int  BY <1>1
  <2>2. IsFiniteSet(1..n) /\ Cardinality(1..n) = IF 1 > n THEN 0 ELSE n - 1 + 1
    BY <2>1, FS_Interval
  <2> QED  BY <1>1, <2>2
<1>3. GivenPairs = {<<accepted[k].parent, accepted[k].child>> : k \in 1..n}
  BY <1>1 DEF GivenPairs, Given
<1>4. \A k \in 1..n : f[k] = <<accepted[k].parent, accepted[k].child>>  OBVIOUS
<1>5. f \in Surjection(1..n, GivenPairs)
  <2>1. \A k \in 1..n : f[k] \in GivenPairs  BY <1>3
  <2>2. \A p \in GivenPairs : \E k \in 1..n : f[k] = p  BY <1>3
  <2>3. f \in [1..n -> GivenPairs]  BY <2>1
  <2> HIDE DEF f, n
  <2> QED  BY <2>2, <2>3 DEF Surjection
<1> HIDE DEF n, f
<1>6. RegisteredOnce <=> f \in Injection(1..n, GivenPairs)
  BY <1>2, <1>5, FS_Surjection DEF RegisteredOnce, n
<1>7. f \in Injection(1..n, GivenPairs) <=> \A k, l \in 1..n : f[k] = f[l] => k = l
  BY <1>5 DEF Injection, IsInjective, Surjection
<1>8. \A s, t : IsFiniteSet(Registrations(accepted, n, s, t))
  BY <1>2, FS_Subset DEF Registrations
<1>9. ASSUME \A k, l \in 1..n : f[k] = f[l] => k = l, NEW s \in States, NEW t \in States
      PROVE  Cardinality(Registrations(accepted, n, s, t)) <= 1
  <2>1. \A k, l \in Registrations(accepted, n, s, t) : k = l
    BY <1>4, <1>9, SMTT(30) DEF Registrations
  <2> QED  BY <1>8, <2>1, AtMostOne
<1>10. ASSUME \A s, t \in States : Cardinality(Registrations(accepted, n, s, t)) <= 1,
              NEW k \in 1..n, NEW l \in 1..n, f[k] = f[l]
       PROVE  k = l
  <2> DEFINE s == accepted[k].parent
             t == accepted[k].child
  <2>1. s \in States /\ t \in States
    <3>1. accepted[k] \in Records  BY <1>1
    <3> QED  BY <3>1 DEF Records
  <2>2. accepted[l].parent = s /\ accepted[l].child = t  BY <1>4, <1>10
  <2>3. k \in Registrations(accepted, n, s, t) /\ l \in Registrations(accepted, n, s, t)
    BY <2>2 DEF Registrations
  <2> HIDE DEF s, t
  <2>4. Cardinality(Registrations(accepted, n, s, t)) <= 1  BY <1>10, <2>1
  <2> QED  BY <1>8, <2>3, <2>4, AtMostOne
<1> QED  BY <1>6, <1>7, <1>9, <1>10 DEF n

LEMMA OnceIsOnce ==
  ASSUME Inv, Tells
  PROVE  RegisteredOnce <=> EdgesOnce(dag)
<1>1. accepted \in Seq(Records) /\ DagOK(dag)  BY DEF Inv, HistoryOK
<1>2. ToldArcs(dag, accepted, Len(accepted))  BY DEF Tells, Shows, Told
<1>3. \A s, t \in States : IsFiniteSet(Arcs(dag, s, t))  BY <1>2 DEF ToldArcs
<1>4. EdgesOnce(dag) <=> \A s, t \in States : Cardinality(Arcs(dag, s, t)) <= 1
  BY <1>1, <1>3, OnceByArcs
<1>5. RegisteredOnce <=>
        \A s, t \in States : Cardinality(Registrations(accepted, Len(accepted), s, t)) <= 1
  BY <1>1, OnceByRecords
<1> QED  BY <1>2, <1>4, <1>5 DEF ToldArcs

\* The pairs of states that were registered are those that edges join.
LEMMA GivenPairsAreJoined ==
  ASSUME Inv, Tells, NEW s \in States, NEW t \in States
  PROVE  <<s, t>> \in GivenPairs <=> \E p \in PairsOf(dag) : StateOf(p[1]) = s /\ StateOf(p[2]) = t
<1> DEFINE n == Len(accepted)
           made == Registrations(accepted, n, s, t)
<1>1. accepted \in Seq(Records) /\ DagOK(dag) /\ n \in Nat /\ DOMAIN accepted = 1..n
  BY DEF Inv, HistoryOK
<1>2. IsFiniteSet(Arcs(dag, s, t)) /\ Cardinality(Arcs(dag, s, t)) = Cardinality(made)
  BY DEF Tells, Shows, Told, ToldArcs
<1>3. IsFiniteSet(made)
  <2>1. IsFiniteSet(1..n)  BY <1>1, FS_Interval
  <2> QED  BY <2>1, FS_Subset DEF Registrations
<1>4. made = {} <=> Arcs(dag, s, t) = {}  BY <1>2, <1>3, FS_EmptySet
<1>5. <<s, t>> \in GivenPairs <=> made # {}
  <2>1. GivenPairs = {<<accepted[k].parent, accepted[k].child>> : k \in 1..n}
    BY <1>1 DEF GivenPairs, Given
  <2>2. <<s, t>> \in GivenPairs <=>
          \E k \in 1..n : accepted[k].parent = s /\ accepted[k].child = t
    BY <2>1
  <2> QED  BY <2>2 DEF Registrations
<1>6. Arcs(dag, s, t) # {} <=> \E p \in PairsOf(dag) : StateOf(p[1]) = s /\ StateOf(p[2]) = t
  BY DEF Arcs, PairsOf, StateOf
<1> QED  BY <1>4, <1>5, <1>6

LEMMA AcyclicStates ==
  ASSUME Inv, Tells, NEW d, NodeSet(d) = Positions(dag), Pairs(d) = PairsOf(dag)
  PROVE  AcyclicNodes(d) <=> Acyclic
<1>0. /\ DagOK(dag) /\ OneNodePerState(dag)
      /\ \A i \in Positions(dag) : StateOf(i) \in States /\ StateOf(i) \in Known(dag)
      /\ \A s \in Known(dag) : \E i \in Positions(dag) : s = StateOf(i)
  <2>1. DagOK(dag)  BY DEF Inv
  <2> QED  BY <2>1, LabelsOfNode DEF DagOK, StateOf, Known
<1>1. \A p \in PairsOf(dag) : /\ p[1] \in Positions(dag) /\ p[2] \in Positions(dag)
                              /\ p = <<p[1], p[2]>>
  BY <1>0, LevelsOfDag, PairMember
<1>2. ASSUME AcyclicNodes(d), NEW S \in (SUBSET Known(dag)) \ {{}}
      PROVE  \E t \in S : \A s \in S : <<s, t>> \notin GivenPairs
  <2> DEFINE P == {i \in Positions(dag) : StateOf(i) \in S}
  <2>1. P \in (SUBSET NodeSet(d)) \ {{}}
    <3>1. PICK s \in S : s \in Known(dag)  OBVIOUS
    <3>2. PICK i \in Positions(dag) : s = StateOf(i)  BY <1>0, <3>1
    <3> QED  BY <3>1, <3>2
  <2>2. PICK t \in P : \A s \in P : <<s, t>> \notin PairsOf(dag)
    <3> HIDE DEF P
    <3> QED  BY <1>2, <2>1 DEF AcyclicNodes
  <2>3. ASSUME NEW s \in S, <<s, StateOf(t)>> \in GivenPairs
        PROVE  FALSE
    <3>1. s \in States /\ StateOf(t) \in States  BY <1>0, <2>2
    <3>2. PICK p \in PairsOf(dag) : StateOf(p[1]) = s /\ StateOf(p[2]) = StateOf(t)
      BY <2>3, <3>1, GivenPairsAreJoined
    <3>3. p[2] = t
      <4>1. p[2] \in Positions(dag) /\ t \in Positions(dag)  BY <1>1, <2>2
      <4>2. dag.nodes[p[2]].state = dag.nodes[t].state  BY <3>2 DEF StateOf
      <4> QED  BY <1>0, <4>1, <4>2 DEF OneNodePerState
    <3>4. p[1] \in P  BY <1>1, <2>3, <3>2
    <3>5. p = <<p[1], t>>  BY <1>1, <3>3
    <3> QED  BY <2>2, <3>2, <3>4, <3>5
  <2> QED  BY <2>2, <2>3
<1>3. ASSUME Acyclic, NEW S \in (SUBSET NodeSet(d)) \ {{}}
      PROVE  \E t \in S : \A s \in S : <<s, t>> \notin Pairs(d)
  <2> DEFINE T == {StateOf(i) : i \in S}
  <2>1. T \in (SUBSET Known(dag)) \ {{}}  BY <1>0
  <2>2. PICK u \in T : \A s \in T : <<s, u>> \notin GivenPairs
    <3> HIDE DEF T
    <3> QED  BY <1>3, <2>1 DEF Acyclic
  <2>3. PICK t \in S : u = StateOf(t)  BY <2>2
  <2>4. ASSUME NEW s \in S, <<s, t>> \in PairsOf(dag)
        PROVE  FALSE
    <3>1. StateOf(s) \in States /\ StateOf(t) \in States  BY <1>0
    <3>2. \E p \in PairsOf(dag) : StateOf(p[1]) = StateOf(s) /\ StateOf(p[2]) = StateOf(t)
      BY <2>4
    <3>3. <<StateOf(s), StateOf(t)>> \in GivenPairs  BY <3>1, <3>2, GivenPairsAreJoined
    <3> QED  BY <2>2, <2>3, <3>3
  <2> QED  BY <2>4
<1> QED  BY <1>2, <1>3 DEF Acyclic, AcyclicNodes

-----------------------------------------------------------------------------
(***************************************************************************)
(* The constructor of the semantic dag, given the nodes and edges of a dag *)
(* whose depths were computed.                                             *)
(***************************************************************************)
Handed(d, g) ==
  /\ Len(d.nodes) = Len(g.nodes)
  /\ NodeSet(d) = Positions(g)
  /\ d.edges = Edges(g)
  /\ \A i \in Positions(g) : d.nodes[i].depth = g.nodes[i].depth

LEMMA HandedEdges ==
  ASSUME NEW g, DagOK(g), NEW d, Handed(d, g)
  PROVE  /\ DOMAIN d.edges = Transitions(g)
         /\ \A t \in Transitions(g) : d.edges[t] = Endpoints(g, t)
         /\ Pairs(d) = PairsOf(g)
<1>1. d.edges = [t \in Transitions(g) |-> Endpoints(g, t)]  BY DEF Handed, Edges
<1>2. DOMAIN d.edges = Transitions(g)  BY <1>1
<1>3. \A t \in Transitions(g) : d.edges[t] = Endpoints(g, t)  BY <1>1
<1>4. Pairs(d) = PairsOf(g)  BY <1>2, <1>3 DEF Pairs, PairsOf
<1> QED  BY <1>2, <1>3, <1>4

LEMMA AcceptedWhen ==
  ASSUME NEW g, DagOK(g), Computed(g), NEW d, Handed(d, g), NEW allow \in BOOLEAN
  PROVE  Accepted(d, allow) <=>
           /\ d.nodes[1].labels.action = None /\ d.nodes[1].labels.delta = None
           /\ \A i \in Positions(g) : g.nodes[i].depth >= 0
           /\ EdgesOnce(g)
           /\ allow \/ AcyclicNodes(d)
<1>1. /\ Len(d.nodes) \in Nat \ {0}
      /\ Len(d.nodes) = Len(g.nodes)
      /\ NodeSet(d) = 1..Len(d.nodes)
      /\ NodeSet(d) = Positions(g)
      /\ \A i \in NodeSet(d) : d.nodes[i].depth = g.nodes[i].depth
  BY LevelsOfDag DEF Handed
<1>2. /\ DOMAIN d.edges = Transitions(g)
      /\ \A t \in Transitions(g) : d.edges[t] = Endpoints(g, t)
      /\ Pairs(d) = PairsOf(g)
  BY HandedEdges
<1>3. RootIsPlain(d) <=> d.nodes[1].labels.action = None /\ d.nodes[1].labels.delta = None
  <2>1. d.nodes[1].depth = 0
    <3>1. g.nodes[1].depth = 0  BY ComputedDistances DEF Distances
    <3>2. 1 \in NodeSet(d)  BY <1>1
    <3> QED  BY <1>1, <3>1, <3>2
  <2>2. d.nodes # <<>>
    <3>1. Len(d.nodes) # 0  BY <1>1
    <3>2. Len(<<>>) = 0  OBVIOUS
    <3> QED  BY <3>1, <3>2
  <2> QED  BY <2>1, <2>2 DEF RootIsPlain
<1>4. (\A i \in NodeSet(d) : d.nodes[i].depth >= 0) <=>
        \A i \in Positions(g) : g.nodes[i].depth >= 0
  BY <1>1
<1>5. \A t \in DOMAIN d.edges : d.edges[t][1] \in NodeSet(d) /\ d.edges[t][2] \in NodeSet(d)
  BY <1>1, <1>2, EndStates
<1>6. (\A t, u \in DOMAIN d.edges : d.edges[t] = d.edges[u] => t = u) <=> EdgesOnce(g)
  BY <1>2 DEF EdgesOnce
<1>7. AcyclicNodes(d) => \A t \in DOMAIN d.edges : d.edges[t][1] # d.edges[t][2]
  <2>1. ASSUME AcyclicNodes(d), NEW t \in DOMAIN d.edges, d.edges[t][1] = d.edges[t][2]
        PROVE  FALSE
    <3> DEFINE i == d.edges[t][1]
    <3>1. i \in NodeSet(d)  BY <1>5
    <3>2. d.edges[t] = <<i, i>>  BY <1>2, <2>1, EndStates
    <3>3. <<i, i>> \in Pairs(d)  BY <3>2 DEF Pairs
    <3>4. {i} \in (SUBSET NodeSet(d)) \ {{}}  BY <3>1
    <3> HIDE DEF i
    <3> QED  BY <2>1, <3>3, <3>4 DEF AcyclicNodes
  <2> QED  BY <2>1
<1>8. Sorted(d) = NodeSet(d) <=> AcyclicNodes(d)  BY <1>1, SortedIsAcyclic
<1>9. \A i \in NodeSet(d) : ShortestDepth(d)[i] = g.nodes[i].depth
  <2>1. Levels(1, Pairs(d), Len(d.nodes)) = LevelsOf(g)  BY <1>1, <1>2 DEF LevelsOf
  <2>2. \A i \in NodeSet(d) : ShortestDepth(d)[i] = Depth(LevelsOf(g), Len(g.nodes), i)
    BY <1>1, <2>1 DEF ShortestDepth
  <2> QED  BY <1>1, <2>2 DEF Computed
<1>10. EdgesValid(d, allow) /\ (allow \/ AcyclicNodes(d)) <=>
         EdgesOnce(g) /\ (allow \/ AcyclicNodes(d))
  BY <1>5, <1>6, <1>7 DEF EdgesValid
<1>11. (\A i \in NodeSet(d) : ShortestDepth(d)[i] >= 0 /\ d.nodes[i].depth = ShortestDepth(d)[i])
         <=> \A i \in Positions(g) : g.nodes[i].depth >= 0
  BY <1>1, <1>9
<1> QED
  <2>1. Accepted(d, allow) <=>
          /\ RootIsPlain(d)
          /\ \A i \in NodeSet(d) : d.nodes[i].depth >= 0
          /\ EdgesValid(d, allow)
          /\ allow \/ Sorted(d) = NodeSet(d)
          /\ \A i \in NodeSet(d) :
               ShortestDepth(d)[i] >= 0 /\ d.nodes[i].depth = ShortestDepth(d)[i]
    BY DEF Accepted
  <2> QED  BY <1>3, <1>4, <1>8, <1>10, <1>11, <2>1

LEMMA DagEncodes ==
  ASSUME Inv, Tells, DepthsComputed
  PROVE  BuiltDagsEncode
<1> SUFFICES ASSUME ~unfinished
             PROVE  LET sound == RegisteredOnce /\ AllReached /\ RootLabels.delta = None
                    IN  /\ HeteroAccepts(dag) <=> sound
                        /\ FlatAccepts(dag) <=> sound /\ Acyclic /\ RootLabels.action = None
  BY DEF BuiltDagsEncode
<1>1. DagOK(dag) /\ Computed(dag)  BY DEF Inv, DepthsComputed
<1>2. 1 \in Positions(dag) /\ Positions(dag) = DOMAIN dag.nodes
  BY <1>1, LevelsOfDag DEF Positions
<1>3. RegisteredOnce <=> EdgesOnce(dag)  BY OnceIsOnce
<1> DEFINE flat == FlatDag(dag)
           hetero == HeteroDag(dag)
<1>4. Handed(flat, dag) /\ flat.nodes = dag.nodes
  BY DEF Handed, FlatDag, NodeSet, Positions
<1>5. /\ Handed(hetero, dag)
      /\ hetero.nodes[1].labels.action = None
      /\ hetero.nodes[1].labels.delta = RootLabels.delta
  <2>1. dag.nodes \in Seq(DagNodes)  BY <1>1 DEF DagOK, DagTyped
  <2>2. dag.nodes[1] \in DagNodes  BY <1>2, <2>1
  <2> DEFINE nodes == [dag.nodes EXCEPT ![1].labels.action = None]
  <2>3. /\ DOMAIN nodes = DOMAIN dag.nodes
        /\ Len(nodes) = Len(dag.nodes)
        /\ \A i \in Positions(dag) : nodes[i].depth = dag.nodes[i].depth
        /\ nodes[1].labels.action = None
        /\ nodes[1].labels.delta = dag.nodes[1].labels.delta
    BY <1>2, <2>1, <2>2 DEF DagNodes, Labels
  <2>4. hetero.nodes = nodes /\ hetero.edges = Edges(dag)  BY DEF HeteroDag
  <2> HIDE DEF nodes, hetero
  <2> QED  BY <1>2, <2>3, <2>4 DEF Handed, NodeSet, RootLabels
<1> HIDE DEF flat, hetero
<1>6. HeteroAccepts(dag) <=>
        RegisteredOnce /\ AllReached /\ RootLabels.delta = None
  <2>1. Accepted(hetero, TRUE) <=>
          /\ hetero.nodes[1].labels.action = None /\ hetero.nodes[1].labels.delta = None
          /\ \A i \in Positions(dag) : dag.nodes[i].depth >= 0
          /\ EdgesOnce(dag)
    BY <1>1, <1>5, AcceptedWhen
  <2> QED  BY <1>3, <1>5, <2>1 DEF HeteroAccepts, AllReached, hetero
<1>7. FlatAccepts(dag) <=>
        /\ RegisteredOnce /\ AllReached /\ RootLabels.delta = None
        /\ Acyclic /\ RootLabels.action = None
  <2>1. Accepted(flat, FALSE) <=>
          /\ flat.nodes[1].labels.action = None /\ flat.nodes[1].labels.delta = None
          /\ \A i \in Positions(dag) : dag.nodes[i].depth >= 0
          /\ EdgesOnce(dag)
          /\ AcyclicNodes(flat)
    BY <1>1, <1>4, AcceptedWhen
  <2>2. Pairs(flat) = PairsOf(dag) /\ NodeSet(flat) = Positions(dag)
    BY <1>1, <1>4, HandedEdges DEF Handed
  <2>3. AcyclicNodes(flat) <=> Acyclic  BY <2>2, AcyclicStates
  <2> QED  BY <1>3, <1>4, <2>1, <2>3 DEF FlatAccepts, AllReached, RootLabels, flat
<1> QED  BY <1>6, <1>7

-----------------------------------------------------------------------------
(***************************************************************************)
(* The fourth invariant: every edge of the rustworkx graph is still to be  *)
(* gone through or has become a record, an edge that waits has a source    *)
(* that is not available unless this round made one so, and what an import *)
(* returned is made of the records of all the edges.                       *)
(***************************************************************************)
Listed(q, x) == \E k \in DOMAIN q : q[k] = x

ReadFrom(graph, fallback, r) == \E e \in EdgeSet(graph) : r = EdgeRecord(graph, fallback, e)

Reading(graph, i) ==
  /\ SingleRoot(graph)
  /\ \A e \in EdgeSet(graph) :
       \/ Listed(i.pending, e)
       \/ Listed(i.waiting, e)
       \/ e[2] \in i.available /\ Listed(i.records, EdgeRecord(graph, i.fallback, e))
  /\ \A k \in DOMAIN i.waiting : i.waiting[k] \in EdgeSet(graph)
  /\ \A k \in DOMAIN i.pending : i.pending[k] \in EdgeSet(graph)
  /\ \A k \in DOMAIN i.records : ReadFrom(graph, i.fallback, i.records[k])
  /\ RootOf(graph) \in i.available
  /\ i.progressed \/ \A k \in DOMAIN i.waiting : i.waiting[k][1] \notin i.available
  /\ i.dag.nodes[1].state = graph.data[RootOf(graph)].state

WasRead(graph, g, records) ==
  /\ SingleRoot(graph)
  /\ g.nodes[1].state = graph.data[RootOf(graph)].state
  /\ \E fallback \in BOOLEAN :
       /\ \A e \in EdgeSet(graph) : Listed(records, EdgeRecord(graph, fallback, e))
       /\ \A k \in DOMAIN records : ReadFrom(graph, fallback, records[k])

Reads ==
  /\ Importing => Reading(rx, import)
  /\ imported => WasRead(rx, dag, accepted) /\ refused = {} /\ ~unfinished /\ bulk = <<>>

LEMMA ListedInTail ==
  ASSUME NEW S, NEW q \in Seq(S), q # <<>>
  PROVE  /\ \A x : Listed(q, x) => x = Head(q) \/ Listed(Tail(q), x)
         /\ Listed(q, Head(q))
         /\ \A k \in DOMAIN Tail(q) : Listed(q, Tail(q)[k])
<1>1. /\ DOMAIN q = 1..Len(q)
      /\ Len(q) \in Nat \ {0}
      /\ Head(q) = q[1]
      /\ DOMAIN Tail(q) = 1..(Len(q) - 1)
      /\ \A k \in 1..(Len(q) - 1) : Tail(q)[k] = q[k + 1]
  OBVIOUS
<1>2. ASSUME NEW x, Listed(q, x), x # Head(q)
      PROVE  Listed(Tail(q), x)
  <2>1. PICK k \in DOMAIN q : q[k] = x  BY <1>2 DEF Listed
  <2>2. k - 1 \in 1..(Len(q) - 1) /\ (k - 1) + 1 = k  BY <1>1, <1>2, <2>1
  <2>3. Tail(q)[k - 1] = x  BY <1>1, <2>1, <2>2
  <2> QED  BY <1>1, <2>2, <2>3 DEF Listed
<1>3. Listed(q, Head(q))
  <2>1. 1 \in DOMAIN q /\ q[1] = Head(q)  BY <1>1
  <2> QED  BY <2>1 DEF Listed
<1>4. ASSUME NEW k \in DOMAIN Tail(q)
      PROVE  Listed(q, Tail(q)[k])
  <2>1. k + 1 \in DOMAIN q /\ Tail(q)[k] = q[k + 1]  BY <1>1
  <2> QED  BY <2>1 DEF Listed
<1> QED  BY <1>2, <1>3, <1>4

LEMMA ListedInMore ==
  ASSUME NEW S, NEW q \in Seq(S), NEW e \in S
  PROVE  /\ \A x : Listed(q, x) => Listed(Append(q, e), x)
         /\ Listed(Append(q, e), e)
         /\ \A k \in DOMAIN Append(q, e) : Append(q, e)[k] = e \/ Listed(q, Append(q, e)[k])
<1> DEFINE more == Append(q, e)
<1>1. /\ Len(q) \in Nat /\ DOMAIN q = 1..Len(q)
      /\ DOMAIN more = 1..(Len(q) + 1)
      /\ \A k \in 1..Len(q) : more[k] = q[k]
      /\ more[Len(q) + 1] = e
  OBVIOUS
<1> HIDE DEF more
<1>2. ASSUME NEW x, Listed(q, x)
      PROVE  Listed(more, x)
  <2>1. PICK k \in DOMAIN q : q[k] = x  BY <1>2 DEF Listed
  <2>2. k \in DOMAIN more /\ more[k] = x  BY <1>1, <2>1
  <2> QED  BY <2>2 DEF Listed
<1>3. Listed(more, e)
  <2>1. Len(q) + 1 \in DOMAIN more  BY <1>1
  <2> QED  BY <1>1, <2>1 DEF Listed
<1>4. ASSUME NEW k \in DOMAIN more
      PROVE  more[k] = e \/ Listed(q, more[k])
  <2>1. k = Len(q) + 1 \/ k \in 1..Len(q)  BY <1>1
  <2> QED  BY <1>1, <2>1 DEF Listed
<1> QED  BY <1>2, <1>3, <1>4 DEF more

LEMMA EdgesOfGraph ==
  ASSUME GraphOK
  PROVE  /\ EdgeSet(rx) \subseteq EdgesOf(rx)
         /\ rx.edges \in Seq(EdgesOf(rx))
         /\ rx.data \in Seq(NodeData)
         /\ Indices(rx) = 1..Len(rx.data)
         /\ Len(rx.data) \in Nat
<1>1. rx.edges \in Seq(EdgesOf(rx)) /\ rx.data \in Seq(NodeData)  BY DEF GraphOK
<1>2. EdgeSet(rx) \subseteq EdgesOf(rx)  BY <1>1 DEF EdgeSet
<1> QED  BY <1>1, <1>2 DEF Indices

LEMMA InitReads ==
  ASSUME Init
  PROVE  Reads
BY DEF Init, Reads, Importing

LEMMA BeginReads ==
  ASSUME Inv, NEW fallback \in BOOLEAN, ImportBegins(fallback)
  PROVE  Reading(rx, import')
<1>1. SingleRoot(rx) /\ import' = ImportStarted(rx, fallback)
  BY DEF ImportBegins, ImportChecked
<1>2. /\ import'.pending = rx.edges
      /\ import'.waiting = <<>>
      /\ import'.available = {RootOf(rx)}
      /\ import'.records = <<>>
      /\ import'.dag = NewDag(rx.data[RootOf(rx)].state)
  BY <1>1 DEF ImportStarted
<1>3. \A e \in EdgeSet(rx) : Listed(rx.edges, e)  BY DEF EdgeSet, Listed
<1>4. \A k \in DOMAIN rx.edges : rx.edges[k] \in EdgeSet(rx)  BY DEF EdgeSet
<1>5. import'.dag.nodes[1].state = rx.data[RootOf(rx)].state
  BY <1>2 DEF NewDag, Node
<1> QED  BY <1>1, <1>2, <1>3, <1>4, <1>5 DEF Reading

LEMMA EdgeReads ==
  ASSUME Inv, Importing, Reading(rx, import), ImportEdge
  PROVE  Reading(rx, import')
<1> DEFINE e == Head(import.pending)
           record == EdgeRecord(rx, import.fallback, e)
           rest == Tail(import.pending)
<1>1. /\ import.pending \in Seq(EdgesOf(rx)) /\ import.pending # <<>>
      /\ import.waiting \in Seq(EdgesOf(rx))
      /\ import.records \in Seq(Records)
      /\ import.fallback \in BOOLEAN
      /\ import = [fallback |-> import.fallback, pending |-> import.pending,
                   waiting |-> import.waiting, available |-> import.available,
                   progressed |-> import.progressed, records |-> import.records,
                   registered |-> import.registered, dag |-> import.dag]
  BY ImportFields, ImportWhole DEF ImportEdge
<1>2. /\ \A x : Listed(import.pending, x) => x = e \/ Listed(rest, x)
      /\ Listed(import.pending, e)
      /\ \A k \in DOMAIN rest : Listed(import.pending, rest[k])
  BY <1>1, ListedInTail
<1>3. e \in EdgesOf(rx)  BY <1>1, HeadAndTail
<1>4. record \in Records  BY <1>1, <1>3, EdgeRecordIsRecord DEF Inv
<1>5. e \in EdgeSet(rx) /\ \A k \in DOMAIN rest : rest[k] \in EdgeSet(rx)
  BY <1>2 DEF Reading, Listed
<1>6. /\ e[1] \in import.available =>
           import' = [import EXCEPT !.pending = Tail(@), !.available = @ \cup {e[2]},
                                    !.progressed = TRUE, !.records = Append(@, record)]
      /\ e[1] \notin import.available =>
           import' = [import EXCEPT !.pending = Tail(@), !.waiting = Append(@, e)]
  BY DEF ImportEdge, AfterEdge
<1>7. record = EdgeRecord(rx, import.fallback, e)  OBVIOUS
<1>8. \A x : x = e => EdgeRecord(rx, import.fallback, x) = record  OBVIOUS
<1> HIDE DEF record, e
<1>9. CASE e[1] \in import.available
  <2> DEFINE more == Append(import.records, record)
  <2>1. /\ import'.pending = rest
        /\ import'.waiting = import.waiting
        /\ import'.available = import.available \cup {e[2]}
        /\ import'.progressed = TRUE
        /\ import'.records = more
        /\ import'.fallback = import.fallback
        /\ import'.dag = import.dag
    BY <1>1, <1>6, <1>9
  <2>2. /\ \A x : Listed(import.records, x) => Listed(more, x)
        /\ Listed(more, record)
        /\ \A k \in DOMAIN more : more[k] = record \/ Listed(import.records, more[k])
    BY <1>1, <1>4, ListedInMore
  <2> HIDE DEF more, rest
  <2>3. ASSUME NEW k \in DOMAIN more
        PROVE  ReadFrom(rx, import.fallback, more[k])
    <3>1. CASE more[k] = record  BY <1>5, <1>7, <3>1 DEF ReadFrom
    <3>2. CASE Listed(import.records, more[k])  BY <3>2 DEF Listed, Reading
    <3> QED  BY <2>2, <3>1, <3>2
  <2>4. ASSUME NEW x \in EdgeSet(rx)
        PROVE  \/ Listed(rest, x)
               \/ Listed(import.waiting, x)
               \/ /\ x[2] \in import.available \cup {e[2]}
                  /\ Listed(more, EdgeRecord(rx, import.fallback, x))
    <3>1. CASE x = e
      <4>1. Listed(more, EdgeRecord(rx, import.fallback, x))  BY <1>8, <2>2, <3>1
      <4> QED  BY <3>1, <4>1
    <3>2. CASE x # e
      <4>1. \/ Listed(import.pending, x)
            \/ Listed(import.waiting, x)
            \/ /\ x[2] \in import.available
               /\ Listed(import.records, EdgeRecord(rx, import.fallback, x))
        BY DEF Reading
      <4> QED  BY <1>2, <2>2, <3>2, <4>1
    <3> QED  BY <3>1, <3>2
  <2> QED  BY <1>5, <2>1, <2>3, <2>4 DEF Reading
<1>10. CASE e[1] \notin import.available
  <2> DEFINE more == Append(import.waiting, e)
  <2>1. /\ import'.pending = rest
        /\ import'.waiting = more
        /\ import'.available = import.available
        /\ import'.progressed = import.progressed
        /\ import'.records = import.records
        /\ import'.fallback = import.fallback
        /\ import'.dag = import.dag
    BY <1>1, <1>6, <1>10
  <2>2. /\ \A x : Listed(import.waiting, x) => Listed(more, x)
        /\ Listed(more, e)
        /\ \A k \in DOMAIN more : more[k] = e \/ Listed(import.waiting, more[k])
    BY <1>1, <1>3, ListedInMore
  <2> HIDE DEF more, rest
  <2>3. \A k \in DOMAIN more : more[k] \in EdgeSet(rx)
    BY <1>5, <2>2 DEF Reading, Listed
  <2>4. import.progressed \/ \A k \in DOMAIN more : more[k][1] \notin import.available
    BY <1>10, <2>2 DEF Reading, Listed
  <2>5. ASSUME NEW x \in EdgeSet(rx)
        PROVE  \/ Listed(rest, x)
               \/ Listed(more, x)
               \/ /\ x[2] \in import.available
                  /\ Listed(import.records, EdgeRecord(rx, import.fallback, x))
    <3>1. \/ Listed(import.pending, x)
          \/ Listed(import.waiting, x)
          \/ /\ x[2] \in import.available
             /\ Listed(import.records, EdgeRecord(rx, import.fallback, x))
      BY DEF Reading
    <3> QED  BY <1>2, <2>2, <3>1
  <2> QED  BY <1>5, <2>1, <2>3, <2>4, <2>5 DEF Reading
<1> QED  BY <1>9, <1>10

LEMMA RoundReads ==
  ASSUME Inv, Importing, Reading(rx, import), ImportNextRound
  PROVE  Reading(rx, import')
<1>1. /\ import = [fallback |-> import.fallback, pending |-> import.pending,
                   waiting |-> import.waiting, available |-> import.available,
                   progressed |-> import.progressed, records |-> import.records,
                   registered |-> import.registered, dag |-> import.dag]
      /\ import' = [import EXCEPT !.pending = import.waiting, !.waiting = <<>>,
                                  !.progressed = FALSE]
      /\ import.pending = <<>>
  BY ImportWhole DEF ImportNextRound, NextRound
<1>2. /\ import'.pending = import.waiting
      /\ import'.waiting = <<>>
      /\ import'.available = import.available
      /\ import'.records = import.records
      /\ import'.fallback = import.fallback
      /\ import'.dag = import.dag
  BY <1>1
<1>3. \A x : ~Listed(import.pending, x)  BY <1>1 DEF Listed
<1>4. \A e \in EdgeSet(rx) :
        \/ Listed(import.waiting, e)
        \/ e[2] \in import.available /\ Listed(import.records, EdgeRecord(rx, import.fallback, e))
  BY <1>3 DEF Reading
<1>5. DOMAIN import'.waiting = {}  BY <1>2
<1> QED  BY <1>2, <1>4, <1>5 DEF Reading

LEMMA RegistersReads ==
  ASSUME Inv, Importing, Reading(rx, import), ImportRegisters
  PROVE  Reading(rx, import')
<1> DEFINE after == AfterRecord(import.dag, NextRecord, FALSE)
<1>1. /\ import = [fallback |-> import.fallback, pending |-> import.pending,
                   waiting |-> import.waiting, available |-> import.available,
                   progressed |-> import.progressed, records |-> import.records,
                   registered |-> import.registered, dag |-> import.dag]
      /\ import' = [import EXCEPT !.registered = @ + 1, !.dag = after]
      /\ import.registered < Len(import.records)
      /\ import.records \in Seq(Records) /\ import.registered \in Nat /\ DagOK(import.dag)
  BY ImportWhole, ImportFields DEF ImportRegisters
<1>2. NextRecord \in Records
  <2>1. import.registered + 1 \in 1..Len(import.records)  BY <1>1
  <2> QED  BY <1>1, <2>1 DEF NextRecord
<1>3. Extends(after, import.dag)  BY <1>1, <1>2, AfterRecordOK
<1>4. 1 \in Positions(import.dag)  BY <1>1, LevelsOfDag
<1> HIDE DEF after
<1>5. after.nodes[1].state = import.dag.nodes[1].state  BY <1>3, <1>4 DEF Extends
<1>6. import' = [fallback |-> import.fallback, pending |-> import.pending,
                 waiting |-> import.waiting, available |-> import.available,
                 progressed |-> import.progressed, records |-> import.records,
                 registered |-> import.registered + 1, dag |-> after]
  BY <1>1
<1>7. /\ import'.pending = import.pending
      /\ import'.waiting = import.waiting
      /\ import'.available = import.available
      /\ import'.progressed = import.progressed
      /\ import'.records = import.records
      /\ import'.fallback = import.fallback
      /\ import'.dag = after
  BY <1>6
<1> QED  BY <1>5, <1>7 DEF Reading

LEMMA ReturnsRead ==
  ASSUME Inv, Importing, Reading(rx, import), ImportReturns
  PROVE  WasRead(rx, dag', accepted')
<1>1. /\ import.pending = <<>> /\ import.waiting = <<>>
      /\ accepted' = import.records
      /\ dag' \in {import.dag, Finalized(import.dag)}
  BY DEF ImportReturns, EdgesDone
<1>2. import.fallback \in BOOLEAN /\ DagOK(import.dag)  BY ImportFields
<1>3. \A x : ~Listed(import.pending, x) /\ ~Listed(import.waiting, x)  BY <1>1 DEF Listed
<1>4. 1 \in Positions(import.dag)  BY <1>2, LevelsOfDag
<1>5. Extends(Finalized(import.dag), import.dag)  BY <1>2, FinalizedOK, SMTT(30)
<1>6. dag'.nodes[1].state = rx.data[RootOf(rx)].state
  BY <1>1, <1>4, <1>5 DEF Extends, Reading
<1>7. \A e \in EdgeSet(rx) : Listed(import.records, EdgeRecord(rx, import.fallback, e))
  BY <1>3 DEF Reading
<1>8. \A k \in DOMAIN import.records : ReadFrom(rx, import.fallback, import.records[k])
  BY DEF Reading
<1>9. SingleRoot(rx)  BY DEF Reading
<1> QED  BY <1>1, <1>2, <1>6, <1>7, <1>8, <1>9 DEF WasRead

LEMMA StepReads ==
  ASSUME Inv, DepthsComputed, Reads, [Next]_vars
  PROVE  Reads'
<1>1. CASE (\E r \in Calls : RegisterTransition(r) \/ RegisterTransitionRaises(r))
           \/ (\E records \in BulkCalls : BulkBegins(records)) \/ GraphStep
  <2>1. ~Importing /\ import' = import /\ imported' = FALSE
    BY <1>1 DEF RegisterTransition, RegisterTransitionRaises, BulkBegins, OnDag,
                GraphStep, RxAddNode, RxAddEdge, OnGraph
  <2> QED  BY <2>1 DEF Reads, Importing
<1>2. CASE BulkRegisters \/ BulkRaises
  <2>1. bulk # <<>> /\ UNCHANGED <<import, imported>>  BY <1>2 DEF BulkRegisters, BulkRaises
  <2>2. ~imported /\ ~Importing  BY <2>1 DEF Reads, DepthsComputed, ImportComputed
  <2> QED  BY <2>1, <2>2 DEF Reads, Importing
<1>3. ASSUME UNCHANGED <<dag, accepted, refused, bulk, unfinished, rx, imported>>
      PROVE  (imported => WasRead(rx, dag, accepted) /\ refused = {} /\ ~unfinished /\ bulk = <<>>)'
  BY <1>3 DEF Reads
<1>4. CASE \E fallback \in BOOLEAN : ImportBegins(fallback)
  <2>1. UNCHANGED <<dag, accepted, refused, bulk, unfinished, rx, imported>>
    BY <1>4 DEF ImportBegins
  <2>2. Reading(rx, import')  BY <1>4, BeginReads
  <2> QED  BY <1>3, <2>1, <2>2 DEF Reads
<1>5. CASE ImportEdge \/ ImportNextRound \/ ImportRegisters
  <2>1. Importing /\ UNCHANGED <<dag, accepted, refused, bulk, unfinished, rx, imported>>
    BY <1>5 DEF ImportEdge, ImportNextRound, ImportRegisters
  <2>2. Reading(rx, import')
    BY <1>5, <2>1, EdgeReads, RoundReads, RegistersReads DEF Reads
  <2> QED  BY <1>3, <2>1, <2>2 DEF Reads
<1>6. CASE ImportReturns
  <2>1. /\ Importing /\ import' = Idle /\ rx' = rx /\ bulk' = bulk
        /\ refused' = {} /\ unfinished' = FALSE
    BY <1>6 DEF ImportReturns
  <2>2. WasRead(rx, dag', accepted')  BY <1>6, <2>1, ReturnsRead DEF Reads
  <2>3. bulk = <<>>  BY <2>1 DEF DepthsComputed, ImportComputed
  <2> QED  BY <2>1, <2>2, <2>3 DEF Reads, Importing
<1>7. CASE ImportRaises
  <2>1. import' = Idle /\ UNCHANGED <<dag, accepted, refused, bulk, unfinished, rx, imported>>
    BY <1>7 DEF ImportRaises
  <2> QED  BY <1>3, <2>1 DEF Reads, Importing
<1>8. CASE UNCHANGED vars
  <2>1. UNCHANGED import /\ UNCHANGED <<dag, accepted, refused, bulk, unfinished, rx, imported>>
    BY <1>8 DEF vars
  <2> QED  BY <1>3, <2>1 DEF Reads, Importing
<1> QED  BY <1>1, <1>2, <1>4, <1>5, <1>6, <1>7, <1>8 DEF Next, GraphStep, ImportSteps

-----------------------------------------------------------------------------
(***************************************************************************)
(* An import raises in its edge loop only where the graph has a node that  *)
(* the root does not reach, or two nodes with one state.                   *)
(***************************************************************************)
LEMMA LevelsWithin ==
  ASSUME NEW f, NEW root, NEW pairs, NEW n \in Nat, f[0] = {root}, Climbs(f, pairs, n),
         NEW A, root \in A, \A p \in pairs : p[1] \in A => p[2] \in A
  PROVE  f[n] \subseteq A
<1> DEFINE Within == {k \in Nat : f[k] \subseteq A}
<1>1. 0 \in Within  OBVIOUS
<1>2. ASSUME NEW k \in 0..(n - 1), k \in Within
      PROVE  k + 1 \in Within
  <2>1. f[k + 1] = Reached(pairs, f[k])  BY DEF Climbs
  <2>2. Reached(pairs, f[k]) \subseteq A  BY <1>2 DEF Reached
  <2> QED  BY <2>1, <2>2
<1> HIDE DEF Within
<1>3. n \in Within
  <2>1. \A k \in 0..n : k \in Within  BY <1>1, <1>2, UpTo
  <2> QED  BY <2>1
<1> QED  BY <1>3 DEF Within

LEMMA ReachedByPyTyr ==
  ASSUME GraphOK, PyTyrAccepts(rx), NEW i \in Indices(rx)
  PROVE  i \in Levels(RootOf(rx), RxPairs(rx), Len(rx.data))[Len(rx.data)]
<1>1. RxDepths(rx)[i] >= 0  BY DEF PyTyrAccepts, ReadByPyTyr
<1>2. RxDepths(rx)[i] =
        Depth(Levels(RootOf(rx), RxPairs(rx), Len(rx.data)), Len(rx.data), i)
  BY DEF RxDepths
<1> QED  BY <1>1, <1>2 DEF Depth

LEMMA RoundsReachAll ==
  ASSUME Inv, Importing, Reading(rx, import), PyTyrAccepts(rx),
         import.pending = <<>>, import.waiting # <<>>
  PROVE  import.progressed
<1> SUFFICES ASSUME ~import.progressed
             PROVE  FALSE
  OBVIOUS
<1>1. import.waiting \in Seq(EdgesOf(rx))  BY ImportFields
<1> DEFINE A == import.available
           n == Len(rx.data)
           f == Levels(RootOf(rx), RxPairs(rx), n)
<1>2. \A x : ~Listed(import.pending, x)  BY DEF Listed
<1>3. \A e \in EdgeSet(rx) : e[1] \in A => e[2] \in A
  <2>1. \A e \in EdgeSet(rx) : Listed(import.waiting, e) => e[1] \notin A
    BY DEF Reading, Listed
  <2>2. \A e \in EdgeSet(rx) : Listed(import.waiting, e) \/ e[2] \in A
    BY <1>2 DEF Reading
  <2> QED  BY <2>1, <2>2
<1>4. \A p \in RxPairs(rx) : p[1] \in A => p[2] \in A  BY <1>3 DEF RxPairs
<1>5. n \in Nat  BY EdgesOfGraph DEF Inv
<1>6. RootOf(rx) \in A  BY DEF Reading
<1> HIDE DEF n, A
<1>7. f[0] = {RootOf(rx)} /\ Climbs(f, RxPairs(rx), n)  BY <1>5, LevelsAre DEF Climbs
<1> HIDE DEF f
<1>8. f[n] \subseteq A  BY <1>4, <1>5, <1>6, <1>7, LevelsWithin
<1>9. 1 \in DOMAIN import.waiting  BY <1>1
<1>10. import.waiting[1] \in EdgeSet(rx) /\ import.waiting[1][1] \notin A
  BY <1>9 DEF Reading, A
<1>11. import.waiting[1][1] \in Indices(rx)  BY <1>10, EdgesOfGraph DEF Inv, EdgesOf
<1>12. import.waiting[1][1] \in f[n]  BY <1>11, ReachedByPyTyr DEF Inv, f, n
<1> QED  BY <1>8, <1>10, <1>12

LEMMA RecordsOfOneNode ==
  ASSUME DistinctStates(rx), GraphOK, NEW fallback, NEW r, NEW q,
         ReadFrom(rx, fallback, r), ReadFrom(rx, fallback, q), r.child = q.child
  PROVE  r.labels.candidate_id = q.labels.candidate_id /\ r.labels.delta = q.labels.delta
<1>1. PICK e \in EdgeSet(rx) : r = EdgeRecord(rx, fallback, e)  BY DEF ReadFrom
<1>2. PICK d \in EdgeSet(rx) : q = EdgeRecord(rx, fallback, d)  BY DEF ReadFrom
<1>3. e[2] \in Indices(rx) /\ d[2] \in Indices(rx)  BY EdgesOfGraph DEF EdgesOf
<1>4. /\ r.child = rx.data[e[2]].state /\ q.child = rx.data[d[2]].state
      /\ r.labels.candidate_id = ResolvedId(rx, fallback, e[2])
      /\ q.labels.candidate_id = ResolvedId(rx, fallback, d[2])
      /\ r.labels.delta = rx.data[e[2]].delta /\ q.labels.delta = rx.data[d[2]].delta
  BY <1>1, <1>2 DEF EdgeRecord
<1>5. e[2] = d[2]  BY <1>3, <1>4 DEF DistinctStates
<1> QED  BY <1>4, <1>5

LEMMA RecordsAgree ==
  ASSUME Inv, Tells, Importing, Reading(rx, import), DistinctStates(rx),
         import.registered < Len(import.records)
  PROVE  Registers(import.dag, NextRecord, FALSE)
<1> DEFINE g == import.dag
           n == import.registered
           r == NextRecord
           h == WithParent(g, r, FALSE)
<1>1. /\ DagOK(g) /\ import.records \in Seq(Records) /\ n \in Nat
      /\ Shows(g, import.records, n, {})
  BY ImportFields DEF Tells, ImportTells
<1>2. n + 1 \in 1..Len(import.records) /\ DOMAIN import.records = 1..Len(import.records)
      /\ 1..n \subseteq DOMAIN import.records
  BY <1>1
<1>3. r \in Records /\ ReadFrom(rx, import.fallback, r)
  BY <1>1, <1>2 DEF NextRecord, Reading
<1> HIDE DEF g, n, r
<1>4. r.parent \in States /\ r.child \in States /\ r.labels \in Labels  BY <1>3 DEF Records
<1>5. h = WithNode(g, r.parent, NoLabels)  BY DEF WithParent
<1>6. DagOK(h) /\ Labelled(h, import.records, n, {})
  <2>1. NoLabels \in Labels  BY DEF NoLabels, Labels, Optional
  <2>2. DagOK(WithNode(g, r.parent, NoLabels))  BY <1>1, <1>4, <2>1, WithNodeOK
  <2>3. Met(g, import.records, n) \subseteq Known(g)  BY <1>1 DEF Shows, Told
  <2>4. Labelled(g, import.records, n, {})  BY <1>1 DEF Shows
  <2>5. Labelled(WithNode(g, r.parent, NoLabels), import.records, n, {})
    BY <1>1, <1>4, <2>3, <2>4, LabelledParent
  <2> QED  BY <1>5, <2>2, <2>5
<1> HIDE DEF h
<1>7. ASSUME contains(h, r.child)
      PROVE  LabelsAgree(h.nodes[index(h, r.child)].labels, r.labels)
  <2> DEFINE i == index(h, r.child)
  <2>1. i \in Positions(h) /\ h.nodes[i].state = r.child  BY <1>7, IndexFinds
  <2> HIDE DEF i
  <2>2. ASSUME NEW field \in {"candidate_id", "delta"}
        PROVE  h.nodes[i].labels[field] \in {None, r.labels[field]}
    <3>1. field \in DOMAIN NoLabels  BY DEF NoLabels
    <3>2. h.nodes[i].labels[field] = First(import.records, n, r.child, field)
      BY <1>6, <2>1, <3>1 DEF Labelled
    <3> DEFINE given == GivenTo(import.records, n, r.child, field)
    <3>3. CASE given = {}  BY <3>2, <3>3 DEF First
    <3>4. CASE given # {}
      <4>1. given \subseteq Nat  BY DEF GivenTo
      <4>2. \E k \in given : \A l \in given : k <= l  BY <3>4, <4>1, NatLeast
      <4> DEFINE k == CHOOSE k \in given : \A l \in given : k <= l
      <4>3. k \in given  BY <4>2
      <4>4. First(import.records, n, r.child, field) = import.records[k].labels[field]
        BY <3>4 DEF First
      <4> HIDE DEF k
      <4>5. k \in 1..n /\ import.records[k].child = r.child  BY <4>3 DEF GivenTo
      <4>6. ReadFrom(rx, import.fallback, import.records[k])
        BY <1>2, <4>5 DEF Reading
      <4>7. /\ import.records[k].labels.candidate_id = r.labels.candidate_id
            /\ import.records[k].labels.delta = r.labels.delta
        BY <1>3, <4>5, <4>6, RecordsOfOneNode DEF Inv
      <4>8. import.records[k].labels[field] = r.labels[field]  BY <2>2, <4>7
      <4> QED  BY <3>2, <4>4, <4>8
    <3> QED  BY <3>3, <3>4
  <2>3. /\ h.nodes[i].labels.candidate_id \in {None, r.labels.candidate_id}
        /\ h.nodes[i].labels.delta \in {None, r.labels.delta}
    BY <2>2
  <2> QED  BY <2>3 DEF LabelsAgree, CandidateAgrees, Agrees, i
<1> QED  BY <1>7 DEF Registers, MayLabel, g, h, r

LEMMA LoopLeaves ==
  ASSUME Inv, Tells, Reads, DepthsComputed, [Next]_vars, Importing, ~Importing', ~imported',
         DistinctStates(rx), PyTyrAccepts(rx)
  PROVE  FALSE
<1>0. Reading(rx, import)  BY DEF Reads
<1>1. ~ImportRaises
  <2>1. ~(import.pending = <<>> /\ import.waiting # <<>> /\ ~import.progressed)
    BY <1>0, RoundsReachAll
  <2>2. ~(import.registered < Len(import.records) /\ ~Registers(import.dag, NextRecord, FALSE))
    BY <1>0, RecordsAgree
  <2> QED  BY <2>1, <2>2 DEF ImportRaises
<1>2. import' # import  BY DEF Importing
<1>3. import = [fallback |-> import.fallback, pending |-> import.pending,
                waiting |-> import.waiting, available |-> import.available,
                progressed |-> import.progressed, records |-> import.records,
                registered |-> import.registered, dag |-> import.dag]
  BY ImportWhole
<1>4. ASSUME ImportEdge \/ ImportNextRound \/ ImportRegisters
      PROVE  FALSE
  <2>1. "fallback" \in DOMAIN import  BY <1>3
  <2>2. DOMAIN import' = DOMAIN import
    BY <1>4 DEF ImportEdge, AfterEdge, ImportNextRound, NextRound, ImportRegisters
  <2>3. "fallback" \notin DOMAIN Idle  BY DEF Idle
  <2> QED  BY <2>1, <2>2, <2>3 DEF Importing
<1>5. ~ImportReturns  BY DEF ImportReturns
<1>6. ~(\E fallback \in BOOLEAN : ImportBegins(fallback))  BY DEF ImportBegins
<1>7. DagStep \/ GraphStep => import' = import
  BY DEF DagStep, RegisterTransition, RegisterTransitionRaises, BulkBegins, OnDag,
         BulkRegisters, BulkRaises, GraphStep, RxAddNode, RxAddEdge, OnGraph
<1>8. UNCHANGED vars => import' = import  BY DEF vars
<1> QED  BY <1>1, <1>2, <1>4, <1>5, <1>6, <1>7, <1>8 DEF Next, DagStep, GraphStep, ImportSteps

-----------------------------------------------------------------------------
(***************************************************************************)
(* PyTyr's numbering, by depth and then by index, is a permutation.        *)
(***************************************************************************)
Precedes(depth, i, j) == depth[i] < depth[j] \/ (depth[i] = depth[j] /\ i < j)

LEMMA RanksPermute ==
  ASSUME NEW m \in Nat, NEW depth, \A i \in 1..m : depth[i] \in Int, NEW place,
         place = [j \in 1..m |-> 1 + Cardinality({i \in 1..m : Precedes(depth, i, j)})]
  PROVE  place \in Bijection(1..m, 1..m)
<1> DEFINE S(j) == {i \in 1..m : Precedes(depth, i, j)}
<1>1. IsFiniteSet(1..m) /\ Cardinality(1..m) = m
  <2>1. 1 \in Int /\ m \in Int  OBVIOUS
  <2>2. IsFiniteSet(1..m) /\ Cardinality(1..m) = IF 1 > m THEN 0 ELSE m - 1 + 1
    BY <2>1, FS_Interval
  <2> QED  BY <2>2
<1>2. ASSUME NEW j \in 1..m
      PROVE  IsFiniteSet(S(j)) /\ Cardinality(S(j)) \in 0..(m - 1)
  <2>1. S(j) \in SUBSET ((1..m) \ {j})  BY DEF Precedes
  <2>2. IsFiniteSet((1..m) \ {j}) /\ Cardinality((1..m) \ {j}) = m - 1
    BY <1>1, FS_RemoveElement
  <2> HIDE DEF S
  <2>3. IsFiniteSet(S(j)) /\ Cardinality(S(j)) <= m - 1  BY <2>1, <2>2, FS_Subset
  <2>4. Cardinality(S(j)) \in Nat  BY <2>3, FS_CardinalityType
  <2> QED  BY <2>3, <2>4
<1>3. ASSUME NEW i \in 1..m, NEW j \in 1..m, Precedes(depth, i, j)
      PROVE  Cardinality(S(i)) < Cardinality(S(j))
  <2>1. i \notin S(i) /\ S(i) \cup {i} \in SUBSET S(j)  BY <1>3 DEF Precedes
  <2> HIDE DEF S
  <2>2. Cardinality(S(i) \cup {i}) = Cardinality(S(i)) + 1  BY <1>2, <2>1, FS_AddElement
  <2>3. Cardinality(S(i) \cup {i}) <= Cardinality(S(j))  BY <1>2, <2>1, FS_Subset
  <2> QED  BY <1>2, <2>2, <2>3
<1>4. \A i, j \in 1..m : i # j => Precedes(depth, i, j) \/ Precedes(depth, j, i)
  BY DEF Precedes
<1>5. \A j \in 1..m : place[j] = 1 + Cardinality(S(j))  OBVIOUS
<1> DEFINE c(j) == Cardinality(S(j))
<1>6. \A j \in 1..m : c(j) \in 0..(m - 1) /\ place[j] = 1 + c(j)  BY <1>2, <1>5
<1>7. \A i, j \in 1..m : Precedes(depth, i, j) => c(i) < c(j)  BY <1>3
<1>8. DOMAIN place = 1..m /\ place = [j \in 1..m |-> place[j]]  OBVIOUS
<1> HIDE DEF S, c
<1>9. \A j \in 1..m : place[j] \in 1..m
  <2>1. \A x \in 0..(m - 1) : 1 + x \in 1..m  OBVIOUS
  <2> QED  BY <1>6, <2>1
<1>10. ASSUME NEW i \in 1..m, NEW j \in 1..m, place[i] = place[j]
       PROVE  i = j
  <2>1. c(i) \in Int /\ c(j) \in Int /\ 1 + c(i) = 1 + c(j)  BY <1>6, <1>10
  <2>2. ~(c(i) < c(j)) /\ ~(c(j) < c(i))  BY <2>1
  <2> QED  BY <1>4, <1>7, <2>2
<1>11. place \in Injection(1..m, 1..m)  BY <1>8, <1>9, <1>10 DEF Injection, IsInjective
<1>12. place \in Surjection(1..m, 1..m)  BY <1>1, <1>11, FS_Injection
<1> QED  BY <1>11, <1>12 DEF Bijection

\* Two graphs whose pairs correspond have corresponding levels.
LEMMA LevelsMatch ==
  ASSUME NEW f, NEW g, NEW n \in Nat, NEW A, NEW B, NEW s, NEW P, NEW Q, NEW a \in A,
         Climbs(f, P, n), Climbs(g, Q, n), f[0] = {a}, g[0] = {s[a]},
         s \in Bijection(A, B),
         \A p \in P : p = <<p[1], p[2]>> /\ p[1] \in A /\ p[2] \in A,
         \A q \in Q : q = <<q[1], q[2]>> /\ q[1] \in B /\ q[2] \in B,
         \A i, j \in A : <<i, j>> \in P <=> <<s[i], s[j]>> \in Q
  PROVE  \A k \in 0..n : \A i \in A : i \in f[k] <=> s[i] \in g[k]
<1> DEFINE Match == {k \in Nat : \A i \in A : i \in f[k] <=> s[i] \in g[k]}
<1>0. /\ \A i \in A : s[i] \in B
      /\ \A i, j \in A : s[i] = s[j] => i = j
      /\ \A y \in B : \E i \in A : s[i] = y
  BY DEF Bijection, Injection, Surjection, IsInjective
<1>1. 0 \in Match  BY <1>0
<1>2. ASSUME NEW k \in 0..(n - 1), k \in Match
      PROVE  k + 1 \in Match
  <2>1. f[k + 1] = Reached(P, f[k]) /\ g[k + 1] = Reached(Q, g[k])  BY DEF Climbs
  <2>2. ASSUME NEW i \in A, i \in Reached(P, f[k])
        PROVE  s[i] \in Reached(Q, g[k])
    <3>1. CASE i \in f[k]  BY <1>2, <3>1 DEF Reached
    <3>2. CASE i \notin f[k]
      <4>1. PICK p \in P : p[1] \in f[k] /\ p[2] = i  BY <2>2, <3>2 DEF Reached
      <4>2. p = <<p[1], i>> /\ p[1] \in A  BY <4>1
      <4>3. <<s[p[1]], s[i]>> \in Q /\ s[p[1]] \in g[k]  BY <1>2, <4>1, <4>2
      <4> QED  BY <4>3 DEF Reached
    <3> QED  BY <3>1, <3>2
  <2>3. ASSUME NEW i \in A, s[i] \in Reached(Q, g[k])
        PROVE  i \in Reached(P, f[k])
    <3>1. CASE s[i] \in g[k]  BY <1>2, <3>1 DEF Reached
    <3>2. CASE s[i] \notin g[k]
      <4>1. PICK q \in Q : q[1] \in g[k] /\ q[2] = s[i]  BY <2>3, <3>2 DEF Reached
      <4>2. PICK x \in A : s[x] = q[1]  BY <1>0
      <4>3. <<s[x], s[i]>> \in Q  BY <4>1, <4>2
      <4>4. <<x, i>> \in P /\ x \in f[k]  BY <1>2, <4>1, <4>2, <4>3
      <4> QED  BY <4>4 DEF Reached
    <3> QED  BY <3>1, <3>2
  <2> QED  BY <2>1, <2>2, <2>3
<1> HIDE DEF Match
<1>3. \A k \in 0..n : k \in Match  BY <1>1, <1>2, UpTo
<1> QED  BY <1>3 DEF Match

-----------------------------------------------------------------------------
(***************************************************************************)
(* What an import returned and what PyTyr reads in the same graph.         *)
(***************************************************************************)
BothRead ==
  /\ Inv /\ Tells /\ Reads /\ DepthsComputed
  /\ imported /\ DistinctStates(rx) /\ PyTyrAccepts(rx)

RecordsRead(fallback) ==
  /\ \A e \in EdgeSet(rx) : Listed(accepted, EdgeRecord(rx, fallback, e))
  /\ \A k \in DOMAIN accepted : ReadFrom(rx, fallback, accepted[k])

LEMMA BothFacts ==
  ASSUME BothRead
  PROVE  /\ SingleRoot(rx) /\ RootOf(rx) \in Indices(rx)
         /\ DagRoot = rx.data[RootOf(rx)].state
         /\ refused = {} /\ ~unfinished
         /\ \E fallback \in BOOLEAN : RecordsRead(fallback)
         /\ DagOK(dag) /\ GraphOK
         /\ accepted \in Seq(Records)
         /\ DOMAIN accepted = 1..Len(accepted) /\ Len(accepted) \in Nat
<1>1. WasRead(rx, dag, accepted) /\ refused = {} /\ ~unfinished  BY DEF BothRead, Reads
<1>2. SingleRoot(rx) /\ DagRoot = rx.data[RootOf(rx)].state
  BY <1>1 DEF WasRead, DagRoot, StateOf
<1>3. RootOf(rx) \in Indices(rx)  BY <1>2, RootIsNode
<1>4. \E fallback \in BOOLEAN : RecordsRead(fallback)  BY <1>1 DEF WasRead, RecordsRead
<1>5. DagOK(dag) /\ GraphOK /\ accepted \in Seq(Records)
  BY DEF BothRead, Inv, HistoryOK
<1> QED  BY <1>1, <1>2, <1>3, <1>4, <1>5

\* An accepted record for each edge, and an edge for each accepted record.
LEMMA RecordsAndEdges ==
  ASSUME BothRead, NEW fallback, RecordsRead(fallback)
  PROVE  /\ \A e \in EdgeSet(rx) : \E k \in 1..Len(accepted) :
              accepted[k] = EdgeRecord(rx, fallback, e)
         /\ \A k \in 1..Len(accepted) : \E e \in EdgeSet(rx) :
              accepted[k] = EdgeRecord(rx, fallback, e)
         /\ \A e \in EdgeSet(rx) : /\ e[1] \in Indices(rx) /\ e[2] \in Indices(rx)
                                   /\ EdgeRecord(rx, fallback, e).parent = rx.data[e[1]].state
                                   /\ EdgeRecord(rx, fallback, e).child = rx.data[e[2]].state
<1>1. DOMAIN accepted = 1..Len(accepted) /\ GraphOK  BY BothFacts
<1>2. \A e \in EdgeSet(rx) : e[1] \in Indices(rx) /\ e[2] \in Indices(rx)
  BY <1>1, EdgesOfGraph DEF EdgesOf
<1>3. \A e : /\ EdgeRecord(rx, fallback, e).parent = rx.data[e[1]].state
             /\ EdgeRecord(rx, fallback, e).child = rx.data[e[2]].state
  BY DEF EdgeRecord
<1> QED  BY <1>1, <1>2, <1>3 DEF RecordsRead, Listed, ReadFrom

LEMMA ImportedStates ==
  ASSUME BothRead
  PROVE  Known(dag) = {rx.data[x].state : x \in Indices(rx)}
<1>1. PICK fallback \in BOOLEAN : RecordsRead(fallback)  BY BothFacts
<1> DEFINE N == Len(accepted)
<1>2. /\ refused = {} /\ DagRoot = rx.data[RootOf(rx)].state /\ RootOf(rx) \in Indices(rx)
      /\ GraphOK
  BY BothFacts
<1>3. /\ \A e \in EdgeSet(rx) : \E k \in 1..N : accepted[k] = EdgeRecord(rx, fallback, e)
      /\ \A k \in 1..N : \E e \in EdgeSet(rx) : accepted[k] = EdgeRecord(rx, fallback, e)
      /\ \A e \in EdgeSet(rx) : /\ e[1] \in Indices(rx) /\ e[2] \in Indices(rx)
                                /\ EdgeRecord(rx, fallback, e).parent = rx.data[e[1]].state
                                /\ EdgeRecord(rx, fallback, e).child = rx.data[e[2]].state
  BY <1>1, RecordsAndEdges
<1> HIDE DEF N
<1>4. Known(dag) = Met(dag, accepted, N)
  <2>1. Told(dag, accepted, N, {r.parent : r \in refused})
    BY DEF BothRead, Tells, Shows, N
  <2>2. {r.parent : r \in refused} = {}  BY <1>2
  <2> QED  BY <2>1, <2>2 DEF Told
<1>5. Met(dag, accepted, N) \subseteq {rx.data[x].state : x \in Indices(rx)}
  <2>1. \A k \in 1..N : /\ \E x \in Indices(rx) : accepted[k].parent = rx.data[x].state
                        /\ \E x \in Indices(rx) : accepted[k].child = rx.data[x].state
    BY <1>3
  <2>2. dag.nodes[1].state = rx.data[RootOf(rx)].state  BY <1>2 DEF DagRoot, StateOf
  <2> QED  BY <1>2, <2>1, <2>2 DEF Met
<1>6. ASSUME NEW x \in Indices(rx)
      PROVE  rx.data[x].state \in Known(dag)
  <2> DEFINE A == {y \in Indices(rx) : rx.data[y].state \in Known(dag)}
             n == Len(rx.data)
  <2>1. RootOf(rx) \in A
    <3>1. dag.nodes[1].state = rx.data[RootOf(rx)].state  BY <1>2 DEF DagRoot, StateOf
    <3>2. dag.nodes[1].state \in Known(dag)  BY <1>4 DEF Met
    <3> QED  BY <1>2, <3>1, <3>2
  <2>2. ASSUME NEW p \in RxPairs(rx)
        PROVE  p[2] \in A
    <3>1. PICK e \in EdgeSet(rx) : p = <<e[1], e[2]>>  BY DEF RxPairs
    <3>2. PICK k \in 1..N : accepted[k] = EdgeRecord(rx, fallback, e)  BY <1>3
    <3>3. rx.data[e[2]].state = accepted[k].child  BY <1>3, <3>2
    <3>4. accepted[k].child \in Known(dag)  BY <1>4 DEF Met
    <3> QED  BY <1>3, <3>1, <3>3, <3>4
  <2> HIDE DEF A, n
  <2>3. n \in Nat  BY <1>2, EdgesOfGraph DEF n
  <2> DEFINE f == Levels(RootOf(rx), RxPairs(rx), n)
  <2>4. f[0] = {RootOf(rx)} /\ Climbs(f, RxPairs(rx), n)  BY <2>3, LevelsAre DEF Climbs
  <2> HIDE DEF f
  <2>5. f[n] \subseteq A  BY <2>1, <2>2, <2>3, <2>4, LevelsWithin
  <2>6. x \in f[n]  BY <1>2, ReachedByPyTyr DEF BothRead, f, n
  <2> QED  BY <2>5, <2>6 DEF A
<1> QED  BY <1>4, <1>5, <1>6

\* The index of the node that a node of the dag came from.
NodeOf(i) == CHOOSE x \in Indices(rx) : rx.data[x].state = StateOf(i)

Origin == [i \in Positions(dag) |-> NodeOf(i)]

LEMMA NodesMatch ==
  ASSUME BothRead
  PROVE  /\ \A i \in Positions(dag) : NodeOf(i) \in Indices(rx)
                                      /\ rx.data[NodeOf(i)].state = StateOf(i)
         /\ \A i \in Positions(dag) : \A x \in Indices(rx) :
              rx.data[x].state = StateOf(i) => NodeOf(i) = x
         /\ Origin \in Bijection(Positions(dag), Indices(rx))
         /\ Len(dag.nodes) = Len(rx.data)
         /\ NodeOf(1) = RootOf(rx)
         /\ 1 \in Positions(dag)
<1>1. /\ DagOK(dag) /\ GraphOK
      /\ RootOf(rx) \in Indices(rx) /\ DagRoot = rx.data[RootOf(rx)].state
  BY BothFacts
<1>2. Known(dag) = {rx.data[x].state : x \in Indices(rx)}  BY ImportedStates
<1>3. ASSUME NEW i \in Positions(dag)
      PROVE  NodeOf(i) \in Indices(rx) /\ rx.data[NodeOf(i)].state = StateOf(i)
  <2>1. StateOf(i) \in Known(dag)  BY DEF Known, StateOf
  <2>2. \E x \in Indices(rx) : rx.data[x].state = StateOf(i)  BY <1>2, <2>1
  <2> QED  BY <2>2 DEF NodeOf
<1>4. ASSUME NEW i \in Positions(dag), NEW x \in Indices(rx), rx.data[x].state = StateOf(i)
      PROVE  NodeOf(i) = x
  <2>1. NodeOf(i) \in Indices(rx) /\ rx.data[NodeOf(i)].state = rx.data[x].state
    BY <1>3, <1>4
  <2> QED  BY <2>1 DEF BothRead, DistinctStates
<1>5. ASSUME NEW i \in Positions(dag), NEW j \in Positions(dag), NodeOf(i) = NodeOf(j)
      PROVE  i = j
  <2>1. dag.nodes[i].state = dag.nodes[j].state  BY <1>3, <1>5 DEF StateOf
  <2> QED  BY <1>1, <2>1 DEF DagOK, OneNodePerState
<1>6. ASSUME NEW x \in Indices(rx)
      PROVE  \E i \in Positions(dag) : NodeOf(i) = x
  <2>1. PICK i \in Positions(dag) : dag.nodes[i].state = rx.data[x].state
    BY <1>2 DEF Known
  <2> QED  BY <1>4, <2>1 DEF StateOf
<1>7. Origin \in Bijection(Positions(dag), Indices(rx))
  <2>1. Origin \in [Positions(dag) -> Indices(rx)]  BY <1>3 DEF Origin
  <2>2. \A i \in Positions(dag) : Origin[i] = NodeOf(i)  BY DEF Origin
  <2>3. IsInjective(Origin)  BY <1>5, <2>1, <2>2 DEF IsInjective
  <2>4. \A x \in Indices(rx) : \E i \in Positions(dag) : Origin[i] = x  BY <1>6, <2>2
  <2> QED  BY <2>1, <2>3, <2>4 DEF Bijection, Injection, Surjection
<1>8. Len(dag.nodes) = Len(rx.data)
  <2>1. /\ Positions(dag) = 1..Len(dag.nodes) /\ Len(dag.nodes) \in Nat
        /\ Indices(rx) = 1..Len(rx.data) /\ Len(rx.data) \in Nat
    BY <1>1, LevelsOfDag, EdgesOfGraph
  <2>2. ASSUME NEW n \in Nat
        PROVE  IsFiniteSet(1..n) /\ Cardinality(1..n) = n
    <3>1. 1 \in Int /\ n \in Int  OBVIOUS
    <3>2. IsFiniteSet(1..n) /\ Cardinality(1..n) = IF 1 > n THEN 0 ELSE n - 1 + 1
      BY <3>1, FS_Interval
    <3> QED  BY <3>2
  <2>3. ExistsBijection(Positions(dag), Indices(rx))  BY <1>7 DEF ExistsBijection
  <2>4. IsFiniteSet(Positions(dag)) /\ Cardinality(Positions(dag)) = Len(dag.nodes)
        /\ Cardinality(Indices(rx)) = Len(rx.data)
    BY <2>1, <2>2
  <2>5. Cardinality(Indices(rx)) = Cardinality(Positions(dag))
    BY <2>3, <2>4, FS_Bijection
  <2> QED  BY <2>4, <2>5
<1>9. 1 \in Positions(dag)  BY <1>1, LevelsOfDag
<1>10. NodeOf(1) = RootOf(rx)
  <2>1. rx.data[RootOf(rx)].state = StateOf(1)  BY <1>1 DEF DagRoot
  <2> QED  BY <1>1, <1>4, <1>9, <2>1
<1> QED  BY <1>3, <1>4, <1>7, <1>8, <1>9, <1>10

LEMMA PairsMatch ==
  ASSUME BothRead, NEW i \in Positions(dag), NEW j \in Positions(dag)
  PROVE  <<i, j>> \in PairsOf(dag) <=> <<NodeOf(i), NodeOf(j)>> \in RxPairs(rx)
<1>1. PICK fallback \in BOOLEAN : RecordsRead(fallback)  BY BothFacts
<1> DEFINE N == Len(accepted)
<1>2. /\ \A e \in EdgeSet(rx) : \E k \in 1..N : accepted[k] = EdgeRecord(rx, fallback, e)
      /\ \A k \in 1..N : \E e \in EdgeSet(rx) : accepted[k] = EdgeRecord(rx, fallback, e)
      /\ \A e \in EdgeSet(rx) : /\ e[1] \in Indices(rx) /\ e[2] \in Indices(rx)
                                /\ EdgeRecord(rx, fallback, e).parent = rx.data[e[1]].state
                                /\ EdgeRecord(rx, fallback, e).child = rx.data[e[2]].state
  BY <1>1, RecordsAndEdges
<1> HIDE DEF N
<1>3. /\ DagOK(dag) /\ DOMAIN accepted = 1..N
  BY BothFacts DEF N
<1>4. StateOf(i) \in States /\ StateOf(j) \in States
  BY <1>3, LabelsOfNode DEF DagOK, StateOf
<1>5. <<i, j>> \in PairsOf(dag) <=> <<StateOf(i), StateOf(j)>> \in GivenPairs
  <2>1. <<StateOf(i), StateOf(j)>> \in GivenPairs <=>
          \E p \in PairsOf(dag) : StateOf(p[1]) = StateOf(i) /\ StateOf(p[2]) = StateOf(j)
    BY <1>4, GivenPairsAreJoined DEF BothRead
  <2>2. ASSUME NEW p \in PairsOf(dag), StateOf(p[1]) = StateOf(i), StateOf(p[2]) = StateOf(j)
        PROVE  <<i, j>> \in PairsOf(dag)
    <3>1. p[1] \in Positions(dag) /\ p[2] \in Positions(dag)  BY <1>3, LevelsOfDag
    <3>2. p = <<p[1], p[2]>>  BY PairMember
    <3>3. p[1] = i /\ p[2] = j  BY <1>3, <2>2, <3>1 DEF DagOK, OneNodePerState, StateOf
    <3> QED  BY <3>2, <3>3
  <2> QED  BY <2>1, <2>2
<1>6. <<StateOf(i), StateOf(j)>> \in GivenPairs <=>
        \E k \in 1..N : accepted[k].parent = StateOf(i) /\ accepted[k].child = StateOf(j)
  <2>1. GivenPairs = {<<accepted[k].parent, accepted[k].child>> : k \in 1..N}
    BY <1>3 DEF GivenPairs, Given
  <2> QED  BY <2>1
<1>7. (\E k \in 1..N : accepted[k].parent = StateOf(i) /\ accepted[k].child = StateOf(j)) <=>
        \E e \in EdgeSet(rx) : e[1] = NodeOf(i) /\ e[2] = NodeOf(j)
  <2>1. ASSUME NEW e \in EdgeSet(rx)
        PROVE  e[1] = NodeOf(i) /\ e[2] = NodeOf(j) <=>
                 /\ EdgeRecord(rx, fallback, e).parent = StateOf(i)
                 /\ EdgeRecord(rx, fallback, e).child = StateOf(j)
    <3>1. e[1] = NodeOf(i) <=> rx.data[e[1]].state = StateOf(i)  BY <1>2, NodesMatch
    <3>2. e[2] = NodeOf(j) <=> rx.data[e[2]].state = StateOf(j)  BY <1>2, NodesMatch
    <3> QED  BY <1>2, <3>1, <3>2
  <2> QED  BY <1>2, <2>1
<1>8. (\E e \in EdgeSet(rx) : e[1] = NodeOf(i) /\ e[2] = NodeOf(j)) <=>
        <<NodeOf(i), NodeOf(j)>> \in RxPairs(rx)
  BY DEF RxPairs
<1> QED  BY <1>5, <1>6, <1>7, <1>8

LEMMA DepthsMatch ==
  ASSUME BothRead, NEW i \in Positions(dag)
  PROVE  dag.nodes[i].depth = RxDepths(rx)[NodeOf(i)]
<1> DEFINE n == Len(rx.data)
           f == LevelsOf(dag)
           g == Levels(RootOf(rx), RxPairs(rx), n)
           A == Positions(dag)
           B == Indices(rx)
           P == PairsOf(dag)
           Q == RxPairs(rx)
<1>1. DagOK(dag) /\ GraphOK /\ Computed(dag)  BY BothFacts DEF BothRead, DepthsComputed
<1>2. /\ Origin \in Bijection(A, B) /\ Len(dag.nodes) = n /\ NodeOf(1) = RootOf(rx) /\ 1 \in A
      /\ \A x \in A : Origin[x] = NodeOf(x)
      /\ NodeOf(i) \in B
  BY NodesMatch DEF Origin
<1>3. /\ f[0] = {1} /\ Climbs(f, P, n)
      /\ \A p \in P : p[1] \in A /\ p[2] \in A
  BY <1>1, <1>2, LevelsOfDag
<1>4. \A p \in P : p = <<p[1], p[2]>>  BY PairMember
<1>5. \A q \in Q : q = <<q[1], q[2]>> /\ q[1] \in B /\ q[2] \in B
  BY <1>1, EdgesOfGraph DEF RxPairs, EdgesOf
<1>6. n \in Nat  BY <1>1, EdgesOfGraph
<1>7. RxDepths(rx)[NodeOf(i)] = Depth(g, n, NodeOf(i))  BY <1>2 DEF RxDepths
<1>8. dag.nodes[i].depth = Depth(f, n, i)  BY <1>1, <1>2 DEF Computed
<1>9. \A x, y \in A : <<x, y>> \in P <=> <<Origin[x], Origin[y]>> \in Q
  BY <1>2, PairsMatch
<1> HIDE DEF n
<1>10. g[0] = {RootOf(rx)} /\ Climbs(g, Q, n)  BY <1>6, LevelsAre DEF Climbs
<1>11. g[0] = {Origin[1]}  BY <1>2, <1>10
<1> HIDE DEF f, g, A, B, P, Q
<1>12. \A k \in 0..n : \A x \in A : x \in f[k] <=> Origin[x] \in g[k]
  BY <1>2, <1>3, <1>4, <1>5, <1>6, <1>9, <1>10, <1>11, LevelsMatch
<1>13. \A k \in 0..n : i \in f[k] <=> NodeOf(i) \in g[k]  BY <1>2, <1>12 DEF A
<1>14. n \in 0..n /\ \A k \in 0..(n - 1) : k \in 0..n  BY <1>6
<1>15. Depth(f, n, i) = Depth(g, n, NodeOf(i))
  <2>1. {k \in 0..(n - 1) : i \notin f[k]} = {k \in 0..(n - 1) : NodeOf(i) \notin g[k]}
    BY <1>13, <1>14
  <2> QED  BY <1>13, <1>14, <2>1 DEF Depth
<1> QED  BY <1>7, <1>8, <1>15

AllGive(records, n, s, field, v) ==
  \A k \in 1..n : records[k].child = s => records[k].labels[field] = v

LEMMA FirstIsCommon ==
  ASSUME NEW records, NEW n \in Nat, NEW s, NEW field, NEW v, AllGive(records, n, s, field, v),
         NEW l \in 1..n, records[l].child = s
  PROVE  First(records, n, s, field) = v
<1>0. \A k \in 1..n : records[k].child = s => records[k].labels[field] = v
  BY DEF AllGive
<1> DEFINE given == GivenTo(records, n, s, field)
           k == CHOOSE k \in given : \A j \in given : k <= j
<1>1. CASE v = None
  <2>1. given = {}  BY <1>0, <1>1 DEF GivenTo
  <2> QED  BY <1>1, <2>1 DEF First
<1>2. CASE v # None
  <2>1. l \in given  BY <1>0, <1>2 DEF GivenTo
  <2>2. given \subseteq Nat  BY DEF GivenTo
  <2>3. \E j \in given : \A i \in given : j <= i  BY <2>1, <2>2, NatLeast
  <2>4. k \in given  BY <2>3
  <2>5. First(records, n, s, field) = records[k].labels[field]  BY <2>1 DEF First
  <2> HIDE DEF k
  <2>6. k \in 1..n /\ records[k].child = s  BY <2>4 DEF GivenTo
  <2> QED  BY <1>0, <2>5, <2>6
<1> QED  BY <1>1, <1>2

LEMMA OneAction ==
  ASSUME GraphOK, PyTyrAccepts(rx), NEW e \in EdgeSet(rx), NEW f \in EdgeSet(rx), e[2] = f[2]
  PROVE  e[3] = f[3] /\ e[3] \in IncomingActions(rx, e[2])
<1> DEFINE all == {rx.edges[k][3] : k \in DOMAIN rx.edges}
           some == IncomingActions(rx, e[2])
<1>1. rx.edges \in Seq(EdgesOf(rx)) /\ e[2] \in Indices(rx)
  BY EdgesOfGraph DEF EdgesOf
<1>2. IsFiniteSet(DOMAIN rx.edges)
  <2>1. DOMAIN rx.edges = 1..Len(rx.edges) /\ Len(rx.edges) \in Nat  BY <1>1
  <2> QED  BY <2>1, FS_Interval
<1>3. IsFiniteSet(all)
  <2> DEFINE g == [k \in DOMAIN rx.edges |-> rx.edges[k][3]]
  <2>1. \A k \in DOMAIN rx.edges : g[k] \in all  OBVIOUS
  <2>2. \A a \in all : \E k \in DOMAIN rx.edges : g[k] = a  OBVIOUS
  <2>3. g \in [DOMAIN rx.edges -> all]  BY <2>1
  <2> HIDE DEF g, all
  <2>4. g \in Surjection(DOMAIN rx.edges, all)  BY <2>2, <2>3 DEF Surjection
  <2> QED  BY <1>2, <2>4, FS_Surjection
<1>4. some \in SUBSET all
  <2>1. \A d \in EdgeSet(rx) : d[3] \in all  BY DEF EdgeSet
  <2> HIDE DEF all
  <2> QED  BY <2>1 DEF IncomingActions
<1>5. IsFiniteSet(some)  BY <1>3, <1>4, FS_Subset
<1>6. Cardinality(some) <= 1  BY <1>1 DEF PyTyrAccepts, ReadByPyTyr
<1>7. e[3] \in some /\ f[3] \in some  BY DEF IncomingActions
<1> HIDE DEF some
<1>8. \A a, b \in some : a = b  BY <1>5, <1>6, AtMostOne
<1> QED  BY <1>7, <1>8 DEF some

LEMMA OnlyRootUnentered ==
  ASSUME GraphOK, SingleRoot(rx)
  PROVE  /\ \A e \in EdgeSet(rx) : e[2] # RootOf(rx)
         /\ \A x \in Indices(rx) : x # RootOf(rx) => \E e \in EdgeSet(rx) : e[2] = x
<1>1. RootOf(rx) \in Indices(rx)  BY RootIsNode
<1>2. RootOf(rx) \in Roots(rx)
  <2>1. Roots(rx) # {}
    <3>1. Cardinality({}) = 0  BY FS_EmptySet
    <3> QED  BY <3>1 DEF SingleRoot
  <2>2. \E x \in Indices(rx) : x \in Roots(rx)  BY <2>1 DEF Roots
  <2> QED  BY <2>2 DEF RootOf
<1>3. IsFiniteSet(Roots(rx))
  <2>1. Indices(rx) = 1..Len(rx.data) /\ Len(rx.data) \in Nat  BY EdgesOfGraph
  <2>2. IsFiniteSet(Indices(rx))  BY <2>1, FS_Interval
  <2>3. Roots(rx) \in SUBSET Indices(rx)  BY DEF Roots
  <2> QED  BY <2>2, <2>3, FS_Subset
<1>4. \A x, y \in Roots(rx) : x = y  BY <1>3, AtMostOne DEF SingleRoot
<1> QED  BY <1>2, <1>4 DEF Roots

\* What the records of an entered node's edges have left on it.
LEMMA ImportedLabels ==
  ASSUME BothRead, NEW fallback, RecordsRead(fallback), NEW i \in Positions(dag),
         NEW e \in EdgeSet(rx), e[2] = NodeOf(i)
  PROVE  /\ dag.nodes[i].labels.action = e[3]
         /\ dag.nodes[i].labels.candidate_id = ResolvedId(rx, fallback, NodeOf(i))
         /\ dag.nodes[i].labels.delta = rx.data[NodeOf(i)].delta
<1> DEFINE N == Len(accepted)
           s == StateOf(i)
<1>1. N \in Nat /\ refused = {} /\ GraphOK  BY BothFacts
<1>2. /\ \A d \in EdgeSet(rx) : \E k \in 1..N : accepted[k] = EdgeRecord(rx, fallback, d)
      /\ \A k \in 1..N : \E d \in EdgeSet(rx) : accepted[k] = EdgeRecord(rx, fallback, d)
      /\ \A d \in EdgeSet(rx) : d[2] \in Indices(rx)
                                /\ EdgeRecord(rx, fallback, d).child = rx.data[d[2]].state
  BY RecordsAndEdges
<1> HIDE DEF N
<1>3. rx.data[NodeOf(i)].state = s
      /\ \A x \in Indices(rx) : rx.data[x].state = s => NodeOf(i) = x
  BY NodesMatch
<1>4. PICK l \in 1..N : accepted[l] = EdgeRecord(rx, fallback, e)  BY <1>2
<1>5. accepted[l].child = s  BY <1>2, <1>3, <1>4
<1>6. ASSUME NEW k \in 1..N, accepted[k].child = s
      PROVE  /\ accepted[k].labels.action = e[3]
             /\ accepted[k].labels.candidate_id = ResolvedId(rx, fallback, NodeOf(i))
             /\ accepted[k].labels.delta = rx.data[NodeOf(i)].delta
  <2>1. PICK d \in EdgeSet(rx) : accepted[k] = EdgeRecord(rx, fallback, d)  BY <1>2
  <2>2. d[2] = NodeOf(i)  BY <1>2, <1>3, <1>6, <2>1
  <2>3. d[3] = e[3]  BY <1>1, <2>2, OneAction DEF BothRead
  <2>4. /\ accepted[k].labels.action = d[3]
        /\ accepted[k].labels.candidate_id = ResolvedId(rx, fallback, d[2])
        /\ accepted[k].labels.delta = rx.data[d[2]].delta
    BY <2>1 DEF EdgeRecord
  <2> QED  BY <2>2, <2>3, <2>4
<1>7. ASSUME NEW field \in DOMAIN NoLabels
      PROVE  dag.nodes[i].labels[field] = First(accepted, N, s, field)
  <2>1. Labelled(dag, accepted, N, {r.child : r \in refused})
    BY DEF BothRead, Tells, Shows, N
  <2>2. s \notin {r.child : r \in refused}  BY <1>1
  <2> QED  BY <2>1, <2>2 DEF Labelled, StateOf
<1> HIDE DEF s
<1>8. \A field, v : AllGive(accepted, N, s, field, v) => First(accepted, N, s, field) = v
  BY <1>1, <1>5, FirstIsCommon
<1>9. /\ AllGive(accepted, N, s, "action", e[3])
      /\ AllGive(accepted, N, s, "candidate_id", ResolvedId(rx, fallback, NodeOf(i)))
      /\ AllGive(accepted, N, s, "delta", rx.data[NodeOf(i)].delta)
  BY <1>6 DEF AllGive
<1>10. /\ First(accepted, N, s, "action") = e[3]
       /\ First(accepted, N, s, "candidate_id") = ResolvedId(rx, fallback, NodeOf(i))
       /\ First(accepted, N, s, "delta") = rx.data[NodeOf(i)].delta
  BY <1>8, <1>9
<1>11. {"action", "candidate_id", "delta"} \subseteq DOMAIN NoLabels  BY DEF NoLabels
<1> QED  BY <1>7, <1>10, <1>11

\* The root of an import is entered by no edge and keeps no label.
LEMMA ImportedRoot ==
  ASSUME BothRead, NEW field \in DOMAIN NoLabels
  PROVE  dag.nodes[1].labels[field] = None
<1> DEFINE N == Len(accepted)
<1>1. PICK fallback \in BOOLEAN : RecordsRead(fallback)  BY BothFacts
<1>2. /\ \A k \in 1..N : \E d \in EdgeSet(rx) : accepted[k] = EdgeRecord(rx, fallback, d)
      /\ \A d \in EdgeSet(rx) : d[2] \in Indices(rx)
                                /\ EdgeRecord(rx, fallback, d).child = rx.data[d[2]].state
  BY <1>1, RecordsAndEdges
<1>3. 1 \in Positions(dag) /\ NodeOf(1) = RootOf(rx)
      /\ \A x \in Indices(rx) : rx.data[x].state = StateOf(1) => NodeOf(1) = x
  BY NodesMatch
<1>4. refused = {} /\ SingleRoot(rx) /\ GraphOK  BY BothFacts
<1>5. \A d \in EdgeSet(rx) : d[2] # RootOf(rx)  BY <1>4, OnlyRootUnentered
<1> HIDE DEF N
<1>6. \A k \in 1..N : accepted[k].child # StateOf(1)  BY <1>2, <1>3, <1>5
<1>7. First(accepted, N, StateOf(1), field) = None  BY <1>6, FirstOfNone
<1>8. Labelled(dag, accepted, N, {r.child : r \in refused})
  BY DEF BothRead, Tells, Shows, N
<1>9. StateOf(1) \notin {r.child : r \in refused}  BY <1>4
<1> QED  BY <1>3, <1>7, <1>8, <1>9 DEF Labelled, StateOf

(***************************************************************************)
(* PyTyr's dag, read node by node of the rustworkx graph.                  *)
(***************************************************************************)
Incoming(i) ==
  IF IncomingActions(rx, i) = {} THEN None ELSE CHOOSE a \in IncomingActions(rx, i) : TRUE

LEMMA PyTyrNodes ==
  ASSUME GraphOK
  PROVE  /\ SemanticIndex(rx) \in Bijection(Indices(rx), Indices(rx))
         /\ NodeSet(PyTyrDag(rx)) = Indices(rx)
         /\ \A x \in Indices(rx) :
              LET node == PyTyrDag(rx).nodes[SemanticIndex(rx)[x]] IN
              /\ node.state = rx.data[x].state
              /\ node.depth = RxDepths(rx)[x]
              /\ node.labels.action = Incoming(x)
              /\ node.labels.candidate_id = rx.data[x].candidate_id
              /\ node.labels.delta = rx.data[x].delta
<1> DEFINE m == Len(rx.data)
           depth == RxDepths(rx)
           place == SemanticIndex(rx)
           Native(k) == CHOOSE i \in Indices(rx) : place[i] = k
           node(i) == Node(rx.data[i].state, depth[i],
                           [action       |-> Incoming(i),
                            candidate_id |-> rx.data[i].candidate_id,
                            delta        |-> rx.data[i].delta])
<1>1. Indices(rx) = 1..m /\ m \in Nat  BY EdgesOfGraph
<1>2. \A i \in 1..m : depth[i] \in Int  BY <1>1, DepthIsInt DEF RxDepths
<1>3. place = [j \in 1..m |-> 1 + Cardinality({i \in 1..m : Precedes(depth, i, j)})]
  BY <1>1 DEF SemanticIndex, Precedes
<1> HIDE DEF depth, place, m
<1>4. place \in Bijection(1..m, 1..m)  BY <1>1, <1>2, <1>3, RanksPermute
<1>5. /\ \A i \in 1..m : place[i] \in 1..m
      /\ \A i, j \in 1..m : place[i] = place[j] => i = j
  BY <1>4 DEF Bijection, Injection, IsInjective
<1>6. PyTyrDag(rx).nodes = [k \in 1..m |-> node(Native(k))]
  BY DEF PyTyrDag, Incoming, m, place, depth
<1>7. NodeSet(PyTyrDag(rx)) = 1..m  BY <1>6 DEF NodeSet
<1>8. ASSUME NEW x \in Indices(rx)
      PROVE  PyTyrDag(rx).nodes[place[x]] = node(x)
  <2>1. Native(place[x]) = x
    <3>1. \E i \in Indices(rx) : place[i] = place[x]  OBVIOUS
    <3>2. Native(place[x]) \in Indices(rx) /\ place[Native(place[x])] = place[x]  BY <3>1
    <3> QED  BY <1>1, <1>5, <3>2
  <2> HIDE DEF Native, node
  <2> QED  BY <1>1, <1>5, <1>6, <2>1
<1>9. ASSUME NEW x \in Indices(rx)
      PROVE  /\ node(x).state = rx.data[x].state
             /\ node(x).depth = depth[x]
             /\ node(x).labels.action = Incoming(x)
             /\ node(x).labels.candidate_id = rx.data[x].candidate_id
             /\ node(x).labels.delta = rx.data[x].delta
  BY DEF Node
<1> HIDE DEF node, Native
<1> QED  BY <1>1, <1>4, <1>7, <1>8, <1>9 DEF place, depth

LEMMA RootComesFirst ==
  ASSUME GraphOK, SingleRoot(rx), PyTyrAccepts(rx)
  PROVE  SemanticIndex(rx)[RootOf(rx)] = 1
<1> DEFINE m == Len(rx.data)
           depth == RxDepths(rx)
           root == RootOf(rx)
           f == Levels(root, RxPairs(rx), m)
<1>1. Indices(rx) = 1..m /\ m \in Nat /\ root \in 1..m  BY EdgesOfGraph, RootIsNode
<1>2. \A i \in 1..m : depth[i] \in Int  BY <1>1, DepthIsInt DEF RxDepths
<1>3. SemanticIndex(rx)[root] = 1 + Cardinality({i \in 1..m : Precedes(depth, i, root)})
  BY <1>1 DEF SemanticIndex, Precedes
<1>4. \A i \in 1..m : i \in f[m] /\ depth[i] = Depth(f, m, i)
  BY <1>1, ReachedByPyTyr DEF RxDepths
<1>5. ASSUME NEW i \in 1..m
      PROVE  depth[i] >= 0 /\ (depth[i] = 0 <=> i = root)
  <2> HIDE DEF m, root
  <2>1. f[0] = {root} /\ Climbs(f, RxPairs(rx), m)  BY <1>1, LevelsAre DEF Climbs
  <2> HIDE DEF f, depth
  <2>2. Depth(f, m, i) \in 0..m /\ \A k \in 0..m : i \in f[k] <=> Depth(f, m, i) <= k
    BY <1>1, <1>4, <2>1, DepthIsFirst
  <2>3. 0 \in 0..m  BY <1>1
  <2>4. i \in f[0] <=> depth[i] <= 0  BY <1>4, <2>2, <2>3
  <2>5. depth[i] \in 0..m  BY <1>4, <2>2
  <2> QED  BY <1>1, <2>1, <2>4, <2>5
<1> HIDE DEF depth, m, root, f
<1>6. {i \in 1..m : Precedes(depth, i, root)} = {}
  <2>1. \A i \in 1..m : ~Precedes(depth, i, root)
    BY <1>1, <1>2, <1>5 DEF Precedes
  <2> QED  BY <2>1
<1>7. SemanticIndex(rx)[root] = 1 + 0  BY <1>3, <1>6, FS_EmptySet, SMTT(30)
<1> QED  BY <1>7 DEF root

LEMMA ImportersAgreeWhenBothRead ==
  ASSUME BothRead
  PROVE  LET d == PyTyrDag(rx)
             InPyTyr(i) == CHOOSE j \in NodeSet(d) : d.nodes[j].state = StateOf(i)
         IN
         /\ Known(dag) = {d.nodes[j].state : j \in NodeSet(d)}
         /\ {<<InPyTyr(a[1]), InPyTyr(Endpoints(dag, a)[2])>> : a \in Transitions(dag)} = Pairs(d)
         /\ \A i \in Positions(dag) :
              LET mine == dag.nodes[i]  theirs == d.nodes[InPyTyr(i)] IN
              /\ mine.depth = theirs.depth
              /\ mine.labels.action = theirs.labels.action
              /\ mine.labels.delta = theirs.labels.delta
              /\ i > 1 => theirs.labels.candidate_id \in {None, mine.labels.candidate_id}
         /\ HeteroAccepts(dag) <=> RegisteredOnce
<1> DEFINE d == PyTyrDag(rx)
           place == SemanticIndex(rx)
           InPyTyr(i) == CHOOSE j \in NodeSet(d) : d.nodes[j].state = StateOf(i)
<1>1. /\ GraphOK /\ DagOK(dag) /\ ~unfinished /\ SingleRoot(rx) /\ PyTyrAccepts(rx)
      /\ RootOf(rx) \in Indices(rx)
  BY BothFacts DEF BothRead
<1>2. /\ NodeSet(d) = Indices(rx)
      /\ \A x \in Indices(rx) : place[x] \in Indices(rx)
      /\ \A j \in Indices(rx) : \E x \in Indices(rx) : place[x] = j
  BY <1>1, PyTyrNodes DEF Bijection, Surjection, Injection
<1>3. \A x \in Indices(rx) :
        /\ d.nodes[place[x]].state = rx.data[x].state
        /\ d.nodes[place[x]].depth = RxDepths(rx)[x]
        /\ d.nodes[place[x]].labels.action = Incoming(x)
        /\ d.nodes[place[x]].labels.candidate_id = rx.data[x].candidate_id
        /\ d.nodes[place[x]].labels.delta = rx.data[x].delta
  BY <1>1, PyTyrNodes
<1>4. Pairs(d) = {<<place[p[1]], place[p[2]]>> : p \in RxPairs(rx)}
  <2>1. d.edges = [p \in RxPairs(rx) |-> <<place[p[1]], place[p[2]]>>]  BY DEF PyTyrDag
  <2> QED  BY <2>1 DEF Pairs
<1>5. \A i \in Positions(dag) :
        /\ NodeOf(i) \in Indices(rx) /\ rx.data[NodeOf(i)].state = StateOf(i)
        /\ \A x \in Indices(rx) : rx.data[x].state = StateOf(i) => NodeOf(i) = x
  BY NodesMatch
<1>6. PICK fallback \in BOOLEAN : RecordsRead(fallback)  BY BothFacts
<1>7. 1 \in Positions(dag) /\ NodeOf(1) = RootOf(rx) /\ place[RootOf(rx)] = 1
  BY <1>1, NodesMatch, RootComesFirst
<1>8. d.nodes[1].labels.action = None /\ d.nodes[1].labels.delta = None
  BY <1>1 DEF PyTyrAccepts, Accepted, RootIsPlain
<1> HIDE DEF d, place
<1>9. ASSUME NEW i \in Positions(dag)
      PROVE  InPyTyr(i) = place[NodeOf(i)]
  <2>1. place[NodeOf(i)] \in NodeSet(d) /\ d.nodes[place[NodeOf(i)]].state = StateOf(i)
    BY <1>2, <1>3, <1>5
  <2>2. ASSUME NEW j \in NodeSet(d), d.nodes[j].state = StateOf(i)
        PROVE  j = place[NodeOf(i)]
    <3>1. PICK x \in Indices(rx) : place[x] = j  BY <1>2
    <3>2. rx.data[x].state = StateOf(i)  BY <1>3, <2>2, <3>1
    <3>3. NodeOf(i) = x  BY <1>5, <3>2
    <3> QED  BY <3>1, <3>3
  <2> QED  BY <2>1, <2>2
<1> HIDE DEF InPyTyr
<1>10. Known(dag) = {d.nodes[j].state : j \in NodeSet(d)}
  <2>1. Known(dag) = {rx.data[x].state : x \in Indices(rx)}  BY ImportedStates
  <2> QED  BY <1>2, <1>3, <2>1
<1>11. {<<InPyTyr(a[1]), InPyTyr(Endpoints(dag, a)[2])>> : a \in Transitions(dag)} = Pairs(d)
  <2>1. ASSUME NEW a \in Transitions(dag)
        PROVE  <<InPyTyr(a[1]), InPyTyr(Endpoints(dag, a)[2])>> \in Pairs(d)
    <3> DEFINE j == Endpoints(dag, a)[2]
    <3>1. a[1] = Endpoints(dag, a)[1]  BY DEF Endpoints
    <3>2. /\ a[1] \in Positions(dag) /\ j \in Positions(dag)
          /\ <<a[1], j>> \in PairsOf(dag)
      BY <1>1, <3>1, EndStates
    <3> HIDE DEF j
    <3>3. <<NodeOf(a[1]), NodeOf(j)>> \in RxPairs(rx)  BY <3>2, PairsMatch
    <3>4. <<place[NodeOf(a[1])], place[NodeOf(j)]>> \in Pairs(d)  BY <1>4, <3>3
    <3> QED  BY <1>9, <3>2, <3>4 DEF j
  <2>2. ASSUME NEW q \in Pairs(d)
        PROVE  \E a \in Transitions(dag) :
                 q = <<InPyTyr(a[1]), InPyTyr(Endpoints(dag, a)[2])>>
    <3>1. PICK p \in RxPairs(rx) : q = <<place[p[1]], place[p[2]]>>  BY <1>4
    <3>2. p = <<p[1], p[2]>> /\ p[1] \in Indices(rx) /\ p[2] \in Indices(rx)
      BY <1>1, EdgesOfGraph DEF RxPairs, EdgesOf
    <3>3. PICK i \in Positions(dag) : NodeOf(i) = p[1]
      BY <3>2, NodesMatch DEF Bijection, Surjection, Origin
    <3>4. PICK j \in Positions(dag) : NodeOf(j) = p[2]
      BY <3>2, NodesMatch DEF Bijection, Surjection, Origin
    <3>5. <<i, j>> \in PairsOf(dag)  BY <3>2, <3>3, <3>4, PairsMatch
    <3>6. PICK a \in Transitions(dag) : <<i, j>> = Endpoints(dag, a)  BY <3>5 DEF PairsOf
    <3>7. a[1] = i /\ Endpoints(dag, a)[2] = j  BY <3>6 DEF Endpoints
    <3>8. q = <<InPyTyr(i), InPyTyr(j)>>  BY <1>9, <3>1, <3>3, <3>4
    <3> QED  BY <3>7, <3>8
  <2> QED  BY <2>1, <2>2
<1>12. ASSUME NEW i \in Positions(dag)
       PROVE  LET mine == dag.nodes[i]  theirs == d.nodes[InPyTyr(i)] IN
              /\ mine.depth = theirs.depth
              /\ mine.labels.action = theirs.labels.action
              /\ mine.labels.delta = theirs.labels.delta
              /\ i > 1 => theirs.labels.candidate_id \in {None, mine.labels.candidate_id}
  <2> DEFINE x == NodeOf(i)
             mine == dag.nodes[i]
             theirs == d.nodes[place[x]]
  <2>1. x \in Indices(rx) /\ InPyTyr(i) = place[x]  BY <1>5, <1>9
  <2>2. mine.depth = theirs.depth  BY <1>3, <2>1, DepthsMatch
  <2>3. CASE x = RootOf(rx)
    <3>1. i = 1
      <4>1. dag.nodes[i].state = dag.nodes[1].state  BY <1>5, <1>7, <2>3 DEF StateOf
      <4> QED  BY <1>1, <1>7, <4>1 DEF DagOK, OneNodePerState
    <3>2. mine.labels["action"] = None /\ mine.labels["delta"] = None
      BY <3>1, ImportedRoot DEF NoLabels
    <3>3. place[x] = 1  BY <1>7, <2>3
    <3>4. theirs.labels.action = None /\ theirs.labels.delta = None  BY <1>8, <3>3
    <3>5. ~(i > 1)  BY <3>1
    <3> QED  BY <2>1, <2>2, <3>2, <3>4, <3>5
  <2>4. CASE x # RootOf(rx)
    <3>1. PICK e \in EdgeSet(rx) : e[2] = x  BY <1>1, <2>1, <2>4, OnlyRootUnentered
    <3>2. /\ mine.labels.action = e[3]
          /\ mine.labels.candidate_id = ResolvedId(rx, fallback, x)
          /\ mine.labels.delta = rx.data[x].delta
      BY <1>6, <3>1, ImportedLabels
    <3>3. Incoming(x) = e[3]
      <4>1. e[3] \in IncomingActions(rx, x)  BY <1>1, <3>1, OneAction
      <4>2. \A a \in IncomingActions(rx, x) : a = e[3]
        <5>1. ASSUME NEW a \in IncomingActions(rx, x)
              PROVE  a = e[3]
          <6>1. PICK c \in EdgeSet(rx) : c[2] = x /\ a = c[3]  BY DEF IncomingActions
          <6> QED  BY <1>1, <3>1, <6>1, OneAction
        <5> QED  BY <5>1
      <4> QED  BY <4>1, <4>2 DEF Incoming
    <3>4. rx.data[x].candidate_id \in {None, ResolvedId(rx, fallback, x)}
      BY <2>4 DEF ResolvedId
    <3> HIDE DEF x
    <3>5. /\ theirs.labels.action = Incoming(x)
          /\ theirs.labels.candidate_id = rx.data[x].candidate_id
          /\ theirs.labels.delta = rx.data[x].delta
      BY <1>3, <2>1
    <3> QED  BY <2>1, <2>2, <3>2, <3>3, <3>4, <3>5
  <2> QED  BY <2>3, <2>4
<1>13. HeteroAccepts(dag) <=> RegisteredOnce
  <2>1. HeteroAccepts(dag) <=> RegisteredOnce /\ AllReached /\ RootLabels.delta = None
    BY <1>1, DagEncodes DEF BuiltDagsEncode, BothRead
  <2>2. AllReached
    <3>1. \A i \in Positions(dag) : RxDepths(rx)[NodeOf(i)] >= 0
      BY <1>1, <1>5 DEF PyTyrAccepts, ReadByPyTyr
    <3> QED  BY <3>1, DepthsMatch DEF AllReached
  <2>3. RootLabels["delta"] = None  BY ImportedRoot DEF RootLabels, NoLabels
  <2> QED  BY <2>1, <2>2, <2>3
<1> QED  BY <1>10, <1>11, <1>12, <1>13 DEF InPyTyr, d

-----------------------------------------------------------------------------
(***************************************************************************)
(* The theorems.                                                           *)
(***************************************************************************)
LEMMA StepKeeps ==
  ASSUME Inv, [Next]_vars
  PROVE  Inv' /\ (imported' \/ Extends(dag', dag))
<1>1. CASE DagStep  BY <1>1, DagStepKeeps
<1>2. CASE GraphStep  BY <1>2, GraphStepKeeps
<1>3. CASE (\E fallback \in BOOLEAN : ImportBegins(fallback)) \/ ImportSteps
  BY <1>3, ImportStepKeeps
<1>4. CASE UNCHANGED vars
  <2>1. UNCHANGED <<dag, accepted, refused, bulk, unfinished, rx, import, imported>>
    BY <1>4 DEF vars
  <2>2. Inv'
    BY <2>1 DEF Inv, HistoryOK, GraphOK, ImportOK, Importing, EdgesOf, Indices
  <2>3. Extends(dag', dag)  BY <2>1, ExtendsSelf DEF Inv, DagOK
  <2> QED  BY <2>2, <2>3
<1> QED  BY <1>1, <1>2, <1>3, <1>4 DEF Next, DagStep, GraphStep

THEOREM Invariance == Spec => []Inv
<1>1. Init => Inv  BY InitInv
<1>2. Inv /\ [Next]_vars => Inv'  BY StepKeeps
<1> QED  BY <1>1, <1>2, PTL DEF Spec

\* Every edge of every dag joins existing nodes, in the dag that callers
\* hold and in the one an import fills, whatever calls have been refused.
THEOREM AlwaysTyped == Spec => []TypeOK
<1>1. Inv => TypeOK
  <2>1. Inv /\ Importing => DagTyped(import.dag) /\ import.records \in Seq(Records)
    BY ImportFields DEF DagOK
  <2> QED  BY <2>1 DEF Inv, DagOK, HistoryOK, TypeOK
<1> QED  BY <1>1, Invariance, PTL

\* A state never gets a second node (state_to_index_), whether it comes in
\* as a parent, as a child or twice in one rustworkx graph.
THEOREM AlwaysOneNode == Spec => []OneNodePerState(dag)
<1>1. Inv => OneNodePerState(dag)  BY DEF Inv, DagOK
<1> QED  BY <1>1, Invariance, PTL

\* No call moves or drops a node, replaces a label or removes an edge.
THEOREM NeverTakenBack == Spec => NothingIsTakenBack
<1>1. Inv /\ [Next]_vars => (imported' \/ Extends(dag', dag))  BY StepKeeps
<1> QED  BY <1>1, Invariance, PTL DEF Spec, NothingIsTakenBack

THEOREM TellsInvariance == Spec => []Tells
<1>1. Init => Tells  BY InitTells
<1>2. Inv /\ Tells /\ [Next]_vars => Tells'  BY StepTells
<1> QED  BY <1>1, <1>2, Invariance, PTL DEF Spec

\* state_to_index_ and adjacency_ always say exactly what was registered: an
\* edge per accepted record between the nodes of its states, no other edge,
\* and no node but those of the root, of accepted records and of the parents
\* of refused ones.
THEOREM AlwaysWhatWasRegistered == Spec => []DagIsWhatWasRegistered
<1>1. Inv /\ Tells => DagIsWhatWasRegistered
  <2> SUFFICES ASSUME Inv, Tells
               PROVE  DagIsWhatWasRegistered
    OBVIOUS
  <2> DEFINE n == Len(accepted)
             met == {DagRoot} \cup {r.parent : r \in Given} \cup {r.child : r \in Given}
  <2>0. accepted \in Seq(Records)  BY DEF Inv, HistoryOK
  <2>1. n \in Nat /\ DOMAIN accepted = 1..n  BY <2>0
  <2>2. Told(dag, accepted, n, {r.parent : r \in refused})  BY DEF Tells, Shows
  <2> HIDE DEF n
  <2>3. met = Met(dag, accepted, n)
    <3>1. {r.parent : r \in Given} = {accepted[k].parent : k \in 1..n}  BY <2>1 DEF Given
    <3>2. {r.child : r \in Given} = {accepted[k].child : k \in 1..n}  BY <2>1 DEF Given
    <3> QED  BY <3>1, <3>2 DEF Met, DagRoot, StateOf
  <2>4. ASSUME NEW s, NEW t
        PROVE  ArcsBetween(s, t) = Arcs(dag, s, t)
    BY DEF ArcsBetween, Arcs, StateOf
  <2>5. ASSUME NEW s, NEW t
        PROVE  RegistrationsOf(s, t) = Registrations(accepted, n, s, t)
    BY <2>1 DEF RegistrationsOf, Registrations
  <2> HIDE DEF met
  <2>6. \A s, t \in States :
          Cardinality(ArcsBetween(s, t)) = Cardinality(RegistrationsOf(s, t))
    BY <2>2, <2>4, <2>5 DEF Told, ToldArcs
  <2>7. met \subseteq Known(dag) /\ Known(dag) \subseteq met \cup {r.parent : r \in refused}
    BY <2>2, <2>3 DEF Told
  <2>8. OneNodePerState(dag)  BY DEF Inv, DagOK
  <2> QED  BY <2>6, <2>7, <2>8 DEF DagIsWhatWasRegistered, met
<1> QED  BY <1>1, Invariance, TellsInvariance, PTL

\* The labels of a node are the first that a registration gave it, and later
\* registrations never disagree with them about candidate ids and deltas,
\* however calls were refused in between.
THEOREM AlwaysFirstGiven == Spec => []LabelsAreTheFirstGiven
<1>1. Inv /\ Tells => LabelsAreTheFirstGiven
  <2> SUFFICES ASSUME Inv, Tells
               PROVE  LabelsAreTheFirstGiven
    OBVIOUS
  <2> DEFINE n == Len(accepted)
  <2>0. accepted \in Seq(Records)  BY DEF Inv, HistoryOK
  <2>1. n \in Nat /\ DOMAIN accepted = 1..n  BY <2>0
  <2>2. Labelled(dag, accepted, n, {r.child : r \in refused})  BY DEF Tells, Shows
  <2> HIDE DEF n
  <2>3. ASSUME NEW s, NEW field
        PROVE  FirstGiven(s, field) = First(accepted, n, s, field)
    BY <2>1 DEF FirstGiven, First, GivenTo
  <2>4. ASSUME NEW i \in Positions(dag), NEW field \in DOMAIN NoLabels
        PROVE  /\ StateOf(i) \notin {r.child : r \in refused} =>
                    dag.nodes[i].labels[field] = FirstGiven(StateOf(i), field)
               /\ field # "action" => \A r \in Given :
                    r.child = StateOf(i) => r.labels[field] \in {None, dag.nodes[i].labels[field]}
    <3>1. Given = {accepted[k] : k \in 1..n}  BY <2>1 DEF Given
    <3>2. /\ StateOf(i) \notin {r.child : r \in refused} =>
               dag.nodes[i].labels[field] = First(accepted, n, StateOf(i), field)
          /\ field # "action" => \A k \in 1..n :
               accepted[k].child = StateOf(i) =>
                 accepted[k].labels[field] \in {None, dag.nodes[i].labels[field]}
      BY <2>2 DEF Labelled, StateOf
    <3> QED  BY <2>3, <3>1, <3>2
  <2> QED  BY <2>4 DEF LabelsAreTheFirstGiven
<1> QED  BY <1>1, Invariance, TellsInvariance, PTL

THEOREM DepthsInvariance == Spec => []DepthsComputed
<1>1. Init => DepthsComputed  BY InitComputes
<1>2. Inv /\ DepthsComputed /\ [Next]_vars => DepthsComputed'  BY StepComputes
<1> QED  BY <1>1, <1>2, Invariance, PTL DEF Spec

\* finalize_depths leaves the distances from the root, in graphs of any size
\* and shape: the root alone is at 0, an edge adds at most one, and what is
\* deeper has a parent one level up.
THEOREM AlwaysDistances == Spec => []DepthsAreDistances
<1>1. Inv /\ DepthsComputed => DepthsAreDistances
  <2>1. Inv /\ DepthsComputed /\ ~unfinished => Distances(dag)
    BY ComputedDistances DEF Inv, DepthsComputed
  <2> QED  BY <2>1 DEF DepthsAreDistances, Distances
<1> QED  BY <1>1, Invariance, DepthsInvariance, PTL

\* What calls that returned have built can be encoded, in graphs of any size:
\* no order of calls, in bulk or one by one, leaves a depth or an edge that
\* the constructor of the semantic dag refuses, except the refusals named.
THEOREM AlwaysEncoded == Spec => []BuiltDagsEncode
<1>1. Inv /\ Tells /\ DepthsComputed => BuiltDagsEncode  BY DagEncodes
<1> QED  BY <1>1, Invariance, TellsInvariance, DepthsInvariance, PTL

THEOREM ReadsInvariance == Spec => []Reads
<1>1. Init => Reads  BY InitReads
<1>2. Inv /\ DepthsComputed /\ Reads /\ [Next]_vars => Reads'  BY StepReads
<1> QED  BY <1>1, <1>2, Invariance, DepthsInvariance, PTL DEF Spec

\* from_rustworkx gives up in its edge loop only on a graph that PyTyr's
\* importer refuses too, or on two nodes with one state: whatever the order
\* of the edges, the rounds reach every node that the root reaches.
THEOREM RaisesWithPyTyr == Spec => ImportRaisesWithPyTyr
<1>1. Inv /\ Tells /\ Reads /\ DepthsComputed /\ [Next]_vars =>
        (Importing /\ ~Importing' /\ ~imported' => ~DistinctStates(rx) \/ ~PyTyrAccepts(rx))
  BY LoopLeaves
<1> QED
  BY <1>1, Invariance, TellsInvariance, ReadsInvariance, DepthsInvariance, PTL
  DEF Spec, ImportRaisesWithPyTyr

\* The pymimir and the PyTyr importer read one rustworkx graph alike, for
\* graphs of any size and edges in any order: states, edges, depths, actions
\* and deltas are the same, though one goes round the edges until all
\* sources are known and the other sorts the nodes by depth and index.
THEOREM AlwaysAgree == Spec => []ImportersAgree
<1>1. Inv /\ Tells /\ Reads /\ DepthsComputed => ImportersAgree
  BY ImportersAgreeWhenBothRead DEF ImportersAgree, BothRead
<1> QED  BY <1>1, Invariance, TellsInvariance, ReadsInvariance, DepthsInvariance, PTL

=============================================================================
