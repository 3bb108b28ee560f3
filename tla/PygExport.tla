------------------------------- MODULE PygExport -------------------------------
(***************************************************************************)
(* Single encodings in a batch, and the batch as a PyG object: what is not *)
(* a tensor (names, attributes), the boundaries that cut it into graphs,   *)
(* and the edges of homogeneous data.                                      *)
(*                                                                         *)
(* An encoding is [kind, flags, counts, names, objects, columns,           *)
(* edge_types, edges, fields, marks, targets, attrs].  Counts are its node *)
(* counts, or where it has none those that append_batch_encoding takes     *)
(* from its columns and ptrs; flags are schema flags, by name; marks are   *)
(* graph attrs.  The target names are such an attr in up to three forms:   *)
(* the attr (a sequence of none or one), strings, deferred.  The edges are *)
(* those of homogeneous data, which has one type of nodes.                 *)
(***************************************************************************)
EXTENDS Collation

NoTargets == [attr |-> <<>>, strings |-> <<>>, deferred |-> <<>>]

(***************************************************************************)
(* append_batch_encoding.  The first form of target names that there is    *)
(* counts: an encoding that was read has the attr only, if without names.  *)
(***************************************************************************)
TargetsAfter(b, e) ==
  CASE e.attr # <<>>                      -> [b EXCEPT !.strings = @ \o e.attr[1]]
    [] e.attr = <<>> /\ e.strings # <<>>  -> [b EXCEPT !.strings = @ \o e.strings]
    [] OTHER                              -> [b EXCEPT !.deferred = @ \o e.deferred]

\* materialize: strings go into the attr before what is deferred.
TargetsRead(t) ==
  IF t.strings = <<>> /\ t.deferred = <<>> THEN t
  ELSE [NoTargets EXCEPT !.attr = <<FlattenSeq(t.attr) \o t.strings \o FlattenSeq(t.deferred)>>]

target_names(e) == FlattenSeq(TargetsRead(e.targets).attr)

\* A value that is there for either, the left one's first.
Joint(f, g) ==
  [k \in DOMAIN f \cup DOMAIN g |->
     IF k \notin DOMAIN g THEN f[k] ELSE IF k \notin DOMAIN f THEN g[k] ELSE f[k] \o g[k]]

\* What is set once, and is the same wherever it is set again.
Added(f, g) == [k \in DOMAIN f \cup DOMAIN g |-> IF k \in DOMAIN f THEN f[k] ELSE g[k]]

NotSet == [k \in {} |-> <<>>]

NoGraphs(kind) ==
  [kind |-> kind, flags |-> NotSet, num_graphs |-> 0, ptrs |-> NotSet, names |-> NotSet,
   objects |-> <<>>, keys |-> {}, fields |-> NotSet, edge_types |-> {},
   marks |-> NotSet, targets |-> NoTargets, edges |-> <<>>]

\* Names of a type count as nodes of it.
CountOf(e, t) ==
  LET counted == IF t \in DOMAIN e.counts THEN e.counts[t] ELSE 0
      named   == IF t \in DOMAIN e.names THEN Len(e.names[t]) ELSE 0
  IN  IF counted < named THEN named ELSE counted

NodeCounts(e) == [t \in NodeTypes(e) |-> CountOf(e, t)]

\* A type's boundaries begin with the first graph that has it, and go on with every
\* graph after.
PtrsAfter(ptrs, counts) ==
  [t \in DOMAIN ptrs \cup DOMAIN counts |->
     LET ptr == IF t \in DOMAIN ptrs THEN ptrs[t] ELSE <<0>>
     IN  Append(ptr, Last(ptr) + (IF t \in DOMAIN counts THEN counts[t] ELSE 0))]

\* Edges of homogeneous data: source, target, and a row.
ShiftedEdges(edges, by) == [k \in DOMAIN edges |-> <<edges[k][1] + by, edges[k][2] + by, edges[k][3]>>]

NodesSoFar(ptrs, t) == IF t \in DOMAIN ptrs THEN Last(ptrs[t]) ELSE 0

\* The type of nodes that homogeneous edges are between.
TypeOfEdges(e) == CHOOSE t \in NodeTypes(e) : TRUE

Appended(b, e) ==
  [b EXCEPT !.kind       = IF @ = "" THEN e.kind ELSE @,
            !.flags      = Added(@, e.flags),
            !.num_graphs = @ + 1,
            !.ptrs       = PtrsAfter(@, NodeCounts(e)),
            !.names      = Joint(@, e.names),
            !.objects    = @ \o e.objects,
            !.keys       = @ \cup NativeKeys(e),
            !.fields     = Added(@, [key \in DOMAIN e.fields |->
                                       [mode |-> e.fields[key].spec.mode, since |-> b.num_graphs]]),
            !.edge_types = @ \cup e.edge_types,
            !.marks      = Added(@, e.marks),
            !.targets    = TargetsAfter(@, e.targets),
            !.edges      = IF e.edges = <<>> THEN @
                           ELSE @ \o ShiftedEdges(e.edges, NodesSoFar(b.ptrs, TypeOfEdges(e)))]

\* What two functions say of the same name.
Agree(f, g) == \A k \in DOMAIN f \cap DOMAIN g : f[k] = g[k]

\* Native fields have one spec, and some a value per graph, or one for all, that no
\* later graph may miss.  (BatchBuilder has the merge of fields and of columns.)
FieldsAppend(e, later) ==
  \A key \in DOMAIN e.fields :
    /\ e.fields[key].spec.mode \in {"stack", "const"} => key \in DOMAIN later.fields
    /\ key \in DOMAIN later.fields =>
         /\ e.fields[key].spec = later.fields[key].spec
         /\ e.fields[key].spec.mode = "const" => e.fields[key].values = later.fields[key].values

\* Kinds are the same unless one is not known; so are flags and marks that two have.
Appends(shelf) ==
  \A i, j \in DOMAIN shelf :
    /\ shelf[i].kind = shelf[j].kind \/ "" \in {shelf[i].kind, shelf[j].kind}
    /\ Agree(shelf[i].flags, shelf[j].flags)
    /\ Agree(shelf[i].marks, shelf[j].marks)
    /\ i < j => FieldsAppend(shelf[i], shelf[j])

\* build: the longest boundaries tell how many graphs there are, so that those before
\* the first node are none.
Built(b) ==
  LET counted == IF b.ptrs = NotSet THEN b.num_graphs
                 ELSE Max({Len(b.ptrs[t]) - 1 : t \in DOMAIN b.ptrs})
  IN  [b EXCEPT !.num_graphs = counted,
                !.fields = [key \in DOMAIN @ |->
                              [@[key] EXCEPT !.since = @ - (b.num_graphs - counted)]]]

Batched(shelf) == Built(FoldLeft(Appended, NoGraphs(shelf[1].kind), shelf))

\* The encodings that have no graph in the batch come first.
Uncounted(shelf) == Len(shelf) - Batched(shelf).num_graphs

(***************************************************************************)
(* batch_builder_build_pyg.                                                *)
(***************************************************************************)
\* Mutant: boundaries as they are, whenever they begin.
PtrUnpadded(b, t) == b.ptrs[t]

\* Graphs before the first one with the type have the first boundary, too.
PygPtr(b, t) ==
  LET ptr     == b.ptrs[t]
      missing == b.num_graphs + 1 - Len(ptr)
  IN  [k \in 1..missing |-> ptr[1]] \o ptr

Smaller(m, n) == IF m < n THEN m ELSE n

\* A piece behind the last name is empty.
CutBy(names, ptr) ==
  [i \in 1..(Len(ptr) - 1) |-> SubSeq(names, ptr[i] + 1, Smaller(ptr[i + 1], Len(names)))]

\* A type with names has nodes, if only for them, and so boundaries.
node_names(b, t) == CutBy(b.names[t], PygPtr(b, t))

\* Object names are cut like the names of a type that are the same ones: the first
\* such type in the order of keys, which is left open here.
NamedLikeObjects(b) == {t \in DOMAIN b.names : b.names[t] = b.objects}

object_names(b) ==
  IF NamedLikeObjects(b) = {} THEN <<b.objects>>
  ELSE CutBy(b.objects, PygPtr(b, CHOOSE t \in NamedLikeObjects(b) : TRUE))

(***************************************************************************)
(* as_pyg.  A single object has no level for graphs; edges of homogeneous  *)
(* data are mirrored in it unless the encoder wrote both ways.  (Objects   *)
(* of flat kinds become FlatRelationData then, outside of the code here,   *)
(* with the same attributes.)                                              *)
(***************************************************************************)
HomoLike(b) ==
  \/ b.kind \in {"homo", "flat"}
  \/ "flat_relations" \in DOMAIN b.flags /\ b.flags.flat_relations

\* A flag that is there keeps edges from being mirrored, whatever it says.
WrittenBothWays(b) == "include_reverse_edges" \in DOMAIN b.flags

GraphAttrKeysTaken(b) ==
  StructuralKeys \cup ReservedKeys \cup {"_num_graphs", "object_names", "node_names", "num_nodes"}
    \cup DOMAIN b.fields \cup {PtrKey(key) : key \in DOMAIN b.fields}

GraphAttrKeys(b) ==
  DOMAIN b.marks \cup IF TargetsRead(b.targets).attr = <<>> THEN {} ELSE {"target_names"}

\* Fields that came with a later graph lack the values, or the rows, of those before,
\* and fields of graphs that do not count have too many.
FieldsWhole(b) ==
  \A key \in DOMAIN b.fields : b.fields[key].mode \in {"stack", "ragged_cat"} => b.fields[key].since = 0

Exports(b, as_batch) ==
  /\ FieldsWhole(b)
  /\ GraphAttrKeys(b) \cap GraphAttrKeysTaken(b) = {}
  /\ as_batch \/ b.num_graphs = 1
  /\ HomoLike(b) => Cardinality(DOMAIN b.ptrs) <= 1 /\ Cardinality(b.edge_types) <= 1

Flat(lists) == IF Len(lists) = 1 THEN lists[1] ELSE lists

\* Mutant: loops are mirrored, too.
MirroredAll(edges) == edges \o [k \in DOMAIN edges |-> <<edges[k][2], edges[k][1], edges[k][3]>>]

Mirrored(edges) ==
  LET proper == SelectSeq(edges, LAMBDA edge : edge[1] # edge[2])
  IN  edges \o [k \in DOMAIN proper |-> <<proper[k][2], proper[k][1], proper[k][3]>>]

\* Attributes go along; a list of one is taken for a collated value.
Unwrapped(value) == IF value[1] = "list" /\ Len(value[2]) = 1 THEN value[2][1] ELSE value

copy_python_attrs(b, attrs, as_batch) ==
  [key \in DOMAIN attrs \ (ReservedKeys \cup StructuralKeys \cup b.keys) |->
     IF b.num_graphs = 1 /\ ~as_batch THEN Unwrapped(attrs[key]) ELSE attrs[key]]

\* No names of objects make no attribute; without types there are no graphs to cut by.
ExportedObjects(b, as_batch) ==
  CASE b.objects = <<>> \/ DOMAIN b.ptrs = {} -> b.objects
    [] OTHER -> IF as_batch THEN object_names(b) ELSE Flat(object_names(b))

AsPyg(b, attrs, as_batch) ==
  [names   |-> [t \in DOMAIN b.names |-> IF as_batch THEN node_names(b, t) ELSE Flat(node_names(b, t))],
   objects |-> ExportedObjects(b, as_batch),
   targets |-> target_names(b),
   marks   |-> b.marks,
   edges   |-> IF as_batch \/ ~HomoLike(b) \/ WrittenBothWays(b) THEN b.edges
               ELSE Mirrored(b.edges),
   attrs   |-> copy_python_attrs(b, attrs, as_batch)]

-----------------------------------------------------------------------------
(***************************************************************************)
(* What a reader finds of a source at its position, and what the source    *)
(* had, its references counted on from where its graph or rows begin.      *)
(***************************************************************************)
ItemsIn(spec, value) ==
  IF ~Numeric(spec) THEN value[2]
  ELSE IF spec.dim = 1 \/ spec.cat_dim = 0 THEN value[3] ELSE Transposed(value[3])

NumbersOf(value) ==
  IF value[1] = "list" THEN [k \in DOMAIN value[2] |-> value[2][k][2]]
  ELSE [k \in DOMAIN value[3] |-> value[3][k][1]]

\* References to nodes count from the first node of the graph, which the PyG
\* boundaries tell; references to rows from the first row.
Base(shelf, spec, i) ==
  IF spec.inc # <<>> /\ spec.inc[1] = "node"
  THEN IF spec.inc[2] \in DOMAIN Batched(shelf).ptrs /\ i > Uncounted(shelf)
       THEN PygPtr(Batched(shelf), spec.inc[2])[i - Uncounted(shelf)] ELSE 0
  ELSE Offset(shelf, spec, i)

Had(shelf, spec, key, i) ==
  IF ~Has(shelf[i], key) THEN <<>>
  ELSE IF Numeric(spec)
  THEN LET own == Slices(spec, shelf[i].attrs[key])
       IN  [k \in DOMAIN own |-> [j \in DOMAIN own[k] |-> Base(shelf, spec, i) + own[k][j]]]
  ELSE Items(shelf[i].attrs[key])

FoundByPtr(shelf, spec, key, value, ptr) ==
  /\ Len(ptr) = Len(shelf) + 1
  /\ Last(ptr) = Len(ItemsIn(spec, value))
  /\ \A i \in DOMAIN shelf :
       SubSeq(ItemsIn(spec, value), ptr[i] + 1, ptr[i + 1]) = Had(shelf, spec, key, i)

FoundOnePerGraph(shelf, spec, key, value) ==
  /\ Len(ItemsIn(spec, value)) = Len(shelf)
  /\ \A i \in DOMAIN shelf :
       IF Numeric(spec) THEN <<ItemsIn(spec, value)[i]>> = Had(shelf, spec, key, i)
       ELSE value[2][i] = IF Has(shelf[i], key) THEN shelf[i].attrs[key] ELSE Nothing

FoundForAll(shelf, spec, key, value) ==
  \A i \in DOMAIN shelf :
    IF Numeric(spec) THEN value[3] = [k \in 1..spec.dim |-> <<Had(shelf, spec, key, i)[1][k]>>]
    ELSE value = shelf[i].attrs[key]

FoundBySpec(shelf, specs, key, collated) ==
  LET spec == Parsed(specs[key])
  IN  CASE spec.mode = "const" -> FoundForAll(shelf, spec, key, collated[key])
        [] spec.mode = "stack" -> FoundOnePerGraph(shelf, spec, key, collated[key])
        [] spec.mode = "cat"   ->
             ItemsIn(spec, collated[key]) = FlattenSeq([i \in DOMAIN shelf |-> Had(shelf, spec, key, i)])
        [] spec.mode = "ragged_cat" ->
             \/ PtrKey(key) \in OwnKeys(shelf, specs)
             \/ FoundByPtr(shelf, spec, key, collated[key], NumbersOf(collated[PtrKey(key)]))

FoundByDefault(shelf, value, key) ==
  \A i \in DOMAIN shelf :
    shelf[i].attrs[key] =
      IF value[1] = "list" THEN value[2][i]
      ELSE Dict([entry \in DOMAIN value[2] |-> value[2][entry][2][i]])

AttributesFound(shelf, specs) ==
  LET collated == Collated(shelf, specs)
  IN  /\ \A i \in DOMAIN shelf : DOMAIN shelf[i].attrs \subseteq DOMAIN collated
      /\ \A key \in DOMAIN specs : FoundBySpec(shelf, specs, key, collated)
      /\ \A key \in DefaultKeys(shelf, specs) : FoundByDefault(shelf, collated[key], key)
      /\ \A key \in DOMAIN specs : Parsed(RegisteredSpecs(specs)[key]) = Parsed(specs[key])

(***************************************************************************)
(* Names by graph.  Those of a type are when every graph names each of its *)
(* nodes of the type, or none does; those of objects when in each graph    *)
(* they are the names of every type that has the same names altogether;    *)
(* those of targets unless an encoding whose names were read follows one   *)
(* whose names were not.                                                   *)
(***************************************************************************)
NamesOf(e, t) == IF t \in DOMAIN e.names THEN e.names[t] ELSE <<>>

NamesAll(e, t) == Len(NamesOf(e, t)) = IF t \in NodeTypes(e) THEN CountOf(e, t) ELSE 0

NamesObjectsAs(shelf, t) ==
  \A i \in DOMAIN shelf : NamesAll(shelf[i], t) /\ NamesOf(shelf[i], t) = shelf[i].objects

ReadAfterDeferred(shelf) ==
  \E i, j \in DOMAIN shelf :
    /\ i < j
    /\ shelf[i].targets.deferred # <<>>
    /\ FlattenSeq(shelf[j].targets.attr) \o shelf[j].targets.strings # <<>>

Often(seq, x) == Cardinality({k \in DOMAIN seq : seq[k] = x})

GraphsOf(lists, as_batch) == IF as_batch THEN lists ELSE <<lists>>

\* Both ways of an edge have its row; loops are there once.
BothWays(edges, mirrored) ==
  \A edge \in ToSet(edges) \cup ToSet(mirrored) :
    Often(mirrored, edge) =
      Often(edges, edge)
        + IF edge[1] = edge[2] THEN 0 ELSE Often(edges, <<edge[2], edge[1], edge[3]>>)

GraphsFound(shelf, pyg, as_batch) ==
  LET b       == Batched(shelf)
      targets == FlattenSeq([i \in DOMAIN shelf |-> target_names(shelf[i])])
  IN  /\ \A t \in DOMAIN pyg.names :
           (\A i \in DOMAIN shelf : NamesAll(shelf[i], t)) =>
             GraphsOf(pyg.names[t], as_batch) = [i \in DOMAIN shelf |-> NamesOf(shelf[i], t)]
      /\ /\ b.objects # <<>> /\ NamedLikeObjects(b) # {}
         /\ \A t \in NamedLikeObjects(b) : NamesObjectsAs(shelf, t)
         => GraphsOf(pyg.objects, as_batch) = [i \in DOMAIN shelf |-> shelf[i].objects]
      /\ IF ReadAfterDeferred(shelf)
         THEN \A name \in ToSet(targets) \cup ToSet(pyg.targets) :
                Often(pyg.targets, name) = Often(targets, name)
         ELSE pyg.targets = targets
      /\ \A i \in DOMAIN shelf : \A k \in DOMAIN shelf[i].marks : pyg.marks[k] = shelf[i].marks[k]
      /\ ~as_batch /\ HomoLike(b) /\ ~WrittenBothWays(b) =>
           BothWays(shelf[1].edges, pyg.edges)
      /\ as_batch => Len(pyg.edges) = Total([i \in DOMAIN shelf |-> Len(shelf[i].edges)])

\* As a single object a value is again what it was, but for a list of one.
SingleAgain(attrs, pyg) ==
  \A key \in DOMAIN attrs :
    attrs[key] = pyg.attrs[key] \/ attrs[key] = List(<<pyg.attrs[key]>>)
================================================================================
