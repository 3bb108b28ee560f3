------------------------------- MODULE Collation -------------------------------
(***************************************************************************)
(* batch_encodings: what callers set on single encodings as Python         *)
(* attributes is collated into attributes of their batch, key by key, as   *)
(* the collate spec of the key says or else into a list.                   *)
(*                                                                         *)
(* A value is a tagged tuple: nothing, a number, a text, a list of values, *)
(* a dict (its keys are texts), or a tensor with its number of dimensions, *)
(* two at most, and its rows, one at least if it has two.                  *)
(*                                                                         *)
(* A shelf is a sequence of one or more encodings, each of a single graph: *)
(* of none the batch is empty whatever the specs, and one of several       *)
(* graphs is refused.  fast_path changes nothing but how often fields that *)
(* are well formed are validated.                                          *)
(***************************************************************************)
EXTENDS Integers, Sequences, FiniteSets, SequencesExt

Nothing == <<"none">>
Number(n) == <<"number", n>>
Text(s) == <<"text", s>>
List(values) == <<"list", values>>
Dict(f) == <<"dict", f>>
Tensor(ndim, rows) == <<"tensor", ndim, rows>>
Integer1D(numbers) == Tensor(1, [k \in DOMAIN numbers |-> <<numbers[k]>>])

Total(numbers) == FoldLeft(LAMBDA sum, n : sum + n, 0, numbers)

\* Running totals, from 0: where each piece starts, and where the last one ends.
Boundaries(sizes) == [i \in 1..(Len(sizes) + 1) |-> Total(SubSeq(sizes, 1, i - 1))]

Transposed(rows) ==
  IF rows = <<>> THEN <<>>
  ELSE [col \in DOMAIN rows[1] |-> [row \in DOMAIN rows |-> rows[row][col]]]

PtrKey(key) == key \o "_ptr"

(***************************************************************************)
(* Keys that no attribute may have.  An encoding is [counts, names,        *)
(* columns, fields, attrs, ...]: columns are the keys of its columns, and  *)
(* fields its native graph fields, [spec, values] each.                    *)
(***************************************************************************)
\* Any key that starts with __mifrost_ is reserved; these are the ones in use.
ReservedKeys ==
  {"__mifrost_collate_spec__", "__mifrost_tensor_device__", "__mifrost_tensor_cache__"}

StructuralKeys ==
  {"x", "edge_index", "edge_attr", "batch", "ptr",
   "x_dict", "edge_index_dict", "edge_attr_dict", "batch_dict", "ptr_dict"}

\* The types that an encoding has boundaries for.
NodeTypes(e) == DOMAIN e.counts \cup DOMAIN e.names

NativeKeys(e) ==
  e.columns
    \cup {type \o "/ptr" : type \in NodeTypes(e)} \cup {type \o "/batch" : type \in NodeTypes(e)}
    \cup DOMAIN e.fields
    \cup {PtrKey(key) : key \in {k \in DOMAIN e.fields : e.fields[k].spec.mode = "ragged_cat"}}

Forbidden(e, key) == key \in ReservedKeys \cup StructuralKeys \cup NativeKeys(e)

Has(e, key) == key \in DOMAIN e.attrs

(***************************************************************************)
(* Specs.  As written one is nothing, the name of a mode, or a dict of     *)
(* what differs from the default.                                          *)
(***************************************************************************)
DefaultSpec == [dtype |-> "pyobj", mode |-> "stack", dim |-> 1, cat_dim |-> 0, inc |-> <<>>]

Modes == {"stack", "cat", "ragged_cat", "const"}

DTypes ==
  [pyobj |-> "pyobj", python |-> "pyobj", object |-> "pyobj", str |-> "str", string |-> "str",
   f32 |-> "f32", float32 |-> "f32", float |-> "f32", i64 |-> "i64", int64 |-> "i64", int |-> "i64"]

Parsed(written) ==
  CASE written[1] = "none" -> DefaultSpec
    [] written[1] = "mode" -> [DefaultSpec EXCEPT !.mode = written[2]]
    [] written[1] = "dict" ->
         [name \in DOMAIN DefaultSpec |->
            CASE name \notin DOMAIN written[2]                   -> DefaultSpec[name]
              [] name = "dtype" /\ name \in DOMAIN written[2]    -> DTypes[written[2].dtype]
              [] name = "cat_dim" /\ name \in DOMAIN written[2]  ->
                   IF written[2].cat_dim = -1 THEN 1 ELSE written[2].cat_dim
              [] OTHER                                           -> written[2][name]]

Numeric(spec) == spec.dtype \in {"f32", "i64"}

ShapeRules(spec) ==
  IF Numeric(spec)
  THEN /\ spec.dim > 0
       /\ spec.cat_dim \in IF spec.mode \in {"cat", "ragged_cat"} THEN {0, 1} ELSE {0}
       /\ spec.inc # <<>> => spec.dtype = "i64" /\ spec.inc[2] # ""
  ELSE spec.mode # "cat" /\ spec.dim = 1 /\ spec.cat_dim = 0 /\ spec.inc = <<>>

Increment(inc) == inc = <<>> \/ (Len(inc) = 2 /\ inc[1] \in {"node", "field"})

WellWritten(written) ==
  /\ written[1] \in {"none", "mode", "dict"}
  /\ written[1] = "mode" => written[2] \in Modes
  /\ written[1] = "dict" =>
       /\ DOMAIN written[2] \subseteq DOMAIN DefaultSpec
       /\ "dtype" \in DOMAIN written[2] => written[2].dtype \in DOMAIN DTypes
       /\ "mode" \in DOMAIN written[2] => written[2].mode \in Modes
       /\ "inc" \in DOMAIN written[2] => Increment(written[2].inc)
  /\ ShapeRules(Parsed(written))

\* What the batch remembers of a spec, in the form of a dict again.
Registered(spec) ==
  <<"dict", IF Numeric(spec) THEN spec ELSE [dtype |-> spec.dtype, mode |-> spec.mode]>>

(***************************************************************************)
(* Tensors of numeric specs.  A piece is taken as its slices along the     *)
(* dimension that pieces are concatenated on.                              *)
(***************************************************************************)
\* Numbers in a list make a tensor, and so do lists of equally many numbers.
NumberList(value) == value[1] = "list" /\ \A k \in DOMAIN value[2] : value[2][k][1] = "number"

Matrix(value) ==
  /\ value[1] = "list" /\ value[2] # <<>>
  /\ \A k \in DOMAIN value[2] : NumberList(value[2][k]) /\ Len(value[2][k][2]) = Len(value[2][1][2])

TensorLike(value) ==
  value[1] \in {"number", "tensor"} \/ NumberList(value) \/ Matrix(value)

NumbersIn(value) == [k \in DOMAIN value[2] |-> value[2][k][2]]

as_tensor(value) ==
  CASE value[1] = "number" -> [ndim |-> 0, rows |-> <<<<value[2]>>>>]
    [] value[1] = "tensor" -> [ndim |-> value[2], rows |-> value[3]]
    [] NumberList(value)   ->
         [ndim |-> 1, rows |-> [k \in DOMAIN value[2] |-> <<NumbersIn(value)[k]>>]]
    [] OTHER               ->
         [ndim |-> 2, rows |-> [k \in DOMAIN value[2] |-> NumbersIn(value[2][k])]]

Normalizes(spec, value) ==
  /\ TensorLike(value)
  /\ LET t == as_tensor(value)
         all == FlattenSeq(t.rows)
     IN  IF spec.mode \in {"stack", "const"} THEN Len(all) = spec.dim
         ELSE IF spec.dim = 1 THEN t.ndim < 2 \/ Len(t.rows) = 1 \/ Len(t.rows[1]) = 1
         ELSE t.ndim = 2 /\ spec.dim = IF spec.cat_dim = 0 THEN Len(t.rows[1]) ELSE Len(t.rows)

Slices(spec, value) ==
  LET rows == as_tensor(value).rows
      all  == FlattenSeq(rows)
  IN  IF spec.mode \in {"stack", "const"} THEN <<all>>
      ELSE IF spec.dim = 1 THEN [k \in DOMAIN all |-> <<all[k]>>]
      ELSE IF spec.cat_dim = 0 THEN rows ELSE Transposed(rows)

\* And slices put together make a tensor again.
Joined(spec, slices) ==
  IF spec.dim = 1 THEN Tensor(1, slices)
  ELSE Tensor(2, IF spec.cat_dim = 0 THEN slices
                 ELSE [row \in 1..spec.dim |-> [k \in DOMAIN slices |-> slices[k][row]]])

(***************************************************************************)
(* Increments: references into a source go on behind the nodes, or the     *)
(* rows that a field counts, of the sources before it.                     *)
(***************************************************************************)
CountingField(e, key) ==
  /\ key \in DOMAIN e.fields
  /\ LET spec == e.fields[key].spec
     IN  spec.mode = "stack" /\ spec.dtype = "i64" /\ spec.dim = 1

Refers(spec, e) ==
  CASE spec.inc = <<>>                              -> 0
    [] spec.inc # <<>> /\ spec.inc[1] = "field"     -> Total(e.fields[spec.inc[2]].values)
    [] spec.inc # <<>> /\ spec.inc[1] = "node"      ->
         IF spec.inc[2] \in DOMAIN e.counts THEN e.counts[spec.inc[2]] ELSE 0

Offset(shelf, spec, i) == Boundaries([j \in DOMAIN shelf |-> Refers(spec, shelf[j])])[i]

\* Mutant: a source refers to its own nodes, wherever they are in the batch.
ShiftedNot(slices, by) == slices

ShiftedSlices(slices, by) == [k \in DOMAIN slices |-> [j \in DOMAIN slices[k] |-> slices[k][j] + by]]

(***************************************************************************)
(* Collation by a spec.  A source has a piece: its slices or its items.    *)
(***************************************************************************)
Items(value) ==
  CASE value[1] = "list" -> value[2]
    [] value[1] = "none" -> <<>>
    [] OTHER             -> <<value>>

PieceOf(shelf, spec, key, i) ==
  IF ~Has(shelf[i], key) THEN <<>>
  ELSE IF Numeric(spec)
  THEN ShiftedSlices(Slices(spec, shelf[i].attrs[key]), Offset(shelf, spec, i))
  ELSE Items(shelf[i].attrs[key])

Pieces(shelf, spec, key) == [i \in DOMAIN shelf |-> PieceOf(shelf, spec, key, i)]

\* Mutant: a source without the key ends no piece.
BoundariesOfGiven(shelf, spec, key) ==
  Boundaries(SelectSeq([i \in DOMAIN shelf |-> Len(PieceOf(shelf, spec, key, i))], LAMBDA n : n > 0))

PtrOf(shelf, spec, key) == Boundaries([i \in DOMAIN shelf |-> Len(PieceOf(shelf, spec, key, i))])

\* As == says; tensors and arrays also differ by what values have none of here: dtype,
\* strides, device.
SameForConst(one, other) == one = other

\* For the values of a constant, what has to agree.
ConstOf(shelf, spec, key, i) ==
  IF Numeric(spec) THEN PieceOf(shelf, spec, key, i) ELSE shelf[i].attrs[key]

IsText(value) == value[1] = "text"

TextsOnly(spec, value) ==
  \/ IsText(value)
  \/ spec.mode = "ragged_cat" /\ value[1] = "list" /\ \A k \in DOMAIN value[2] : IsText(value[2][k])

FieldCollates(shelf, spec, key) ==
  LET having == {i \in DOMAIN shelf : Has(shelf[i], key)}
  IN  /\ spec.mode = "const" \/ (Numeric(spec) /\ spec.mode = "stack") => having = DOMAIN shelf
      /\ Numeric(spec) => \A i \in having : Normalizes(spec, shelf[i].attrs[key])
      \* Pieces of one dimension have no second one to be concatenated on.
      /\ Numeric(spec) /\ spec.dim = 1 /\ spec.cat_dim = 1 => having = {}
      /\ spec.inc # <<>> /\ spec.inc[1] = "field" =>
           \A i \in DOMAIN shelf : CountingField(shelf[i], spec.inc[2])
      /\ spec.dtype = "str" => \A i \in having : TextsOnly(spec, shelf[i].attrs[key])
      /\ spec.mode = "const" =>
           \A i \in having :
             SameForConst(ConstOf(shelf, spec, key, i), ConstOf(shelf, spec, key, 1))

CollatedValue(shelf, spec, key) ==
  CASE spec.mode = "const" ->
         IF Numeric(spec) THEN Integer1D(ConstOf(shelf, spec, key, 1)[1]) ELSE shelf[1].attrs[key]
    [] spec.mode = "stack" /\ ~Numeric(spec) ->
         List([i \in DOMAIN shelf |-> IF Has(shelf[i], key) THEN shelf[i].attrs[key] ELSE Nothing])
    [] spec.mode # "const" /\ Numeric(spec) -> Joined(spec, FlattenSeq(Pieces(shelf, spec, key)))
    [] OTHER -> List(FlattenSeq(Pieces(shelf, spec, key)))

CollatedPtr(shelf, spec, key) ==
  IF Numeric(spec) THEN Integer1D(PtrOf(shelf, spec, key))
  ELSE List([i \in DOMAIN PtrOf(shelf, spec, key) |-> Number(PtrOf(shelf, spec, key)[i])])

(***************************************************************************)
(* Collation by default: the values in a list, dicts entry by entry.       *)
(***************************************************************************)
DefaultKeys(shelf, specs) ==
  ((UNION {DOMAIN shelf[i].attrs : i \in DOMAIN shelf}) \ DOMAIN specs) \ ReservedKeys

DictsAmong(shelf, key) == {i \in DOMAIN shelf : shelf[i].attrs[key][1] = "dict"}

DefaultCollates(shelf, key) ==
  /\ key \notin StructuralKeys
  /\ \A i \in DOMAIN shelf : Has(shelf[i], key) /\ key \notin NativeKeys(shelf[i])
  /\ \/ DictsAmong(shelf, key) = {}
     \/ /\ DictsAmong(shelf, key) = DOMAIN shelf
        /\ \A i \in DOMAIN shelf : DOMAIN shelf[i].attrs[key][2] = DOMAIN shelf[1].attrs[key][2]

DefaultValue(shelf, key) ==
  IF DictsAmong(shelf, key) = {} THEN List([i \in DOMAIN shelf |-> shelf[i].attrs[key]])
  ELSE Dict([entry \in DOMAIN shelf[1].attrs[key][2] |->
               List([i \in DOMAIN shelf |-> shelf[i].attrs[key][2][entry]])])

(***************************************************************************)
(* batch_encodings_from_sequence, as far as attributes go.  The key of a   *)
(* ptr may also be a key of its own; then the ptr is lost.                 *)
(***************************************************************************)
Ragged(specs) == {key \in DOMAIN specs : Parsed(specs[key]).mode = "ragged_cat"}

KeyFree(shelf, key) == \A i \in DOMAIN shelf : ~Forbidden(shelf[i], key)

Collates(shelf, specs) ==
  /\ \A key \in DOMAIN specs :
       /\ key # ""
       /\ WellWritten(specs[key])
       /\ KeyFree(shelf, key) /\ (key \in Ragged(specs) => KeyFree(shelf, PtrKey(key)))
       /\ FieldCollates(shelf, Parsed(specs[key]), key)
  /\ \A key \in DefaultKeys(shelf, specs) : DefaultCollates(shelf, key)

OwnKeys(shelf, specs) == DOMAIN specs \cup DefaultKeys(shelf, specs)

Collated(shelf, specs) ==
  [key \in OwnKeys(shelf, specs) \cup {PtrKey(k) : k \in Ragged(specs)} |->
     CASE key \in DefaultKeys(shelf, specs) -> DefaultValue(shelf, key)
       [] key \in DOMAIN specs              -> CollatedValue(shelf, Parsed(specs[key]), key)
       [] OTHER -> LET base == CHOOSE k \in Ragged(specs) : PtrKey(k) = key
                   IN  CollatedPtr(shelf, Parsed(specs[base]), base)]

\* A batch that was just made has no specs to merge these with.
RegisteredSpecs(specs) == [key \in DOMAIN specs |-> Registered(Parsed(specs[key]))]
================================================================================
