--------------------------- MODULE EncodingTensors ---------------------------
(***************************************************************************)
(* A finished BatchEncoding and the tensors callers get from it.  The      *)
(* encoding owns the storage of its graph fields, has a target device, and *)
(* after to() a cache with one tensor per field and boundary vector.  A    *)
(* tensor of values on the host is a view of the storage vector; boundary  *)
(* vectors, and everything on another device, are copies.  HeteroBatch-    *)
(* EncodingView and HomoBatchEncodingView read node and edge columns       *)
(* through the same cache and keep what they read.                         *)
(*                                                                         *)
(* Node and edge columns never change, so of their tensors only the device *)
(* is modelled; they share the device of the cache they were built with.   *)
(* Python attributes only matter in that moving them can raise.            *)
(***************************************************************************)
EXTENDS FieldStorage, FiniteSets

CONSTANTS
  NumGraphs,
  Assignments,     \* sequences of [field, rows, ptr]: what callers pass to set_fields
  Uncoercible,     \* rows or ptr that cannot be coerced to numbers
  InitRows, InitPtr,
  Devices, Host, None,
  Views, Props,    \* views of the encoding, and their properties
  FallbackProps,   \* those with no column: zeros made on the target device
  Scalars          \* what callers write into a tensor in place

ASSUME HostIsDevice == Host \in Devices /\ None \notin Devices
ASSUME FallbackIsProp == FallbackProps \subseteq Props /\ NumGraphs \in Nat

ASSUME InitialStorage == InitRows \in [Fields -> Seq(Int)] /\ InitPtr \in [Fields -> Seq(Int)]
ASSUME ScalarsAreNumbers == Scalars \subseteq Int

Numbers == Seq(Int) \cup {Uncoercible}

\* set_fields takes a dict: no field twice.
ASSUME AssignmentTypes ==
  Assignments \subseteq Seq([field : Fields, rows : Numbers, ptr : Numbers])
ASSUME DistinctFields ==
  \A s \in Assignments : \A i, j \in DOMAIN s : s[i].field = s[j].field => i = j

Keys == {<<f, "values">> : f \in Fields} \cup
        {<<f, "ptr">> : f \in {g \in Fields : Mode[g] = "RAGGED_CAT"}}

VARIABLES
  values, field_ptr,   \* storage of the graph fields
  device,              \* __mifrost_tensor_device__, None when not set
  cache_device,        \* device of the cached tensors, None when there is no cache
  cache,               \* __mifrost_tensor_cache__: [Keys -> tensors]
  held,                \* fields whose host view a caller still holds
  view_device,         \* [Views -> [Props -> device of the tensor kept, or None]]
  (* What the properties excuse: *)
  spoiled,             \* cached keys a caller wrote to, or a failed set_field(s) bypassed
  misplaced,           \* to() raised before it touched the cache
  left_behind          \* views that kept tensors when another call moved the encoding

storageVars == <<values, field_ptr>>
cacheVars == <<cache_device, cache, spoiled, misplaced>>
viewVars == <<view_device, left_behind>>
vars == <<storageVars, device, cacheVars, held, viewVars>>

\* Tensors: a view of the stored vector, of a vector replaced since, or a copy.
StoredView == [of |-> "stored", rows |-> <<>>]
FreedView == [of |-> "freed", rows |-> <<>>]
Copy(rows) == [of |-> "copy", rows |-> rows]

NoTensors == [k \in Keys |-> Copy(<<>>)]
NothingRead == [p \in Props |-> None]

Target == IF device = None THEN Host ELSE device
Stored(k) == IF k[2] = "ptr" THEN field_ptr[k[1]] ELSE values[k[1]]
Tensor(k, d) == IF k[2] = "values" /\ d = Host THEN StoredView ELSE Copy(Stored(k))
Tensors(d) == [k \in Keys |-> Tensor(k, d)]

Init ==
  /\ values = InitRows /\ field_ptr = InitPtr
  /\ device = None
  /\ cache_device = None /\ cache = NoTensors
  /\ held = {}
  /\ view_device = [v \in Views |-> NothingRead]
  /\ spoiled = {} /\ misplaced = FALSE /\ left_behind = {}

Uncached == cache_device' = None /\ cache' = NoTensors /\ spoiled' = {} /\ misplaced' = FALSE

-----------------------------------------------------------------------------
(* set_field(s), and assignment to an attribute that names a field.        *)

Ragged(a) == Mode[a.field] = "RAGGED_CAT"
PtrTaken(a) == Ragged(a) => a.ptr # Uncoercible
RowsTaken(a) == PtrTaken(a) /\ a.rows # Uncoercible

RowsAfter(a) == IF RowsTaken(a) THEN a.rows ELSE values[a.field]

(* Mutant: the boundaries are assigned before they are coerced. *)
PtrAfterUncoerced(a) ==
  IF Ragged(a) THEN a.ptr ELSE IF RowsTaken(a) THEN <<>> ELSE field_ptr[a.field]

\* Ragged boundaries are assigned before the rows are coerced; both are
\* assigned before they are validated.
PtrAfter(a) ==
  IF Ragged(a) THEN IF PtrTaken(a) THEN a.ptr ELSE field_ptr[a.field]
  ELSE IF RowsTaken(a) THEN <<>> ELSE field_ptr[a.field]

Accepted(a) == RowsTaken(a) /\ ValidStorage(a.field, RowsAfter(a), PtrAfter(a), NumGraphs)

\* The first assignment that raises ends the call.
Attempted(s) == {i \in DOMAIN s : \A j \in 1..(i - 1) : Accepted(s[j])}
AssignedTo(s, f) == {i \in Attempted(s) : s[i].field = f}

Replaced(s) == {s[i].field : i \in {j \in Attempted(s) : RowsTaken(s[j])}}
TouchedKeys(s) ==
  {<<f, "values">> : f \in Replaced(s)} \cup
  {<<s[i].field, "ptr">> : i \in {j \in Attempted(s) : Ragged(s[j]) /\ PtrTaken(s[j])}}

AssignFields(s) ==
  /\ values' = [f \in Fields |->
       IF AssignedTo(s, f) = {} THEN values[f] ELSE RowsAfter(s[CHOOSE i \in AssignedTo(s, f) : TRUE])]
  /\ field_ptr' = [f \in Fields |->
       IF AssignedTo(s, f) = {} THEN field_ptr[f] ELSE PtrAfter(s[CHOOSE i \in AssignedTo(s, f) : TRUE])]
  /\ held' = held \ Replaced(s)

(* Mutant: set_fields leaves the cache alone. *)
SetFieldsKeepingCache(s) ==
  /\ \A i \in DOMAIN s : Accepted(s[i])
  /\ AssignFields(s)
  /\ UNCHANGED <<device, cacheVars, viewVars>>

SetFields(s) ==
  /\ \A i \in DOMAIN s : Accepted(s[i])
  /\ AssignFields(s)
  /\ Uncached
  /\ UNCHANGED <<device, viewVars>>

\* A call that raises keeps what it assigned and leaves the cache alone, whose
\* views of the replaced vectors are now views of freed ones.
SetFieldsRaises(s) ==
  /\ \E i \in DOMAIN s : ~Accepted(s[i])
  /\ AssignFields(s)
  /\ cache' = [k \in Keys |->
       IF k[1] \in Replaced(s) /\ cache[k] = StoredView THEN FreedView ELSE cache[k]]
  /\ spoiled' = IF cache_device = None THEN spoiled ELSE spoiled \cup TouchedKeys(s)
  /\ UNCHANGED <<device, cache_device, misplaced, viewVars>>

-----------------------------------------------------------------------------
(* Devices.                                                                *)

HasRead(v) == view_device[v] # NothingRead
Rebuilt(d) == cache_device' = d /\ cache' = Tensors(d) /\ spoiled' = {} /\ misplaced' = FALSE
LeftBehind(d, movers) ==
  IF d = Target /\ ~misplaced THEN left_behind \ movers
  ELSE (left_behind \cup {v \in Views : HasRead(v)}) \ movers

To(d) ==
  /\ device' = d
  /\ IF d = device THEN UNCHANGED <<cacheVars, left_behind>>
     ELSE Rebuilt(d) /\ left_behind' = LeftBehind(d, {})
  /\ UNCHANGED <<storageVars, held, view_device>>

\* The target device is set first.  A Python attribute that cannot be moved
\* raises with the old cache in place ...
ToRaisesOnAttribute(d) ==
  /\ d # Host /\ d # device
  /\ device' = d
  /\ left_behind' = LeftBehind(d, {})
  /\ misplaced' = (cache_device # None /\ cache_device # d)
  /\ UNCHANGED <<storageVars, cache_device, cache, spoiled, held, view_device>>

\* ... and a field that cannot be moved raises when the old cache is gone.
\* The to() of a view raises in the same place.
ToRaisesOnField(d) ==
  /\ d # Host
  /\ device' = d
  /\ Uncached
  /\ left_behind' = LeftBehind(d, {})
  /\ UNCHANGED <<storageVars, held, view_device>>

-----------------------------------------------------------------------------
(* Views.                                                                  *)

NewView(v) ==
  /\ view_device' = [view_device EXCEPT ![v] = NothingRead]
  /\ left_behind' = left_behind \ {v}
  /\ UNCHANGED <<storageVars, device, cacheVars, held>>

\* A property is read once: from the cache if there is one.
ReadProp(v, p) ==
  /\ view_device[v][p] = None
  /\ view_device' = [view_device EXCEPT ![v][p] =
       IF p \in FallbackProps \/ cache_device = None THEN Target ELSE cache_device]
  /\ left_behind' = IF misplaced THEN left_behind \cup {v} ELSE left_behind
  /\ UNCHANGED <<storageVars, device, cacheVars, held>>

(* Mutant: the view keeps what it has read. *)
ViewToKeepingReads(v, d) ==
  /\ device' = d
  /\ Rebuilt(d)
  /\ view_device' = [view_device EXCEPT ![v] =
       [p \in Props |-> IF view_device[v][p] = None THEN d ELSE view_device[v][p]]]
  /\ left_behind' = LeftBehind(d, {v})
  /\ UNCHANGED <<storageVars, held>>

\* Rebuilds the encoding's cache even when the device stays, then the view's.
ViewTo(v, d) ==
  /\ device' = d
  /\ Rebuilt(d)
  /\ view_device' = [view_device EXCEPT ![v] = [p \in Props |-> d]]
  /\ left_behind' = LeftBehind(d, {v})
  /\ UNCHANGED <<storageVars, held>>

-----------------------------------------------------------------------------
(* In-place writes to tensors that get_field returned.                     *)

ReadsAsView(f) ==
  IF cache_device = None THEN Target = Host ELSE cache[<<f, "values">>] = StoredView

Hold(f) ==
  /\ f \notin held /\ ReadsAsView(f)
  /\ held' = held \cup {f}
  /\ UNCHANGED <<storageVars, device, cacheVars, viewVars>>

\* Through a view, which may be older than a cache of copies ...
WriteStored(f, scalar) ==
  /\ ReadsAsView(f) \/ f \in held
  /\ values[f] # <<>>
  /\ values' = [values EXCEPT ![f][1] = scalar]
  /\ spoiled' = IF cache_device = None \/ ReadsAsView(f) THEN spoiled
                ELSE spoiled \cup {<<f, "values">>}
  /\ UNCHANGED <<field_ptr, device, cache_device, cache, misplaced, held, viewVars>>

\* ... and to a cached copy.
WriteCopy(k, scalar) ==
  /\ cache_device # None /\ cache[k].of = "copy" /\ cache[k].rows # <<>>
  /\ cache' = [cache EXCEPT ![k].rows[1] = scalar]
  /\ spoiled' = spoiled \cup {k}
  /\ UNCHANGED <<storageVars, device, cache_device, misplaced, held, viewVars>>

\* loads(dumps()): refused while a field is invalid; the cache stays behind.
Reload ==
  /\ \A f \in Fields : ValidStorage(f, values[f], field_ptr[f], NumGraphs)
  /\ Uncached
  /\ held' = {}
  /\ view_device' = [v \in Views |-> NothingRead]
  /\ left_behind' = {}
  /\ UNCHANGED <<storageVars, device>>

Next ==
  \/ \E s \in Assignments : SetFields(s)
  \/ \E s \in Assignments : SetFieldsRaises(s)
  \/ \E d \in Devices : To(d)
  \/ \E d \in Devices : ToRaisesOnAttribute(d)
  \/ \E d \in Devices : ToRaisesOnField(d)
  \/ \E v \in Views : NewView(v)
  \/ \E v \in Views, p \in Props : ReadProp(v, p)
  \/ \E v \in Views, d \in Devices : ViewTo(v, d)
  \/ \E f \in Fields : Hold(f)
  \/ \E f \in Fields, x \in Scalars : WriteStored(f, x)
  \/ \E k \in Keys, x \in Scalars : WriteCopy(k, x)
  \/ Reload

Spec == Init /\ [][Next]_vars

-----------------------------------------------------------------------------
Shown(k) == IF cache[k].of = "stored" THEN Stored(k) ELSE cache[k].rows

TensorType == [of : {"stored", "freed", "copy"}, rows : Seq(Int)]

\* Every variable has the type its declaration gives it.
TypeOK ==
  /\ values \in [Fields -> Seq(Int)] /\ field_ptr \in [Fields -> Seq(Int)]
  /\ device \in Devices \cup {None} /\ cache_device \in Devices \cup {None}
  /\ cache \in [Keys -> TensorType]
  /\ held \subseteq Fields
  /\ view_device \in [Views -> [Props -> Devices \cup {None}]]
  /\ spoiled \subseteq Keys /\ misplaced \in BOOLEAN /\ left_behind \subseteq Views

\* What get_field returns from the cache is on the target device, shows what is
\* stored and is never a view of a freed vector, except for the keys that a
\* caller wrote to in place or that a set_field(s) which raised replaced, and
\* after a to() that raised before it got to the cache.
ReadsFollowStorage ==
  cache_device # None =>
    /\ misplaced \/ cache_device = device
    /\ \A k \in Keys \ spoiled : cache[k] # FreedView /\ Shown(k) = Stored(k)

\* The tensors a view keeps are all on the encoding's target device, unless a
\* call on something else has moved the encoding since or a to() raised halfway:
\* message passing over one view never mixes devices.
ViewsFollowDevice ==
  \A v \in Views \ left_behind : \A p \in Props : view_device[v][p] \in {None, Target}

\* "In-place mutation on returned value tensors is write-through; ptr tensors
\* are returned as snapshots": whatever callers write, get_field returns what
\* is stored.
ReadsShowStorage ==
  cache_device # None => \A k \in Keys : Shown(k) = Stored(k)
=============================================================================
