------------------------ MODULE EncodingTensors_proofs ------------------------
(***************************************************************************)
(* Tensors follow the storage and the device they were made for, whatever  *)
(* fields, devices, views and assignments there are.                       *)
(***************************************************************************)
EXTENDS EncodingTensors, SequenceTheorems, TLAPS

LEMMA KeyParts ==
  /\ \A f \in Fields : <<f, "values">> \in Keys
  /\ \A k \in Keys : k[1] \in Fields /\ k = <<k[1], k[2]>> /\ k[2] \in {"values", "ptr"}
  /\ \A k \in Keys : k[2] = "ptr" => Mode[k[1]] = "RAGGED_CAT"
BY DEF Keys

LEMMA StoredTypes ==
  ASSUME TypeOK, NEW k \in Keys
  PROVE  Stored(k) \in Seq(Int)
BY KeyParts DEF TypeOK, Stored

LEMMA TensorTypes ==
  ASSUME TypeOK
  PROVE  NoTensors \in [Keys -> TensorType] /\ \A d : Tensors(d) \in [Keys -> TensorType]
<1>1. << >> \in Seq(Int)
  OBVIOUS
<1>2. StoredView \in TensorType /\ \A k \in Keys : Copy(Stored(k)) \in TensorType
  BY <1>1, StoredTypes DEF StoredView, Copy, TensorType
<1>3. Copy(<<>>) \in TensorType
  BY <1>1 DEF Copy, TensorType
<1>. QED  BY <1>2, <1>3 DEF NoTensors, Tensors, Tensor

\* One assigned field.
LEMMA AssignmentParts ==
  ASSUME NEW s \in Assignments, NEW i \in DOMAIN s
  PROVE  /\ s[i].field \in Fields
         /\ s[i].rows \in Numbers /\ s[i].ptr \in Numbers
<1>. DEFINE Assignment == [field : Fields, rows : Numbers, ptr : Numbers]
<1>1. s \in Seq(Assignment)
  BY AssignmentTypes
<1>2. s[i] \in Assignment
  <2>. HIDE DEF Assignment
  <2>. QED  BY <1>1, LenProperties, ElementOfSeq
<1>. QED  BY <1>2

\* What set_fields leaves in the storage, keys it did not replace included.
LEMMA AssignedStorage ==
  ASSUME TypeOK, NEW s \in Assignments, AssignFields(s)
  PROVE  /\ values' \in [Fields -> Seq(Int)] /\ field_ptr' \in [Fields -> Seq(Int)]
         /\ held' \subseteq Fields
         /\ TouchedKeys(s) \subseteq Keys
         /\ \A k \in Keys \ TouchedKeys(s) : Stored(k)' = Stored(k)
         /\ \A k \in Keys \ TouchedKeys(s) : k[2] = "values" => k[1] \notin Replaced(s)
<1>. DEFINE Pick(f) == CHOOSE i \in AssignedTo(s, f) : TRUE
<1>1. \A f \in Fields : AssignedTo(s, f) # {} =>
        Pick(f) \in Attempted(s) /\ Pick(f) \in DOMAIN s /\ s[Pick(f)].field = f
  BY DEF AssignedTo, Attempted
<1>2. << >> \in Seq(Int)
  OBVIOUS
<1>3. \A i \in DOMAIN s : RowsAfter(s[i]) \in Seq(Int) /\ PtrAfter(s[i]) \in Seq(Int)
  <2>. SUFFICES ASSUME NEW i \in DOMAIN s
                PROVE  RowsAfter(s[i]) \in Seq(Int) /\ PtrAfter(s[i]) \in Seq(Int)
    OBVIOUS
  <2>1. values[s[i].field] \in Seq(Int) /\ field_ptr[s[i].field] \in Seq(Int)
    BY AssignmentParts DEF TypeOK
  <2>2. RowsTaken(s[i]) => s[i].rows \in Seq(Int)
    BY AssignmentParts DEF RowsTaken, Numbers
  <2>3. Ragged(s[i]) /\ PtrTaken(s[i]) => s[i].ptr \in Seq(Int)
    BY AssignmentParts DEF PtrTaken, Numbers
  <2>. QED  BY <1>2, <2>1, <2>2, <2>3 DEF RowsAfter, PtrAfter
<1>4. values' \in [Fields -> Seq(Int)] /\ field_ptr' \in [Fields -> Seq(Int)]
  BY <1>1, <1>3 DEF AssignFields, TypeOK
<1>5. held' \subseteq Fields
  BY DEF AssignFields, TypeOK
<1>6. TouchedKeys(s) \subseteq Keys
  BY AssignmentParts DEF TouchedKeys, Replaced, Keys, Attempted, Ragged
<1>7. ASSUME NEW k \in Keys \ TouchedKeys(s)
      PROVE  Stored(k)' = Stored(k) /\ (k[2] = "values" => k[1] \notin Replaced(s))
  <2>. DEFINE f == k[1]
  <2>1. f \in Fields /\ k = <<f, k[2]>> /\ k[2] \in {"values", "ptr"}
    BY KeyParts
  <2>2. CASE k[2] = "values"
    <3>1. f \notin Replaced(s)
      BY <1>7, <2>1, <2>2 DEF TouchedKeys
    <3>2. \A i \in Attempted(s) : s[i].field = f => ~RowsTaken(s[i])
      BY <3>1 DEF Replaced
    <3>3. AssignedTo(s, f) # {} => RowsAfter(s[Pick(f)]) = values[f]
      BY <1>1, <2>1, <3>2 DEF RowsAfter
    <3>4. values'[f] = values[f]
      BY <2>1, <3>3 DEF AssignFields
    <3>. QED  BY <2>2, <3>1, <3>4 DEF Stored
  <2>3. CASE k[2] = "ptr"
    <3>1. \A i \in Attempted(s) : s[i].field = f => Ragged(s[i]) /\ ~PtrTaken(s[i])
      BY <1>7, <2>1, <2>3, KeyParts DEF TouchedKeys, Ragged
    <3>2. AssignedTo(s, f) # {} => PtrAfter(s[Pick(f)]) = field_ptr[f]
      BY <1>1, <2>1, <3>1 DEF PtrAfter
    <3>3. field_ptr'[f] = field_ptr[f]
      BY <2>1, <3>2 DEF AssignFields
    <3>. QED  BY <2>3, <3>3 DEF Stored
  <2>. QED  BY <2>1, <2>2, <2>3
<1>. QED  BY <1>4, <1>5, <1>6, <1>7

-----------------------------------------------------------------------------
(* Storage and cached tensors.                                             *)

\* The part of the invariant about what get_field returns.
CacheInv == TypeOK /\ ReadsFollowStorage

LEMMA CacheInit == Init => CacheInv
<1>. SUFFICES ASSUME Init PROVE CacheInv
  OBVIOUS
<1>1. values \in [Fields -> Seq(Int)] /\ field_ptr \in [Fields -> Seq(Int)]
  BY InitialStorage DEF Init
<1>2. cache \in [Keys -> TensorType]
  <2>1. << >> \in Seq(Int)
    OBVIOUS
  <2>. QED  BY <2>1 DEF Init, NoTensors, Copy, TensorType
<1>3. TypeOK
  BY <1>1, <1>2 DEF TypeOK, Init, NothingRead
<1>. QED  BY <1>3 DEF CacheInv, ReadsFollowStorage, Init

LEMMA SetFieldsKeepsCacheInv ==
  ASSUME CacheInv, NEW s \in Assignments, SetFields(s)
  PROVE  CacheInv'
<1>1. TypeOK'
  BY AssignedStorage, TensorTypes DEF CacheInv, TypeOK, SetFields, Uncached, viewVars
<1>2. ReadsFollowStorage'
  BY DEF ReadsFollowStorage, SetFields, Uncached
<1>. QED  BY <1>1, <1>2 DEF CacheInv

LEMMA SetFieldsRaisesKeepsCacheInv ==
  ASSUME CacheInv, NEW s \in Assignments, SetFieldsRaises(s)
  PROVE  CacheInv'
<1>. USE DEF SetFieldsRaises, viewVars
<1>1. << >> \in Seq(Int)
  OBVIOUS
<1>2. cache' \in [Keys -> TensorType]
  BY <1>1 DEF CacheInv, TypeOK, FreedView, TensorType
<1>3. spoiled' \subseteq Keys
  BY AssignedStorage DEF CacheInv, TypeOK
<1>4. TypeOK'
  BY <1>2, <1>3, AssignedStorage DEF CacheInv, TypeOK
<1>5. ReadsFollowStorage'
  <2>. SUFFICES ASSUME cache_device # None, NEW k \in Keys \ spoiled'
                PROVE  cache'[k] # FreedView /\ Shown(k)' = Stored(k)'
    BY DEF ReadsFollowStorage, CacheInv
  <2>1. k \notin spoiled /\ k \notin TouchedKeys(s)
    OBVIOUS
  <2>2. Stored(k)' = Stored(k)
    BY <2>1, AssignedStorage DEF CacheInv
  <2>3. cache[k] # FreedView /\ Shown(k) = Stored(k)
    BY <2>1 DEF CacheInv, ReadsFollowStorage
  <2>4. k[1] \notin Replaced(s)
    <3>1. CASE k[2] = "values"
      BY <2>1, <3>1, AssignedStorage DEF CacheInv
    <3>2. CASE k[2] = "ptr"
      BY <2>1, <3>2, KeyParts DEF TouchedKeys, Replaced, RowsTaken, Ragged
    <3>. QED  BY <3>1, <3>2, KeyParts
  <2>5. cache'[k] = cache[k]
    BY <2>4
  <2>. QED  BY <2>2, <2>3, <2>5 DEF Shown
<1>. QED  BY <1>4, <1>5 DEF CacheInv

\* A cache that was just built.
LEMMA RebuiltFollows ==
  ASSUME CacheInv, NEW d \in Devices, Rebuilt(d), device' = d, UNCHANGED storageVars
  PROVE  ReadsFollowStorage' /\ cache' \in [Keys -> TensorType] /\ spoiled' \subseteq Keys
                             /\ cache_device' \in Devices \cup {None} /\ misplaced' \in BOOLEAN
<1>1. \A k \in Keys : cache'[k] = Tensor(k, d) /\ Stored(k)' = Stored(k)
  BY DEF Rebuilt, Tensors, Stored, storageVars
<1>2. \A k \in Keys : cache'[k] # FreedView /\ Shown(k)' = Stored(k)'
  <2>. SUFFICES ASSUME NEW k \in Keys
                PROVE  cache'[k] # FreedView /\ Shown(k)' = Stored(k)'
    OBVIOUS
  <2>1. CASE k[2] = "values" /\ d = Host
    <3>1. cache'[k] = StoredView
      BY <1>1, <2>1 DEF Tensor
    <3>2. StoredView.of = "stored" /\ StoredView # FreedView
      BY DEF StoredView, FreedView
    <3>. QED  BY <3>1, <3>2 DEF Shown
  <2>2. CASE ~(k[2] = "values" /\ d = Host)
    <3>1. cache'[k] = Copy(Stored(k))
      BY <1>1, <2>2 DEF Tensor
    <3>2. /\ Copy(Stored(k)).of = "copy" /\ Copy(Stored(k)).rows = Stored(k)
          /\ Copy(Stored(k)).of # FreedView.of
      BY DEF Copy, FreedView
    <3>3. cache'[k] # FreedView /\ cache'[k].of # "stored" /\ cache'[k].rows = Stored(k)
      BY <3>1, <3>2
    <3>. QED  BY <1>1, <3>3 DEF Shown
  <2>. QED  BY <2>1, <2>2
<1>. QED  BY <1>2, TensorTypes DEF ReadsFollowStorage, Rebuilt, CacheInv

LEMMA ToKeepsCacheInv ==
  ASSUME CacheInv, NEW d \in Devices, To(d)
  PROVE  CacheInv'
<1>1. LeftBehind(d, {}) \subseteq Views
  BY DEF LeftBehind, CacheInv, TypeOK
<1>2. CASE d = device
  BY <1>2 DEF To, CacheInv, TypeOK, ReadsFollowStorage, storageVars, cacheVars, Shown, Stored
<1>3. CASE d # device
  BY <1>1, <1>3, RebuiltFollows DEF To, CacheInv, TypeOK, storageVars
<1>. QED  BY <1>2, <1>3

LEMMA ToRaisesKeepsCacheInv ==
  ASSUME CacheInv, NEW d \in Devices, ToRaisesOnAttribute(d) \/ ToRaisesOnField(d)
  PROVE  CacheInv'
<1>1. LeftBehind(d, {}) \subseteq Views
  BY DEF LeftBehind, CacheInv, TypeOK
<1>2. CASE ToRaisesOnAttribute(d)
  BY <1>1, <1>2 DEF ToRaisesOnAttribute, CacheInv, TypeOK, ReadsFollowStorage, storageVars, Shown, Stored
<1>3. CASE ToRaisesOnField(d)
  BY <1>1, <1>3, TensorTypes DEF ToRaisesOnField, CacheInv, TypeOK, ReadsFollowStorage, storageVars, Uncached
<1>. QED  BY <1>2, <1>3

LEMMA ViewsKeepCacheInv ==
  ASSUME CacheInv, NEW v \in Views,
         \/ NewView(v)
         \/ \E p \in Props : ReadProp(v, p)
         \/ \E d \in Devices : ViewTo(v, d)
  PROVE  CacheInv'
<1>1. Target \in Devices
  BY HostIsDevice DEF Target, CacheInv, TypeOK
<1>2. CASE NewView(v)
  BY <1>2 DEF NewView, NothingRead, CacheInv, TypeOK, ReadsFollowStorage, storageVars, cacheVars, Shown, Stored
<1>3. CASE \E p \in Props : ReadProp(v, p)
  BY <1>1, <1>3 DEF ReadProp, CacheInv, TypeOK, ReadsFollowStorage, storageVars, cacheVars, Shown, Stored
<1>4. ASSUME NEW d \in Devices, ViewTo(v, d)
      PROVE  CacheInv'
  <2>1. LeftBehind(d, {v}) \subseteq Views
    BY DEF LeftBehind, CacheInv, TypeOK
  <2>. QED  BY <1>4, <2>1, RebuiltFollows DEF ViewTo, CacheInv, TypeOK, storageVars
<1>. QED  BY <1>2, <1>3, <1>4

LEMMA HoldKeepsCacheInv ==
  ASSUME CacheInv, NEW f \in Fields, Hold(f)
  PROVE  CacheInv'
BY DEF Hold, CacheInv, TypeOK, ReadsFollowStorage, storageVars, cacheVars, viewVars, Shown, Stored

\* Writing the first element of rows.
LEMMA WrittenRows ==
  ASSUME NEW rows \in Seq(Int), rows # <<>>, NEW x \in Int
  PROVE  [rows EXCEPT ![1] = x] \in Seq(Int)
<1>1. Len(rows) \in Nat /\ Len(rows) # 0
  BY EmptySeq, LenProperties
<1>. QED  BY <1>1, ExceptSeq

LEMMA WriteStoredKeepsCacheInv ==
  ASSUME CacheInv, NEW f \in Fields, NEW x \in Scalars, WriteStored(f, x)
  PROVE  CacheInv'
<1>. USE DEF WriteStored, viewVars
<1>. DEFINE key == <<f, "values">>
<1>1. values[f] \in Seq(Int) /\ values[f] # <<>> /\ x \in Int
  BY ScalarsAreNumbers DEF CacheInv, TypeOK
<1>2. values' = [values EXCEPT ![f] = [values[f] EXCEPT ![1] = x]]
  OBVIOUS
<1>3. values' \in [Fields -> Seq(Int)]
  BY <1>1, <1>2, WrittenRows DEF CacheInv, TypeOK
<1>4. spoiled' \subseteq Keys
  BY KeyParts DEF CacheInv, TypeOK
<1>5. TypeOK'
  BY <1>3, <1>4 DEF CacheInv, TypeOK
<1>6. ReadsFollowStorage'
  <2>. SUFFICES ASSUME cache_device # None, NEW k \in Keys \ spoiled'
                PROVE  cache'[k] # FreedView /\ Shown(k)' = Stored(k)'
    BY DEF ReadsFollowStorage, CacheInv
  <2>1. cache[k] # FreedView /\ Shown(k) = Stored(k) /\ cache' = cache
    BY DEF CacheInv, ReadsFollowStorage
  <2>2. CASE k = key
    <3>1. cache[k] = StoredView
      BY <2>2 DEF ReadsAsView
    <3>. QED  BY <2>1, <3>1 DEF Shown, StoredView
  <2>3. CASE k # key
    <3>1. k[2] = "values" => k[1] # f
      BY <2>3, KeyParts
    <3>2. Stored(k)' = Stored(k)
      BY <1>2, <3>1, KeyParts DEF Stored, CacheInv, TypeOK
    <3>. QED  BY <2>1, <3>2 DEF Shown
  <2>. QED  BY <2>2, <2>3
<1>. QED  BY <1>5, <1>6 DEF CacheInv

LEMMA WriteCopyKeepsCacheInv ==
  ASSUME CacheInv, NEW k \in Keys, NEW x \in Scalars, WriteCopy(k, x)
  PROVE  CacheInv'
<1>. USE DEF WriteCopy, storageVars, viewVars
<1>1. cache[k] \in TensorType /\ x \in Int
  BY ScalarsAreNumbers DEF CacheInv, TypeOK
<1>2. [cache[k].rows EXCEPT ![1] = x] \in Seq(Int)
  BY <1>1, WrittenRows DEF TensorType
<1>3. cache' = [cache EXCEPT ![k] = [cache[k] EXCEPT !.rows = [cache[k].rows EXCEPT ![1] = x]]]
  OBVIOUS
<1>4. [cache[k] EXCEPT !.rows = [cache[k].rows EXCEPT ![1] = x]] \in TensorType
  BY <1>1, <1>2 DEF TensorType
<1>5. TypeOK'
  BY <1>3, <1>4 DEF CacheInv, TypeOK
<1>6. \A l \in Keys \ spoiled' : cache'[l] = cache[l] /\ l \notin spoiled
  BY <1>3 DEF CacheInv, TypeOK
<1>7. ReadsFollowStorage'
  BY <1>6 DEF CacheInv, ReadsFollowStorage, Shown, Stored
<1>. QED  BY <1>5, <1>7 DEF CacheInv

LEMMA ReloadKeepsCacheInv ==
  ASSUME CacheInv, Reload
  PROVE  CacheInv'
BY TensorTypes DEF Reload, Uncached, storageVars, CacheInv, TypeOK, ReadsFollowStorage, NothingRead

LEMMA CacheStep == CacheInv /\ [Next]_vars => CacheInv'
<1>. SUFFICES ASSUME CacheInv, [Next]_vars PROVE CacheInv'
  OBVIOUS
<1>1. CASE \E s \in Assignments : SetFields(s)
  BY <1>1, SetFieldsKeepsCacheInv
<1>2. CASE \E s \in Assignments : SetFieldsRaises(s)
  BY <1>2, SetFieldsRaisesKeepsCacheInv
<1>3. CASE \E d \in Devices : To(d)
  BY <1>3, ToKeepsCacheInv
<1>4. CASE \E d \in Devices : ToRaisesOnAttribute(d) \/ ToRaisesOnField(d)
  BY <1>4, ToRaisesKeepsCacheInv
<1>5. CASE \E v \in Views : NewView(v)
  BY <1>5, ViewsKeepCacheInv
<1>6. CASE \E v \in Views, p \in Props : ReadProp(v, p)
  BY <1>6, ViewsKeepCacheInv
<1>7. CASE \E v \in Views, d \in Devices : ViewTo(v, d)
  BY <1>7, ViewsKeepCacheInv
<1>8. CASE \E f \in Fields : Hold(f)
  BY <1>8, HoldKeepsCacheInv
<1>9. CASE \E f \in Fields, x \in Scalars : WriteStored(f, x)
  BY <1>9, WriteStoredKeepsCacheInv
<1>10. CASE \E k \in Keys, x \in Scalars : WriteCopy(k, x)
  BY <1>10, WriteCopyKeepsCacheInv
<1>11. CASE Reload
  BY <1>11, ReloadKeepsCacheInv
<1>12. CASE UNCHANGED vars
  BY <1>12 DEF vars, storageVars, cacheVars, viewVars, CacheInv, TypeOK, ReadsFollowStorage, Shown, Stored
<1>. QED
  BY <1>1, <1>2, <1>3, <1>4, <1>5, <1>6, <1>7, <1>8, <1>9, <1>10, <1>11, <1>12 DEF Next

\* get_field returns what is stored, on the target device: for any fields,
\* values, devices and views, set_field(s), to() and in-place writes through
\* views keep the cached tensors in line with the storage, as far as
\* ReadsFollowStorage says they can.
THEOREM CacheFollowsStorage == Spec => []ReadsFollowStorage
<1>1. CacheInv => ReadsFollowStorage
  BY DEF CacheInv
<1>. QED  BY CacheInit, CacheStep, <1>1, PTL DEF Spec

-----------------------------------------------------------------------------
(* Devices of the views.                                                   *)

ViewInv == CacheInv /\ ViewsFollowDevice

\* After a move only views that have read nothing are not left behind.
LEMMA MovedViews ==
  ASSUME ViewInv, NEW d \in Devices, device' = d, NEW movers \in SUBSET Views,
         NEW v \in Views \ LeftBehind(d, movers), v \notin movers,
         NEW p \in Props
  PROVE  view_device[v][p] \in {None, Target'}
<1>1. Target' = d
  BY HostIsDevice DEF Target
<1>2. CASE d = Target /\ ~misplaced
  BY <1>1, <1>2 DEF LeftBehind, ViewInv, ViewsFollowDevice
<1>3. CASE ~(d = Target /\ ~misplaced)
  <2>1. view_device[v] = NothingRead
    BY <1>3 DEF LeftBehind, HasRead
  <2>. QED  BY <2>1 DEF NothingRead
<1>. QED  BY <1>2, <1>3

LEMMA ViewStep ==
  ASSUME ViewInv, CacheInv', [Next]_vars
  PROVE  ViewInv'
<1>. USE DEF ViewInv, ViewsFollowDevice
<1>1. CASE /\ UNCHANGED <<device, view_device, left_behind>>
  BY <1>1 DEF Target
<1>2. ASSUME NEW d \in Devices, device' = d, UNCHANGED view_device, left_behind' = LeftBehind(d, {})
      PROVE  ViewsFollowDevice'
  BY <1>2, MovedViews
<1>3. ASSUME NEW d \in Devices, To(d)
      PROVE  ViewInv'
  <2>1. CASE d = device
    BY <1>1, <1>3, <2>1 DEF To, cacheVars
  <2>2. CASE d # device
    BY <1>2, <1>3, <2>2 DEF To
  <2>. QED  BY <2>1, <2>2
<1>4. ASSUME NEW d \in Devices, ToRaisesOnAttribute(d) \/ ToRaisesOnField(d)
      PROVE  ViewInv'
  BY <1>2, <1>4 DEF ToRaisesOnAttribute, ToRaisesOnField
<1>5. ASSUME NEW v \in Views, NewView(v)
      PROVE  ViewInv'
  BY <1>5 DEF NewView, NothingRead, Target, CacheInv, TypeOK
<1>6. ASSUME NEW v \in Views, NEW p \in Props, ReadProp(v, p)
      PROVE  ViewInv'
  <2>1. misplaced \/ cache_device = None \/ cache_device = Target
    BY HostIsDevice DEF Target, CacheInv, TypeOK, ReadsFollowStorage
  <2>2. misplaced => v \in left_behind'
    BY <1>6 DEF ReadProp
  <2>3. Target' = Target /\ left_behind \subseteq left_behind'
    BY <1>6 DEF ReadProp, Target
  <2>4. \A w \in Views, q \in Props : w # v \/ q # p => view_device'[w][q] = view_device[w][q]
    BY <1>6 DEF ReadProp, CacheInv, TypeOK
  <2>5. ~misplaced => view_device'[v][p] = Target
    BY <1>6, <2>1 DEF ReadProp, CacheInv, TypeOK
  <2>. QED  BY <2>2, <2>3, <2>4, <2>5
<1>7. ASSUME NEW v \in Views, NEW d \in Devices, ViewTo(v, d)
      PROVE  ViewInv'
  <2>1. Target' = d
    BY <1>7, HostIsDevice DEF ViewTo, Target
  <2>2. \A p \in Props : view_device'[v][p] = d
    BY <1>7 DEF ViewTo, CacheInv, TypeOK
  <2>3. \A w \in Views : w # v => view_device'[w] = view_device[w]
    BY <1>7 DEF ViewTo, CacheInv, TypeOK
  <2>4. \A w \in Views \ LeftBehind(d, {v}) : w # v =>
          \A p \in Props : view_device[w][p] \in {None, Target'}
    BY <1>7, MovedViews DEF ViewTo
  <2>5. left_behind' = LeftBehind(d, {v})
    BY <1>7 DEF ViewTo
  <2>. QED  BY <2>1, <2>2, <2>3, <2>4, <2>5
<1>8. CASE Reload
  BY <1>8 DEF Reload, NothingRead
<1>9. CASE UNCHANGED vars
  BY <1>1, <1>9 DEF vars, viewVars
<1>10. CASE \/ \E s \in Assignments : SetFields(s) \/ SetFieldsRaises(s)
            \/ \E f \in Fields : Hold(f)
            \/ \E f \in Fields, x \in Scalars : WriteStored(f, x)
            \/ \E k \in Keys, x \in Scalars : WriteCopy(k, x)
  BY <1>1, <1>10 DEF SetFields, SetFieldsRaises, Hold, WriteStored, WriteCopy, viewVars
<1>. QED  BY <1>3, <1>4, <1>5, <1>6, <1>7, <1>8, <1>9, <1>10 DEF Next

\* For any number of views and devices, the tensors of a view never mix
\* devices unless ViewsFollowDevice excuses it: x_dict, edge_index_dict and the
\* others follow the encoding they were made from.
THEOREM ViewsStayOnDevice == Spec => []ViewsFollowDevice
<1>1. Init => ViewInv
  BY CacheInit DEF ViewInv, ViewsFollowDevice, Init, NothingRead
<1>2. ViewInv /\ [Next]_vars => ViewInv'
  BY CacheStep, ViewStep DEF ViewInv
<1>3. ViewInv => ViewsFollowDevice
  BY DEF ViewInv
<1>. QED  BY <1>1, <1>2, <1>3, PTL DEF Spec

\* Storage, cache and devices keep their types, whatever is assigned.
THEOREM TensorTypesHold == Spec => []TypeOK
<1>1. CacheInv => TypeOK
  BY DEF CacheInv
<1>. QED  BY CacheInit, CacheStep, <1>1, PTL DEF Spec
=============================================================================
