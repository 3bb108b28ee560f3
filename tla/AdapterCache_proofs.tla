------------------------- MODULE AdapterCache_proofs -------------------------
(***************************************************************************)
(* With one call inside the engine at a time, and problems loaded and      *)
(* dropped around it, every call encodes with the adapter of its problem   *)
(* and no adapter is built twice, however many problems share an address   *)
(* over time.                                                              *)
(***************************************************************************)
EXTENDS AdapterCache, FiniteSetTheorems, TLAPS

Inside(t) == pc[t] # "idle"

\* Calls come one at a time, and hold a problem.
CallInv ==
  /\ \A t, u \in Threads : Inside(t) /\ Inside(u) => t = u
  /\ \A t \in Threads : Inside(t) => problem[t] \in Problems
  /\ \A t \in Threads : ~Inside(t) => problem[t] = None
  /\ \A t \in Threads : pc[t] = "encode" => adapter[t] # None

\* Problems that exist have an address, and no two have the same.
AddressInv ==
  /\ \A p \in Problems : Alive(p) => Here(p) \in Addresses
  /\ \A p, q \in Problems : Alive(p) /\ Alive(q) /\ Here(p) = Here(q) => p = q

\* No two bindings own the same adapter, and none a destroyed one.
OwnerInv ==
  /\ \A a, b \in Addresses :
       bindings[a].adapter # None /\ bindings[a].adapter = bindings[b].adapter => a = b
  /\ \A a \in Addresses : bindings[a].adapter # None => built_from[bindings[a].adapter] # None

Complete(a) ==
  bindings[a].adapter # None /\ built_from[bindings[a].adapter] = bindings[a].problem

\* A binding is of a problem that was loaded at its address, and its adapter
\* was built from that problem unless a call is about to replace it.
BindingInv ==
  \A a \in Addresses : bindings[a].problem # None =>
    /\ Here(bindings[a].problem) = a
    /\ Complete(a) \/ \E t \in Threads : pc[t] = "build" /\ Key(t) = a

\* Where a call stands.
StepInv ==
  \A t \in Threads :
    /\ pc[t] \in {"bind", "build"} => builds[problem[t]] = 0
    /\ pc[t] \in {"build", "take", "encode"} => bindings[Key(t)].problem = problem[t]
    /\ pc[t] = "encode" => adapter[t] = bindings[Key(t)].adapter

\* A problem that exists and has been built for is the one its binding names.
BuildInv ==
  \A p \in Problems :
    /\ builds[p] \in {0, 1}
    /\ builds[p] = 1 => Here(p) # None
    /\ builds[p] = 1 /\ Alive(p) => bindings[Here(p)].problem = p /\ bindings[Here(p)].adapter # None

Inv == TypeOK /\ CallInv /\ AddressInv /\ OwnerInv /\ BindingInv /\ StepInv /\ BuildInv

LEMMA InvInit == Init => Inv
<1>. SUFFICES ASSUME Init PROVE Inv
  OBVIOUS
<1>. USE DEF Init
<1>1. \A p \in Problems : ~Alive(p)
  BY NoneIsNone DEF Alive
<1>2. TypeOK
  BY DEF TypeOK, NoBinding
<1>3. CallInv /\ StepInv
  BY DEF CallInv, StepInv, Inside
<1>4. AddressInv /\ BuildInv
  BY <1>1 DEF AddressInv, BuildInv
<1>5. OwnerInv /\ BindingInv
  BY DEF OwnerInv, BindingInv, NoBinding
<1>. QED  BY <1>2, <1>3, <1>4, <1>5 DEF Inv

LEMMA LoadKeepsInv ==
  ASSUME Inv, NEW p \in Problems, NEW a \in Addresses, Load(p, a)
  PROVE  Inv'
<1>. USE DEF Inv, Load, cacheVars, callVars
<1>1. ~Alive(p)
  BY NoneIsNone DEF AddressInv
<1>2. \A q \in Problems : q # p => (Alive(q)' <=> Alive(q)) /\ Here(q)' = Here(q)
  BY DEF Alive, Here, TypeOK
<1>3. Here(p)' = a /\ Alive(p)'
  BY DEF Alive, Here, TypeOK
<1>4. \A t \in Threads : problem[t] # p
  BY <1>1 DEF Alive
<1>5. \A b \in Addresses : bindings[b].problem # p
  BY NoneIsNone DEF BindingInv, TypeOK
<1>6. \A t \in Threads : Inside(t) => Key(t)' = Key(t)
  BY <1>2, <1>4 DEF CallInv, Inside, Key
<1>7. TypeOK'
  BY DEF TypeOK
<1>8. CallInv' /\ OwnerInv'
  BY DEF CallInv, OwnerInv, Inside
<1>9. AddressInv'
  BY <1>2, <1>3 DEF AddressInv, Here
<1>10. BindingInv'
  <2>. SUFFICES ASSUME NEW b \in Addresses, bindings[b].problem # None
                PROVE  /\ Here(bindings[b].problem)' = b
                       /\ Complete(b)' \/ \E t \in Threads : pc'[t] = "build" /\ Key(t)' = b
    BY DEF BindingInv
  <2>1. Here(bindings[b].problem)' = b
    BY <1>2, <1>5 DEF BindingInv, TypeOK
  <2>2. Complete(b)' \/ \E t \in Threads : pc'[t] = "build" /\ Key(t)' = b
    BY <1>6 DEF BindingInv, Complete, Inside
  <2>. QED  BY <2>1, <2>2
<1>11. StepInv'
  BY <1>6 DEF StepInv, Inside
<1>12. BuildInv'
  <2>1. builds[p] # 1
    BY DEF BuildInv
  <2>. QED  BY <1>2, <1>3, <2>1, NoneIsNone DEF BuildInv
<1>. QED  BY <1>7, <1>8, <1>9, <1>10, <1>11, <1>12

LEMMA DropKeepsInv ==
  ASSUME Inv, NEW p \in Problems, Drop(p)
  PROVE  Inv'
<1>. USE DEF Inv, Drop, cacheVars, callVars
<1>1. \A q \in Problems : Alive(q)' => Alive(q)
  BY DEF Alive
<1>2. TypeOK'
  BY DEF TypeOK
<1>3. CallInv' /\ OwnerInv' /\ BindingInv' /\ StepInv'
  BY DEF CallInv, OwnerInv, BindingInv, StepInv, Inside, Here, Key, Complete
<1>4. AddressInv' /\ BuildInv'
  BY <1>1 DEF AddressInv, BuildInv, Here
<1>. QED  BY <1>2, <1>3, <1>4

LEMMA CallKeepsInv ==
  ASSUME Inv, MaxInside = 1, IsFiniteSet(Threads),
         NEW t \in Threads, NEW p \in Problems, Call(t, p)
  PROVE  Inv'
<1>. USE DEF Inv, Call, cacheVars
<1>1. \A u \in Threads : ~Inside(u)
  <2>. DEFINE S == {u \in Threads : pc[u] # "idle"}
  <2>1. IsFiniteSet(S) /\ Cardinality(S) \in Nat /\ Cardinality(S) < 1
    BY FS_Subset, FS_CardinalityType
  <2>2. S = {}
    BY <2>1, FS_EmptySet
  <2>. QED  BY <2>2 DEF Inside
<1>2. \A q \in Problems : Alive(q)' => Alive(q)
  BY DEF Alive, TypeOK
<1>3. TypeOK'
  BY DEF TypeOK
<1>4. CallInv'
  BY <1>1, NoneIsNone DEF CallInv, Inside, TypeOK
<1>5. AddressInv' /\ BuildInv'
  BY <1>2 DEF AddressInv, BuildInv, Here
<1>6. OwnerInv' /\ BindingInv' /\ StepInv'
  BY <1>1 DEF OwnerInv, BindingInv, StepInv, Inside, Here, Complete, TypeOK
<1>. QED  BY <1>3, <1>4, <1>5, <1>6

\* What the steps of a call do not touch.
LEMMA CallSteps ==
  ASSUME Inv, NEW t \in Threads, Inside(t), UNCHANGED <<address, owned>>
  PROVE  /\ Key(t) \in Addresses /\ problem[t] \in Problems /\ Alive(problem[t])
         /\ \A u \in Threads : u # t => pc[u] = "idle" /\ problem[u] = None
         /\ \A q \in Problems : Here(q)' = Here(q)
         /\ problem' = problem => (\A q \in Problems : Alive(q)' <=> Alive(q)) /\ AddressInv'
<1>1. problem[t] \in Problems /\ Alive(problem[t])
  BY DEF Inv, CallInv, Alive
<1>2. Key(t) \in Addresses
  BY <1>1 DEF Inv, AddressInv, Key
<1>3. \A u \in Threads : u # t => pc[u] = "idle" /\ problem[u] = None
  BY DEF Inv, CallInv, Inside
<1>4. ASSUME problem' = problem
      PROVE  (\A q \in Problems : Alive(q)' <=> Alive(q)) /\ AddressInv'
  BY <1>4 DEF Inv, AddressInv, Alive, Here
<1>. QED  BY <1>1, <1>2, <1>3, <1>4 DEF Here

LEMMA LookupKeepsInv ==
  ASSUME Inv, NEW t \in Threads, Lookup(t)
  PROVE  Inv'
<1>. USE DEF Inv, Lookup, cacheVars
<1>1. Inside(t)
  BY DEF Inside
<1>. DEFINE p == problem[t]
<1>2. TypeOK' /\ CallInv'
  BY DEF TypeOK, CallInv, Inside
<1>3. AddressInv' /\ BuildInv' /\ OwnerInv'
  BY <1>1, CallSteps DEF BuildInv, OwnerInv
<1>4. BindingInv'
  BY DEF BindingInv, Here, Key, Complete, TypeOK
<1>5. ASSUME Fresh(Key(t))
      PROVE  bindings[Key(t)].problem = p
  BY <1>1, <1>5, CallSteps DEF Fresh, Names, AddressInv, Key, TypeOK
<1>6. ASSUME ~Fresh(Key(t))
      PROVE  builds[p] = 0
  BY <1>1, <1>6, NoneIsNone, CallSteps DEF Fresh, Names, Key, BuildInv
<1>7. StepInv'
  BY <1>1, <1>5, <1>6, CallSteps DEF StepInv, Key, Here, TypeOK
<1>. QED  BY <1>2, <1>3, <1>4, <1>7

LEMMA BindKeepsInv ==
  ASSUME Inv, NEW t \in Threads, Bind(t)
  PROVE  Inv'
<1>. USE DEF Inv, Bind
<1>. DEFINE p == problem[t]
            k == Key(t)
<1>1. Inside(t)
  BY DEF Inside
<1>2. /\ k \in Addresses /\ p \in Problems /\ Alive(p) /\ Here(p) = k
      /\ k' = k /\ p' = p
  BY <1>1, CallSteps DEF Key, Here
<1>3. /\ bindings'[k].problem = p /\ bindings'[k].adapter = bindings[k].adapter
      /\ \A a \in Addresses : a # k => bindings'[a] = bindings[a]
      /\ \A a \in Addresses : bindings'[a].adapter = bindings[a].adapter
  BY <1>2 DEF TypeOK
<1>4. pc' = [pc EXCEPT ![t] = "build"] /\ pc'[t] = "build"
  BY DEF TypeOK
<1>5. TypeOK'
  BY <1>2, <1>4 DEF TypeOK
<1>6. CallInv'
  BY <1>4 DEF CallInv, Inside, TypeOK
<1>7. AddressInv' /\ \A q \in Problems : Alive(q)' <=> Alive(q)
  BY <1>1, CallSteps
<1>8. OwnerInv'
  BY <1>3 DEF OwnerInv
<1>9. BindingInv'
  BY <1>1, <1>2, <1>3, <1>4, CallSteps DEF BindingInv, Here, Complete
<1>10. StepInv'
  BY <1>1, <1>2, <1>3, <1>4, CallSteps DEF StepInv
<1>11. BuildInv'
  <2>. SUFFICES ASSUME NEW q \in Problems, builds[q] = 1, Alive(q)
                PROVE  bindings'[Here(q)].problem = q /\ bindings'[Here(q)].adapter # None
    BY <1>7 DEF BuildInv, Here
  <2>1. q # p
    BY DEF StepInv
  <2>2. Here(q) # k /\ Here(q) \in Addresses
    BY <1>2, <2>1 DEF AddressInv
  <2>. QED  BY <1>3, <2>2 DEF BuildInv
<1>. QED  BY <1>5, <1>6, <1>7, <1>8, <1>9, <1>10, <1>11

LEMMA BuildKeepsInv ==
  ASSUME Inv, NEW t \in Threads, Build(t)
  PROVE  Inv'
<1>. USE DEF Inv, Build
<1>. DEFINE p == problem[t]
            k == Key(t)
<1>0. PICK new \in Unused :
        /\ built_from' = [Destroyed(bindings[k].adapter) EXCEPT ![new] = p]
        /\ bindings' = [bindings EXCEPT ![k].adapter = new]
  OBVIOUS
<1>1. Inside(t)
  BY DEF Inside
<1>2. /\ k \in Addresses /\ p \in Problems /\ Alive(p) /\ Here(p) = k
      /\ k' = k /\ p' = p /\ p # None
  BY <1>1, CallSteps, NoneIsNone DEF Key, Here
<1>3. new \in Adapters /\ built_from[new] = None /\ new # None
  BY <1>0, NoneIsNone DEF Unused
<1>4. /\ bindings'[k].adapter = new /\ bindings'[k].problem = p
      /\ \A a \in Addresses : a # k => bindings'[a] = bindings[a]
      /\ \A a \in Addresses : bindings'[a].problem = bindings[a].problem
  BY <1>0, <1>2 DEF TypeOK, StepInv
<1>5. /\ built_from' \in [Adapters -> Problems \cup {None}]
      /\ built_from'[new] = p
      /\ \A i \in Adapters : i # new /\ i # bindings[k].adapter => built_from'[i] = built_from[i]
  BY <1>0, <1>2, <1>3 DEF TypeOK, Destroyed
<1>6. \A a \in Addresses : a # k /\ bindings[a].adapter # None =>
        bindings[a].adapter # new /\ built_from'[bindings[a].adapter] = built_from[bindings[a].adapter]
  BY <1>2, <1>3, <1>5 DEF OwnerInv, TypeOK
<1>7. pc' = [pc EXCEPT ![t] = "take"] /\ pc'[t] = "take"
  BY DEF TypeOK
<1>8. builds[p] = 0 /\ builds' = [builds EXCEPT ![p] = 1]
  <2>1. builds[p] = 0
    BY DEF StepInv
  <2>2. builds' = [builds EXCEPT ![p] = builds[p] + 1]
    OBVIOUS
  <2>. QED  BY <2>1, <2>2
<1>9. TypeOK'
  BY <1>0, <1>2, <1>3, <1>5, <1>7, <1>8 DEF TypeOK
<1>10. CallInv'
  BY <1>7 DEF CallInv, Inside, TypeOK
<1>11. AddressInv' /\ \A q \in Problems : Alive(q)' <=> Alive(q)
  BY <1>1, CallSteps
<1>12. OwnerInv'
  BY <1>2, <1>4, <1>5, <1>6 DEF OwnerInv
<1>13. BindingInv'
  <2>. SUFFICES ASSUME NEW a \in Addresses, bindings'[a].problem # None
                PROVE  Here(bindings[a].problem)' = a /\ Complete(a)'
    BY DEF BindingInv
  <2>1. Here(bindings[a].problem)' = a
    BY <1>4 DEF BindingInv, Here
  <2>2. CASE a = k
    BY <1>3, <1>4, <1>5, <2>1, <2>2 DEF Complete
  <2>3. CASE a # k
    <3>1. Complete(a)
      BY <1>1, <1>4, <2>3, CallSteps DEF BindingInv
    <3>. QED  BY <1>4, <1>6, <2>1, <2>3, <3>1 DEF Complete
  <2>. QED  BY <2>2, <2>3
<1>14. StepInv'
  BY <1>1, <1>2, <1>4, <1>7, CallSteps DEF StepInv
<1>15. BuildInv'
  <2>. SUFFICES ASSUME NEW q \in Problems
                PROVE  /\ builds'[q] \in {0, 1}
                       /\ builds'[q] = 1 => Here(q) # None
                       /\ builds'[q] = 1 /\ Alive(q) =>
                            bindings'[Here(q)].problem = q /\ bindings'[Here(q)].adapter # None
    BY <1>11 DEF BuildInv, Here
  <2>1. CASE q = p
    BY <1>2, <1>3, <1>4, <1>8, <2>1, NoneIsNone DEF TypeOK
  <2>2. CASE q # p
    <3>1. builds'[q] = builds[q]
      BY <1>8, <2>2 DEF TypeOK
    <3>2. Alive(q) => Here(q) # k /\ Here(q) \in Addresses
      BY <1>2, <2>2 DEF AddressInv
    <3>. QED  BY <1>4, <3>1, <3>2 DEF BuildInv
  <2>. QED  BY <2>1, <2>2
<1>. QED  BY <1>9, <1>10, <1>11, <1>12, <1>13, <1>14, <1>15

LEMMA TakeKeepsInv ==
  ASSUME Inv, NEW t \in Threads, Take(t)
  PROVE  Inv'
<1>. USE DEF Inv, Take, cacheVars
<1>1. Inside(t)
  BY DEF Inside
<1>2. Key(t) \in Addresses /\ bindings[Key(t)].problem = problem[t] /\ problem[t] # None
  BY <1>1, CallSteps, NoneIsNone DEF StepInv
<1>3. Complete(Key(t))
  BY <1>1, <1>2, CallSteps DEF BindingInv
<1>4. TypeOK'
  BY <1>2 DEF TypeOK
<1>5. CallInv'
  BY <1>3 DEF CallInv, Inside, TypeOK, Complete
<1>6. AddressInv' /\ BuildInv' /\ OwnerInv'
  BY <1>1, CallSteps DEF BuildInv, OwnerInv
<1>7. BindingInv'
  BY DEF BindingInv, Here, Key, Complete, TypeOK
<1>8. StepInv'
  BY <1>1, <1>2, CallSteps DEF StepInv, Key, Here, TypeOK
<1>. QED  BY <1>4, <1>5, <1>6, <1>7, <1>8

LEMMA ReturnKeepsInv ==
  ASSUME Inv, NEW t \in Threads, Return(t)
  PROVE  Inv'
<1>. USE DEF Inv, Return, cacheVars
<1>1. \A q \in Problems : Alive(q)' => Alive(q)
  BY NoneIsNone DEF Alive, TypeOK
<1>2. TypeOK'
  BY DEF TypeOK
<1>3. CallInv'
  BY DEF CallInv, Inside, TypeOK
<1>4. AddressInv' /\ BuildInv' /\ OwnerInv'
  BY <1>1 DEF AddressInv, BuildInv, OwnerInv, Here
<1>5. BindingInv' /\ StepInv'
  BY DEF BindingInv, StepInv, Here, Key, Complete, TypeOK
<1>. QED  BY <1>2, <1>3, <1>4, <1>5

LEMMA InvStep ==
  ASSUME Inv, MaxInside = 1, IsFiniteSet(Threads), [Next]_vars
  PROVE  Inv'
<1>1. CASE \E p \in Problems, a \in Addresses : Load(p, a)
  BY <1>1, LoadKeepsInv
<1>2. CASE \E p \in Problems : Drop(p)
  BY <1>2, DropKeepsInv
<1>3. CASE \E t \in Threads, p \in Problems : Call(t, p)
  BY <1>3, CallKeepsInv
<1>4. CASE \E t \in Threads : Lookup(t)
  BY <1>4, LookupKeepsInv
<1>5. CASE \E t \in Threads : Bind(t)
  BY <1>5, BindKeepsInv
<1>6. CASE \E t \in Threads : Build(t)
  BY <1>6, BuildKeepsInv
<1>7. CASE \E t \in Threads : Take(t)
  BY <1>7, TakeKeepsInv
<1>8. CASE \E t \in Threads : Return(t)
  BY <1>8, ReturnKeepsInv
<1>9. CASE UNCHANGED vars
  BY <1>9 DEF vars, cacheVars, callVars, Inv, TypeOK, CallInv, AddressInv, OwnerInv, BindingInv,
              StepInv, BuildInv, Inside, Alive, Here, Key, Complete
<1>. QED  BY <1>1, <1>2, <1>3, <1>4, <1>5, <1>6, <1>7, <1>8, <1>9 DEF Next

LEMMA InvImplies == Inv => EncodesWithItsAdapter /\ BuiltOnce
<1>. SUFFICES ASSUME Inv PROVE EncodesWithItsAdapter /\ BuiltOnce
  OBVIOUS
<1>1. ASSUME NEW t \in Threads, pc[t] = "encode"
      PROVE  adapter[t] # None /\ built_from[adapter[t]] = problem[t]
  <2>1. problem[t] \in Problems /\ Key(t) \in Addresses
    BY <1>1, CallSteps DEF Inv, CallInv, AddressInv, Inside, Key, Alive
  <2>2. \A u \in Threads : pc[u] # "build"
    BY <1>1 DEF Inv, CallInv, Inside
  <2>3. Complete(Key(t))
    BY <1>1, <2>1, <2>2, NoneIsNone DEF Inv, BindingInv, StepInv
  <2>. QED  BY <1>1, <2>3 DEF Inv, StepInv, Complete
<1>2. \A p \in Problems : builds[p] <= 1
  BY DEF Inv, BuildInv
<1>. QED  BY <1>1, <1>2 DEF EncodesWithItsAdapter, BuiltOnce

\* For any problems, addresses and threads, if only one call at a time is
\* inside the engine, every append and update encodes through a live adapter of
\* its own problem: the weak pointer of a binding makes recycled addresses safe
\* (problem_adapter_cache.hpp, Binding).
THEOREM CallsEncodeWithTheirAdapter ==
  ASSUME MaxInside = 1, IsFiniteSet(Threads)
  PROVE  Spec => []EncodesWithItsAdapter
<1>1. Inv /\ [Next]_vars => Inv'
  BY InvStep
<1>. QED  BY InvInit, <1>1, InvImplies, PTL DEF Spec

\* Under the same condition a problem that exists is never built for again
\* (problem_adapter_cache.hpp: a stream "neither rebuilds them").
THEOREM AdaptersAreBuiltOnce ==
  ASSUME MaxInside = 1, IsFiniteSet(Threads)
  PROVE  Spec => []BuiltOnce
<1>1. Inv /\ [Next]_vars => Inv'
  BY InvStep
<1>. QED  BY InvInit, <1>1, InvImplies, PTL DEF Spec

-----------------------------------------------------------------------------
(* Types, for any number of threads inside the engine.                     *)

\* However many calls run at once, a call has a problem that exists, and with it
\* an address to look up.
CalledInv ==
  /\ TypeOK
  /\ \A p \in Problems : Alive(p) => Here(p) \in Addresses
  /\ \A t \in Threads : Inside(t) => problem[t] \in Problems

\* Each step keeps it, whoever else is inside the engine.
LEMMA NextCalledInv == CalledInv /\ [Next]_vars => CalledInv'
<1>. SUFFICES ASSUME CalledInv, [Next]_vars PROVE CalledInv'
  OBVIOUS
<1>. USE DEF CalledInv, TypeOK, cacheVars, callVars
<1>1. \A t \in Threads : Inside(t) => Key(t) \in Addresses
  BY DEF Key, Alive
<1>2. ASSUME NEW p \in Problems, NEW a \in Addresses, Load(p, a) PROVE CalledInv'
  BY <1>2 DEF Load, Alive, Here, Inside
<1>3. ASSUME NEW p \in Problems, Drop(p) PROVE CalledInv'
  BY <1>3 DEF Drop, Alive, Here, Inside
<1>4. ASSUME NEW t \in Threads, NEW p \in Problems, Call(t, p) PROVE CalledInv'
  BY <1>4, NoneIsNone DEF Call, Alive, Here, Inside
<1>5. ASSUME NEW t \in Threads, Lookup(t) PROVE CalledInv'
  BY <1>5 DEF Lookup, Alive, Here, Inside
<1>6. ASSUME NEW t \in Threads, Bind(t) PROVE CalledInv'
  <2>1. Key(t) \in Addresses /\ problem[t] \in Problems
    BY <1>1, <1>6 DEF Bind, Inside
  <2>2. TypeOK'
    BY <1>6, <2>1 DEF Bind
  <2>. QED  BY <1>6, <2>2 DEF Bind, Alive, Here, Inside
<1>7. ASSUME NEW t \in Threads, Build(t) PROVE CalledInv'
  <2>1. Key(t) \in Addresses /\ problem[t] \in Problems
    BY <1>1, <1>7 DEF Build, Inside
  <2>2. PICK new \in Adapters :
          /\ built_from' = [Destroyed(bindings[Key(t)].adapter) EXCEPT ![new] = problem[t]]
          /\ bindings' = [bindings EXCEPT ![Key(t)].adapter = new]
    BY <1>7 DEF Build, Unused
  <2>3. Destroyed(bindings[Key(t)].adapter) \in [Adapters -> Problems \cup {None}]
    BY DEF Destroyed
  <2>4. built_from' \in [Adapters -> Problems \cup {None}]
    BY <2>1, <2>2, <2>3
  <2>5. bindings' \in [Addresses -> [problem : Problems \cup {None}, adapter : Adapters \cup {None}]]
    BY <2>1, <2>2
  <2>6. builds' \in [Problems -> Nat] /\ pc' = [pc EXCEPT ![t] = "take"]
        /\ UNCHANGED <<address, owned, problem, adapter>>
    BY <1>7, <2>1 DEF Build
  <2>7. \A u \in Threads : Inside(u)' <=> Inside(u)
    BY <1>7, <2>6 DEF Build, Inside
  <2>. QED  BY <2>4, <2>5, <2>6, <2>7 DEF Alive, Here
<1>8. ASSUME NEW t \in Threads, Take(t) PROVE CalledInv'
  <2>1. Key(t) \in Addresses
    BY <1>1, <1>8 DEF Take, Inside
  <2>. QED  BY <1>8, <2>1 DEF Take, Alive, Here, Inside
<1>9. ASSUME NEW t \in Threads, Return(t) PROVE CalledInv'
  BY <1>9, NoneIsNone DEF Return, Alive, Here, Inside
<1>10. CASE UNCHANGED vars
  BY <1>10 DEF vars, Alive, Here, Inside
<1>. QED  BY <1>2, <1>3, <1>4, <1>5, <1>6, <1>7, <1>8, <1>9, <1>10 DEF Next

\* With any number of calls inside the engine at once, bindings, adapters and
\* calls keep their types: a call never looks an adapter up under no address.
THEOREM CallsAreTyped == Spec => []TypeOK
<1>1. Init => CalledInv
  BY NoneIsNone DEF Init, CalledInv, TypeOK, NoBinding, Alive, Inside
<1>2. CalledInv => TypeOK
  BY DEF CalledInv
<1>. QED  BY <1>1, <1>2, NextCalledInv, PTL DEF Spec
=============================================================================
