----------------------------- MODULE AdapterCache -----------------------------
(***************************************************************************)
(* ProblemAdapterCache: one SemanticProblemAdapter per problem, kept under *)
(* the raw address of the problem by an engine that all streams of an      *)
(* encoder share.  append and update of a stream release the interpreter   *)
(* lock, so other threads run between the statements of adapter_for:       *)
(* Python ones, which load and drop problems, and other appends.           *)
(*                                                                         *)
(* A call holds its state, and with it the problem.  The address of a      *)
(* problem nobody holds may go to the next one.  What an adapter contains  *)
(* is abstracted to the problem it was built from; the map's own lookup    *)
(* and insertion are taken as atomic.                                      *)
(***************************************************************************)
EXTENDS Integers, FiniteSets

CONSTANTS
  Problems, Addresses,
  Threads, MaxInside,   \* threads that call the engine; how many at a time
  Adapters,             \* the memory of adapters
  None

\* One adapter is built before the one it replaces is destroyed.
ASSUME AdaptersSuffice ==
  /\ IsFiniteSet(Addresses) /\ IsFiniteSet(Adapters)
  /\ Cardinality(Adapters) > Cardinality(Addresses)
ASSUME NoneIsNone == None \notin Problems \cup Addresses \cup Threads \cup Adapters

VARIABLES
  address,    \* [Problems -> where it was loaded, None before]
  owned,      \* problems that Python code holds
  bindings,   \* bindings_: [Addresses -> [problem, adapter]]
  built_from, \* [Adapters -> its problem, None when destroyed]
  pc,         \* [Threads -> step of the call]
  problem,    \* [Threads -> problem of the state of the call]
  adapter,    \* [Threads -> the adapter that adapter_for returned]
  builds      \* [Problems -> number of adapters built for it]

callVars == <<pc, problem, adapter>>
cacheVars == <<bindings, built_from, builds>>
vars == <<address, owned, cacheVars, callVars>>

NoBinding == [problem |-> None, adapter |-> None]

Alive(p) == p \in owned \/ \E t \in Threads : problem[t] = p
Here(p) == address[p]
Key(t) == Here(problem[t])

Init ==
  /\ address = [p \in Problems |-> None] /\ owned = {}
  /\ bindings = [a \in Addresses |-> NoBinding]
  /\ built_from = [i \in Adapters |-> None]
  /\ pc = [t \in Threads |-> "idle"]
  /\ problem = [t \in Threads |-> None] /\ adapter = [t \in Threads |-> None]
  /\ builds = [p \in Problems |-> 0]

-----------------------------------------------------------------------------
(* Python code: what the engine does not see.                              *)

Load(p, a) ==
  /\ Here(p) = None
  /\ \A q \in Problems : Here(q) = a => ~Alive(q)
  /\ address' = [address EXCEPT ![p] = a]
  /\ owned' = owned \cup {p}
  /\ UNCHANGED <<cacheVars, callVars>>

Drop(p) ==
  /\ p \in owned
  /\ owned' = owned \ {p}
  /\ UNCHANGED <<address, cacheVars, callVars>>

Call(t, p) ==
  /\ pc[t] = "idle" /\ p \in owned
  /\ Cardinality({u \in Threads : pc[u] # "idle"}) < MaxInside
  /\ pc' = [pc EXCEPT ![t] = "lookup"]
  /\ problem' = [problem EXCEPT ![t] = p]
  /\ UNCHANGED <<address, owned, cacheVars, adapter>>

-----------------------------------------------------------------------------
(* adapter_for                                                             *)

\* The binding has an adapter, and the weak pointer still leads to its key.
Names(b, a) == b.problem # None /\ Alive(b.problem) /\ Here(b.problem) = a

(* Mutant: without the weak pointer. *)
FreshByKey(a) == bindings[a].adapter # None

Fresh(a) == bindings[a].adapter # None /\ Names(bindings[a], a)

Lookup(t) ==
  /\ pc[t] = "lookup"
  /\ pc' = [pc EXCEPT ![t] = IF Fresh(Key(t)) THEN "take" ELSE "bind"]
  /\ UNCHANGED <<address, owned, cacheVars, problem, adapter>>

(* Mutant: the binding never learns its problem. *)
BindNothing(t) ==
  /\ pc[t] = "bind"
  /\ pc' = [pc EXCEPT ![t] = "build"]
  /\ UNCHANGED <<address, owned, cacheVars, problem, adapter>>

Bind(t) ==
  /\ pc[t] = "bind"
  /\ bindings' = [bindings EXCEPT ![Key(t)].problem = problem[t]]
  /\ pc' = [pc EXCEPT ![t] = "build"]
  /\ UNCHANGED <<address, owned, built_from, builds, problem, adapter>>

\* Where make_unique may put an adapter.
Unused == {i \in Adapters : built_from[i] = None}
Destroyed(i) == IF i = None THEN built_from ELSE [built_from EXCEPT ![i] = None]

Build(t) ==
  /\ pc[t] = "build"
  /\ \E new \in Unused :
       /\ built_from' = [Destroyed(bindings[Key(t)].adapter) EXCEPT ![new] = problem[t]]
       /\ bindings' = [bindings EXCEPT ![Key(t)].adapter = new]
  /\ builds' = [builds EXCEPT ![problem[t]] = @ + 1]
  /\ pc' = [pc EXCEPT ![t] = "take"]
  /\ UNCHANGED <<address, owned, problem, adapter>>

Take(t) ==
  /\ pc[t] = "take"
  /\ adapter' = [adapter EXCEPT ![t] = bindings[Key(t)].adapter]
  /\ pc' = [pc EXCEPT ![t] = "encode"]
  /\ UNCHANGED <<address, owned, cacheVars, problem>>

\* The state is encoded through the adapter, and the call returns.
Return(t) ==
  /\ pc[t] = "encode"
  /\ pc' = [pc EXCEPT ![t] = "idle"]
  /\ problem' = [problem EXCEPT ![t] = None]
  /\ adapter' = [adapter EXCEPT ![t] = None]
  /\ UNCHANGED <<address, owned, cacheVars>>

Next ==
  \/ \E p \in Problems, a \in Addresses : Load(p, a)
  \/ \E p \in Problems : Drop(p)
  \/ \E t \in Threads, p \in Problems : Call(t, p)
  \/ \E t \in Threads : Lookup(t)
  \/ \E t \in Threads : Bind(t)
  \/ \E t \in Threads : Build(t)
  \/ \E t \in Threads : Take(t)
  \/ \E t \in Threads : Return(t)

Spec == Init /\ [][Next]_vars

-----------------------------------------------------------------------------
\* Every variable has the type its declaration gives it.
TypeOK ==
  /\ address \in [Problems -> Addresses \cup {None}] /\ owned \subseteq Problems
  /\ bindings \in [Addresses -> [problem : Problems \cup {None}, adapter : Adapters \cup {None}]]
  /\ built_from \in [Adapters -> Problems \cup {None}]
  /\ pc \in [Threads -> {"idle", "lookup", "bind", "build", "take", "encode"}]
  /\ problem \in [Threads -> Problems \cup {None}]
  /\ adapter \in [Threads -> Adapters \cup {None}]
  /\ builds \in [Problems -> Nat]

\* A call encodes through an adapter that exists and was built from the problem
\* of its state: not through one of a dropped problem whose address the new one
\* was given, and not through one that a later call replaced.
EncodesWithItsAdapter ==
  \A t \in Threads : pc[t] = "encode" =>
    adapter[t] # None /\ built_from[adapter[t]] = problem[t]

\* "Caches one per problem so a stream of states from several instances neither
\* rebuilds them": as long as a problem exists its adapter is built once.
BuiltOnce == \A p \in Problems : builds[p] <= 1
=============================================================================
