---------------------------- MODULE PlanningInputs ----------------------------
(***************************************************************************)
(* What every encoder of a planning state is given, and the two forms it   *)
(* comes in.  The owned form is SemanticFlatRelationInput: each lane as a  *)
(* sequence of its own.  The other is ViewPreparation: the backend's views *)
(* are read once, atoms and actions are kept in pools, each identity once  *)
(* and in the order of first use, and the lanes point into the pools.      *)
(* Encoders read either through its lanes (OwnedLanes, ViewLanes).         *)
(***************************************************************************)
EXTENDS IdOrder, SequencesExt

CONSTANTS Predicates,   \* predicate names of the domain
          Category,     \* their category
          Arity,        \* and arity
          Schemas,      \* action schema names
          SchemaArity,
          Unlimited     \* history_max_steps is not given

Categories == <<"static", "fluent", "derived">>

ASSUME SchemaAssumption ==
  /\ Category \in [Predicates -> ToSet(Categories)]
  /\ Arity \in [Predicates -> Nat]
  /\ SchemaArity \in [Schemas -> Nat]

(***************************************************************************)
(* Atoms, literals and ground actions.                                     *)
(***************************************************************************)
Atom(p, arguments) == [predicate |-> p, arguments |-> arguments]

Literal(atom, positive) == [atom |-> atom, positive |-> positive]

GroundAction(schema, arguments) == [action |-> schema, arguments |-> arguments]

\* The elements of a set in some order, always the same.
Ordered(S) == FoldSet(LAMBDA x, before : Append(before, x), <<>>, S)

CategoryOf(atom) == Category[atom.predicate]

Nullary(atom) == atom.arguments = <<>>

Magnitude(n) == IF n < 0 THEN -n ELSE n

(***************************************************************************)
(* The owned form: objects, static facts and dynamic facts as sets, goals  *)
(* and subgoal layers as sequences of literals (layers[1] are the goals),  *)
(* actions, history entries [dt, literals], and how far back they count.   *)
(* Goals that are not given are those of the problem.                      *)
(***************************************************************************)
IsAtom(atom) == atom = Atom(atom.predicate, atom.arguments) /\ IsVector(atom.arguments)

IsLiteral(literal) ==
  /\ literal = Literal(literal.atom, literal.positive)
  /\ IsAtom(literal.atom) /\ literal.positive \in BOOLEAN

AreLiterals(literals) == IsVector(literals) /\ \A literal \in ToSet(literals) : IsLiteral(literal)

AreActions(actions) ==
  IsVector(actions) /\ \A action \in ToSet(actions) : IsVector(action.arguments)

IsEntry(entry) ==
  /\ entry = [dt |-> entry.dt, literals |-> entry.literals]
  /\ entry.dt \in Int /\ AreLiterals(entry.literals)

IsHistory(history) == IsVector(history) /\ \A entry \in ToSet(history) : IsEntry(entry)

AreFacts(atoms) == IsFiniteSet(atoms) /\ \A atom \in atoms : IsAtom(atom)

AreLayers(layers) ==
  /\ IsVector(layers) /\ layers # <<>>
  /\ \A layer \in ToSet(layers) : AreLiterals(layer)

IsOwnedInput(in) ==
  /\ IsFiniteSet(in.objects) /\ AreFacts(in.static) /\ AreFacts(in.facts)
  /\ AreLayers(in.layers) /\ AreLiterals(in.default_goals)
  /\ AreActions(in.actions) /\ IsHistory(in.history)

EffectiveLayers(in) ==
  IF in.use_default_goals THEN <<in.default_goals>> \o Tail(in.layers) ELSE in.layers

\* A literal in several layers counts as a goal of the last of them.
GoalLevel(layers, literal) ==
  Max({0} \cup {l - 1 : l \in {k \in DOMAIN layers : literal \in ToSet(layers[k])}})

PreparedGoals(layers) ==
  LET ordered == FlattenSeq(layers)
  IN  [i \in DOMAIN ordered |->
         [literal |-> ordered[i], level |-> GoalLevel(layers, ordered[i])]]

OwnedLanes(in) ==
  LET layers == EffectiveLayers(in)
  IN  [objects   |-> in.objects,
       static    |-> in.static,
       facts     |-> in.facts,
       goals     |-> PreparedGoals(layers),
       layers    |-> Len(layers) - 1,
       actions   |-> in.actions,
       history   |-> in.history,
       max_steps |-> in.max_steps]

(***************************************************************************)
(* The history that an encoder uses: entries within max_steps, the oldest  *)
(* first, entries of one age in the order given.                           *)
(***************************************************************************)
Near(entry, max_steps) == max_steps = Unlimited \/ Magnitude(entry.dt) <= max_steps

OfAge(entries, age) == Chosen(entries, {i \in DOMAIN entries : -entries[i].dt = age})

OldestFirst(entries) ==
  LET ages == {-entries[i].dt : i \in DOMAIN entries}
  IN  FlattenSeq(Reverse(InOrder([age \in ages |-> OfAge(entries, age)])))

NearEntries(history, max_steps) ==
  Chosen(history, {i \in DOMAIN history : Near(history[i], max_steps)})

OrderedHistory(history, max_steps) == OldestFirst(NearEntries(history, max_steps))

\* The literals of an entry of the history, each with the entry it is in.
InEntry(literals, dt, i) ==
  [k \in DOMAIN literals |-> [dt |-> dt, entry |-> i, literal |-> literals[k]]]

(***************************************************************************)
(* The preparation from views.                                             *)
(***************************************************************************)
\* intern_atom, intern_action: an identity enters the pool at its first use.
FirstUses(uses) ==
  {i \in DOMAIN uses : \A j \in DOMAIN uses : uses[j] = uses[i] => i <= j}

PoolOf(uses) == Chosen(uses, FirstUses(uses))

At(pool, x) == CHOOSE i \in DOMAIN pool : pool[i] = x

References(pool, literals) ==
  [i \in DOMAIN literals |->
     [atom |-> At(pool, literals[i].atom), positive |-> literals[i].positive]]

AtomsOf(literals) == [i \in DOMAIN literals |-> literals[i].atom]

\* prepare_borrowed_view_input: layers without a level of their own are counted.
AtomUses(layers, read) ==
  AtomsOf(FlattenSeq(layers))
    \o FlattenSeq([i \in DOMAIN read |-> AtomsOf(read[i].literals)])

GoalReferences(pool, layers) ==
  FlattenSeq([l \in DOMAIN layers |->
    [i \in DOMAIN layers[l] |->
       [literal |-> References(pool, layers[l])[i], level |-> l - 1]]])

HistoryReferences(pool, recent) ==
  [i \in DOMAIN recent |->
     [dt |-> recent[i].dt, literals |-> References(pool, recent[i].literals)]]

PreparationOf(in, layers, atoms, actions) ==
  [objects     |-> in.objects,
   static      |-> in.static,
   facts       |-> in.facts,
   atom_pool   |-> atoms,
   goals       |-> GoalReferences(atoms, layers),
   layers      |-> Len(layers) - 1,
   action_pool |-> actions,
   occurrences |-> [i \in DOMAIN in.actions |-> At(actions, in.actions[i])],
   history     |-> HistoryReferences(atoms, OrderedHistory(in.history, in.max_steps))]

Preparation(in) ==
  LET layers == EffectiveLayers(in)
  IN  PreparationOf(in, layers, PoolOf(AtomUses(layers, NearEntries(in.history, in.max_steps))),
                    PoolOf(in.actions))

\* State of a successor: nothing but objects and facts is read of it.
StatePreparation(in) ==
  Preparation([in EXCEPT !.use_default_goals = FALSE, !.layers = <<<<>>>>,
                         !.actions = <<>>, !.history = <<>>])

Materialized(prep, refs) ==
  [i \in DOMAIN refs |-> Literal(prep.atom_pool[refs[i].atom], refs[i].positive)]

\* goal_levels(): each occurrence with the level it was written at.
GoalsAsWritten(prep) ==
  LET refs == [i \in DOMAIN prep.goals |-> prep.goals[i].literal]
      literals == Materialized(prep, refs)
  IN  [i \in DOMAIN prep.goals |->
         [literal |-> literals[i], level |-> prep.goals[i].level]]

\* Mutant: each occurrence keeps the level it was written at.
LevelsAsWritten(goals) == goals

\* prepare_goals: a repeated goal takes its highest level.
HighestLevels(goals) ==
  [i \in DOMAIN goals |->
     [goals[i] EXCEPT !.level =
        Max({goals[j].level : j \in {k \in DOMAIN goals : goals[k].literal = goals[i].literal}})]]

ViewLanes(prep) ==
  [objects   |-> prep.objects,
   static    |-> prep.static,
   facts     |-> prep.facts,
   goals     |-> HighestLevels(GoalsAsWritten(prep)),
   layers    |-> prep.layers,
   actions   |-> [i \in DOMAIN prep.occurrences |-> prep.action_pool[prep.occurrences[i]]],
   history   |-> [i \in DOMAIN prep.history |->
                    [dt       |-> prep.history[i].dt,
                     literals |-> Materialized(prep, prep.history[i].literals)]],
   max_steps |-> Unlimited]

(***************************************************************************)
(* The lanes of the plain families: goals once per occurrence, at the      *)
(* level they were written at; goals of the owned input are sorted.        *)
(***************************************************************************)
WrittenGoals(layers) ==
  FlattenSeq([l \in DOMAIN layers |->
    [i \in DOMAIN layers[l] |-> [literal |-> layers[l][i], level |-> l - 1]]])

SameAs(goals, goal) == Chosen(goals, {i \in DOMAIN goals : goals[i] = goal})

Arranged(goals, order) == FlattenSeq([k \in DOMAIN order |-> SameAs(goals, order[k])])

SortedGoals(goals) == Arranged(goals, Ordered(ToSet(goals)))

OwnedOccurrences(in) ==
  [OwnedLanes(in) EXCEPT !.goals = SortedGoals(WrittenGoals(EffectiveLayers(in)))]

ViewOccurrences(prep) == [ViewLanes(prep) EXCEPT !.goals = GoalsAsWritten(prep)]

(***************************************************************************)
(* validate_atom and the parts of validate_input common to the encoders.   *)
(***************************************************************************)
ValidAtom(lanes, atom) ==
  /\ atom.predicate \in Predicates
  /\ Len(atom.arguments) = Arity[atom.predicate]
  /\ ToSet(atom.arguments) \subseteq lanes.objects

ValidAction(lanes, action) ==
  /\ action.action \in Schemas
  /\ Len(action.arguments) = SchemaArity[action.action]
  /\ ToSet(action.arguments) \subseteq lanes.objects

ValidLanes(lanes) ==
  /\ \A atom \in lanes.facts \cup lanes.static : ValidAtom(lanes, atom)
  /\ \A i \in DOMAIN lanes.goals : ValidAtom(lanes, lanes.goals[i].literal.atom)
  /\ \A i \in DOMAIN lanes.actions : ValidAction(lanes, lanes.actions[i])
  /\ \A i \in DOMAIN lanes.history :
       /\ lanes.history[i].dt < 0
       /\ \A k \in DOMAIN lanes.history[i].literals :
            ValidAtom(lanes, lanes.history[i].literals[k].atom)

\* Goals in the order in which encoders emit them: by category, then as given.
GoalsOfCategory(goals, category) ==
  Chosen(goals, {i \in DOMAIN goals : CategoryOf(goals[i].literal.atom) = category})

ByCategory(goals) ==
  FlattenSeq([k \in DOMAIN Categories |-> GoalsOfCategory(goals, Categories[k])])
=============================================================================
