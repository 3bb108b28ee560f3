\* Records that name one of several declarers of their relation.
SPECIFICATION Spec
CONSTANTS
  None = None
  Unlimited = Unlimited
  States = {}
  GroundActions = {}
  CandidateIds = {}
  Deltas = {}
  Predicates <- MCPredicates
  Category <- MCCategory
  Arity <- MCArity
  Schemas <- MCSchemas
  SchemaArity <- MCSchemaArity
  Start <- MCStart
  Moves <- MCMoves
  Result <- MCResult
  Subgoals <- MCSubgoals
  Offers <- MCOffers
  Notes <- MCNotes
  Inputs <- MCInputs
  Tables <- MCTables
  EncodingConfigs <- MCEncodingConfigs
  SearchConfigs <- MCSearchConfigs
  AppendConfigs <- MCAppendConfigs
  Components <- MCComponents
  RelationRecords <- MCRelationRecords
  Given <- MCGiven
  PartialCalls <- MCPartialCalls
  BatchArgument <- MCBatchArgument
  MaxLayers = 2
  MaxHistory = 2
  MaxTransitions = 3
  MaxAppends = 3
  MaxComponents = 4
  MaxRecords = 2
  Shelves <- MCShelves
  AttributeKeys <- MCAttributeKeys
  AttributeValues <- MCAttributeValues
  CollateSpecs <- MCCollateSpecs
  MaxChanges = 3
INVARIANTS
  NamedOwnersEmit
CHECK_DEADLOCK FALSE
