\* Three graphs of at most two nodes per type: a type can appear in the first,
\* second or third graph, so that 0, 1 or 2 boundaries are missing at build().
\* Two graphs are enough for every shift of a field: the second is moved by the
\* first.
SPECIFICATION Spec
CONSTANTS
  obj = obj
  fact = fact
  holds = holds
  counts = counts
  ids = ids
  atoms = atoms
  kind = kind
  NodeTypes = {obj, fact}
  EdgeTypes <- MCEdgeTypes
  SrcOf <- MCSrcOf
  DstOf <- MCDstOf
  Fields <- MCFields
  Mode <- MCMode
  IncKind <- MCIncKind
  IncOf <- MCIncOf
  FieldInputs <- MCFieldInputs
  Orders <- MCOrders
  Encodings <- MCShapesAndFields
  MaxNodes <- MCMaxNodes
  MaxEdges = 2
  MaxGraphs = 3
  Liberties = {}
  NoValue = NoValue
  None = None
  Aborted = Aborted
CONSTRAINT FieldsApart
INVARIANTS
  TypeOK
  BoundariesTrackOffsets
  SomePtrSpansTheBatch
  EdgesStayInOneGraph
  PygBuildKeepsGraphs
  BuiltEncodingValid
  FieldIdsInRange
PROPERTIES
  CutsBackIntoItsShapes
  CutsBackIntoItsGraphs
