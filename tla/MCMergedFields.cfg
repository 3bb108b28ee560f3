\* An encoding without graph fields merged, and behind it one of a derived encoder.
SPECIFICATION Spec
CONSTANTS
  obj = obj
  fact = fact
  holds = holds
  counts = counts
  ids = ids
  atoms = atoms
  kind = kind
  NodeTypes = {obj, fact}
  EdgeTypes <- MCEdgeTypes
  SrcOf <- MCSrcOf
  DstOf <- MCDstOf
  Fields <- MCFields
  Mode <- MCMode
  IncKind <- MCIncKind
  IncOf <- MCIncOf
  FieldInputs <- MCFieldInputs
  Orders = {}
  Encodings <- MCMixed
  MaxNodes <- MCMaxNodes
  MaxEdges = 0
  MaxGraphs = 2
  Liberties = {"late", "counts_first"}
  NoValue = NoValue
  None = None
  Aborted = Aborted
INVARIANTS
  SomeFieldIsSound
