SPECIFICATION Spec
CONSTANTS
  Fields = {"goal_distance", "target_indices"}
  Mode <- MCMode
  NumGraphs = 2
  Assignments <- MCGoodAssignments
  Uncoercible = Uncoercible
  InitRows <- MCInitRows
  InitPtr <- MCInitPtr
  Devices = {cpu}
  Host = cpu
  None = None
  Views = {view}
  Props = {"x", "edge_index"}
  FallbackProps = {"x"}
  Scalars = {2}
INVARIANTS
  ReadsShowStorage
