SPECIFICATION Spec
CONSTANTS
  Fields = {"goal_distance", "target_indices"}
  Mode <- MCMode
  NumGraphs = 2
  Assignments <- MCAssignments
  Uncoercible = Uncoercible
  InitRows <- MCInitRows
  InitPtr <- MCInitPtr
  Devices = {cpu, gpu}
  Host = cpu
  None = None
  Views = {view, other}
  Props = {"x", "edge_index"}
  FallbackProps = {"x"}
  Scalars = {2}
SYMMETRY Symmetric
INVARIANTS
  TypeOK
  ReadsFollowStorage
  ViewsFollowDevice
