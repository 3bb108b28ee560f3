SPECIFICATION Spec
CONSTANTS
  s0 = s0
  s1 = s1
  s2 = s2
  a = a
  b = b
  l = l
  None = None
  States <- MCStates
  GroundActions <- MCActions
  CandidateIds <- MCIds
  Deltas <- MCDeltas
  Root = s0
  Calls <- MCCalls
  BulkCalls <- MCBulkCalls
  RxNodes <- MCRxNodes
  RxEdges <- MCRxEdges
  MaxTransitions = 3
  MaxRefused = 1
  MaxBuiltOn = 1
  MaxRxEdges = 3
INVARIANTS
  TypeOK
  DagIsWhatWasRegistered
  DepthsAreDistances
  LabelsAreTheFirstGiven
  BuiltDagsEncode
  ImportersAgree
PROPERTIES
  ImportRaisesWithPyTyr
  NothingIsTakenBack
  ImportEnds
CHECK_DEADLOCK FALSE
