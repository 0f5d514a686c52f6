SPECIFICATION Spec
CHECK_DEADLOCK FALSE
CONSTANTS
  Nodes = {1, 2, 3, 4}
  NoNode = NoNode
INVARIANTS
  FindsShortestCycle
  ReadinessAgrees
PROPERTIES
  SearchesEnd
