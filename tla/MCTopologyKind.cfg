\* One node: the select that changes its kind.
SPECIFICATION Spec
CONSTANTS
  a = a
  b = b
  c = c
  bus = bus
  NoId = NoId
  NodeId = {a}
  BusId = {bus}
  MaxEdges = 1
  MaxSelected = 1
  LinksFail = FALSE
  PingsLast = FALSE
INVARIANTS
  OneNodePerCanvasNode
CHECK_DEADLOCK FALSE
