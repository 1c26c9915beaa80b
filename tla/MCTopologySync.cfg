\* Three nodes and a bus; links close only when they are told to.
SPECIFICATION Spec
CONSTANTS
  a = a
  b = b
  c = c
  bus = bus
  NoId = NoId
  NodeId = {a, b, c}
  BusId = {bus}
  MaxEdges = 3
  MaxSelected = 7
  LinksFail = FALSE
  PingsLast = TRUE
SYMMETRY NodeSymmetry
INVARIANTS
  TypeOK
  CanvasInSync
  WalkTerminates
\* Nothing is left to do once the app is unmounted.
CHECK_DEADLOCK FALSE
