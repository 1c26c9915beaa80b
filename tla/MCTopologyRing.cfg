\* Three nodes, no bus; links may also close by themselves, so that dead edges
\* stay on the canvas.
SPECIFICATION Spec
CONSTANTS
  a = a
  b = b
  c = c
  bus = bus
  NoId = NoId
  NodeId = {a, b, c}
  BusId = {}
  MaxEdges = 3
  MaxSelected = 1
  LinksFail = TRUE
  PingsLast = FALSE
SYMMETRY NodeSymmetry
INVARIANTS
  NoRing
\* Nothing is left to do once the app is unmounted.
CHECK_DEADLOCK FALSE
