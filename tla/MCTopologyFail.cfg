\* Two nodes and a bus, which may lose its router and get it back; links may
\* also close by themselves.
SPECIFICATION Spec
CONSTANTS
  a = a
  b = b
  c = c
  bus = bus
  NoId = NoId
  NodeId = {a, b}
  BusId = {bus}
  MaxEdges = 3
  MaxSelected = 3
  LinksFail = TRUE
  PingsLast = TRUE
SYMMETRY NodeSymmetry
INVARIANTS
  NothingLeaks
  LiveLinksLegal
  BusSegmentWhole
\* Nothing is left to do once the app is unmounted.
CHECK_DEADLOCK FALSE
