\* One canvas node and two WASM nodes in a row, statuses of two values, rings
\* and logs of two.
SPECIFICATION Spec
CONSTANTS
  a = a
  b = b
  s = s
  t = t
  NodeId = {a}
  NoStatus = NoStatus
  Status = {s, t}
  RingSize = 2
  LogSize = 2
  MaxNodes = 2
  MaxItems = 3
INVARIANTS
  EveryNodeWatched
  PublisherAgrees
  ShownWhole
PROPERTIES
  StatusCatchesUp
  FreedNodeEnds
  NeverWaitsOnFreed
\* Everything may be freed and every bound used up.
CHECK_DEADLOCK FALSE
