\* A router, a bridge and an edge; packet links.
SPECIFICATION Spec
CONSTANTS
  root = root
  mid = mid
  leaf = leaf
  NoNode = NoNode
  Node = {root, mid, leaf}
  Profile <- ProfileValue
  Kind <- PacketKind
  MaxInterfaces = 2
  MaxLinks = 2
INVARIANTS
  InterfacesOwned
  LinksLeaveWhole
  TapOwnership
PROPERTIES
  TapsReleasedByOwner
\* JavaScript may free everything and stop.
CHECK_DEADLOCK FALSE
