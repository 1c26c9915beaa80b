\* A router and an edge; stream links, so that the six tasks of a link end in
\* every order.
SPECIFICATION Spec
CONSTANTS
  root = root
  mid = mid
  leaf = leaf
  NoNode = NoNode
  Node = {root, leaf}
  Profile <- PairProfile
  Kind <- StreamLeaf
  MaxInterfaces = 1
  MaxLinks = 2
PROPERTIES
  ImplementsContract
  TeardownCompletes
\* JavaScript may free everything and stop.
CHECK_DEADLOCK FALSE
