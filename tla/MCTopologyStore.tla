--------------------------- MODULE MCTopologyStore ---------------------------
(* Instances of TopologyStore for TLC. *)
EXTENDS TopologyStore, TLC

CONSTANTS a, b, c, bus

(* Nodes are interchangeable. *)
NodeSymmetry == Permutations(NodeId)

=============================================================================
