--------------------------- MODULE MCLinkLifecycle ---------------------------
(* Instances of LinkLifecycle for TLC. *)
EXTENDS LinkLifecycle, TLC

CONSTANTS root, mid, leaf

(* A root router, a bridge that is both child and parent, and an edge. *)
ProfileValue == root :> "router" @@ mid :> "bridge" @@ leaf :> "edge"
PairProfile == root :> "router" @@ leaf :> "edge"

(* All links are packet links, or the edge is linked by streams. *)
PacketKind == [n \in Node |-> "packet"]
StreamLeaf == [n \in Node |-> IF n = leaf THEN "stream" ELSE "packet"]

=============================================================================
