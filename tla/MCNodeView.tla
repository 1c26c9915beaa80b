----------------------------- MODULE MCNodeView -----------------------------
(* An instance of NodeView for TLC. *)
EXTENDS NodeView

CONSTANTS a, b, s, t

=============================================================================
