------------------------------ MODULE Heartbeat ------------------------------
(***************************************************************************)
(* Liveness of a point-to-point link (wasm/src/node.rs, spawn_heartbeat,   *)
(* and wasm/src/node/transport.rs, Liveness): once per HEARTBEAT the child *)
(* asks its parent for a reply; an end that hears nothing for              *)
(* LIVENESS_TIMEOUT takes the other for gone.                              *)
(*                                                                         *)
(* That a received frame brings a downlink back and teaches an uplink its  *)
(* net is external (the ergot library).  One beat and its reply, both of   *)
(* which may be lost, are one step: the timeout is a number of beats.      *)
(***************************************************************************)
EXTENDS Integers

CONSTANT Missed   \* LIVENESS_TIMEOUT / HEARTBEAT

VARIABLES up,      \* the child's uplink: "net", "local" (net 0) or "inactive"
          down,    \* the parent's downlink: "active" or "inactive"
          quietUp, quietDown   \* beats since the end last heard the other

vars == <<up, down, quietUp, quietDown>>

(* connect_to: an edge's uplink starts link-local. *)
Init == up = "local" /\ down = "active" /\ quietUp = 0 /\ quietDown = 0

(* A plausible bug for Silenced: an uplink goes Inactive like a downlink. *)
SilencedInactive == "inactive"

(* Liveness::Upstream: a silent uplink reverts to link-local. *)
Silenced == "local"

Hears(quiet) == IF quiet < Missed THEN quiet + 1 ELSE quiet

(* A plausible bug for Beats: the child asks only where it knows its net.  *)
BeatsKnown == up = "net"

(* An Inactive uplink sends nothing, a link-local one does.                *)
Beats == up # "inactive"

(* The beat arrives or not, then the reply.                                *)
Beat(arrives, answered) ==
  LET there == Beats /\ arrives
      back == there /\ answered
      qu == IF back THEN 0 ELSE Hears(quietUp)
      qd == IF there THEN 0 ELSE Hears(quietDown)
  IN
  /\ quietUp' = qu /\ quietDown' = qd
  /\ down' = IF there THEN "active" ELSE IF qd = Missed THEN "inactive" ELSE down
  /\ up' = IF back THEN "net" ELSE IF qu = Missed THEN Silenced ELSE up

Next == \E arrives, answered \in BOOLEAN : Beat(arrives, answered)

Spec == Init /\ [][Next]_vars
=============================================================================
