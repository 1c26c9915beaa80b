---------------------------- MODULE LinkContract ----------------------------
(***************************************************************************)
(* What the public API of wasm/src/node.rs promises about point-to-point   *)
(* links, without saying how the transport tasks bring it about:           *)
(*                                                                         *)
(*  - a link takes one interface slot of its parent and the single uplink  *)
(*    of its child, both in the call that creates it;                      *)
(*  - once shut, a link never opens again;                                 *)
(*  - the slot and the uplink of a link come back separately, each exactly *)
(*    once, only after the link is shut, and always in the end.            *)
(*                                                                         *)
(* LinkLifecycle implements this specification.                            *)
(***************************************************************************)
EXTENDS Naturals, FiniteSets

CONSTANTS Node,           \* the nodes JavaScript creates
          Link,           \* the generations links are numbered by
          NoLink,         \* the holder of a free uplink
          MaxInterfaces   \* interface slots of a router or bridge

VARIABLES opened,     \* the links created so far
          shut,       \* those of them that have been shut
          slots,      \* the links that hold an interface slot of each node
          holder      \* the link that holds the uplink of each node

vars == <<opened, shut, slots, holder>>

Init ==
  /\ opened = {}
  /\ shut = {}
  /\ slots = [n \in Node |-> {}]
  /\ holder = [n \in Node |-> NoLink]

(* A new link takes a slot and an uplink that are both free. *)
Open(g, p, c) ==
  /\ g \notin opened
  /\ holder[c] = NoLink
  /\ Cardinality(slots[p]) < MaxInterfaces
  /\ opened' = opened \cup {g}
  /\ slots' = [slots EXCEPT ![p] = @ \cup {g}]
  /\ holder' = [holder EXCEPT ![c] = g]
  /\ UNCHANGED shut

(* Some links are shut together: freeing a node shuts all of its links. *)
Shut ==
  /\ shut' \in SUBSET opened
  /\ shut \subseteq shut'
  /\ UNCHANGED <<opened, slots, holder>>

(* The parent's slot comes back; a link that lost it is shut. *)
ReturnSlot(g, p) ==
  /\ g \in slots[p]
  /\ slots' = [slots EXCEPT ![p] = @ \ {g}]
  /\ shut' = shut \cup {g}
  /\ UNCHANGED <<opened, holder>>

(* The child's uplink comes back; a link that lost it is shut. *)
ReturnUplink(g, c) ==
  /\ holder[c] = g
  /\ g \in opened
  /\ holder' = [holder EXCEPT ![c] = NoLink]
  /\ shut' = shut \cup {g}
  /\ UNCHANGED <<opened, slots>>

Next ==
  \/ \E g \in Link, p, c \in Node : Open(g, p, c)
  \/ Shut
  \/ \E g \in Link, n \in Node : ReturnSlot(g, n) \/ ReturnUplink(g, n)

(* A shut link gives both resources back. *)
Fairness ==
  \A g \in Link, n \in Node :
    /\ WF_vars(g \in shut /\ ReturnSlot(g, n))
    /\ WF_vars(g \in shut /\ ReturnUplink(g, n))

Spec == Init /\ [][Next]_vars /\ Fairness

=============================================================================
