------------------------------ MODULE BusMedium ------------------------------
(***************************************************************************)
(* The shared packet bus (wasm/src/node/bus.rs): attaching a router and    *)
(* edge devices, the broadcast of BusTx::send through bounded inboxes, and *)
(* the ways an attachment ends.                                            *)
(*                                                                         *)
(* An attachment is known by its member id.  Its packet worker is the      *)
(* library's (external): it receives and sends frames one at a time,       *)
(* returns at any time with an error, and does return once a receive or a  *)
(* send fails.  The impairment, shared by all members and changed at will, *)
(* delays a frame or not and drops it or not.                              *)
(*                                                                         *)
(* Interface slots, registries and tap labels are those of LinkLifecycle:  *)
(* an attachment is in the registries of its ends until it disconnects.    *)
(***************************************************************************)
EXTENDS Integers, Sequences, FiniteSets

CONSTANTS Router, Device,   \* root routers and packet edge nodes
          NoNode,           \* the owner of an unused member id
          InboxSize,        \* frames that an inbox holds
          MaxMembers,       \* bound on the member ids handed out
          MaxFrames         \* bound on the frames sent

Node == Router \cup Device
Member == 1 .. MaxMembers
NoMember == 0
NoFrame == <<0, 0>>

(* A frame is its sender and its number among the frames sent. *)
Frame == Member \X (1 .. MaxFrames)

ASSUME NodeAssumption == Router \cap Device = {} /\ NoNode \notin Node
ASSUME SizeAssumption == InboxSize \in Nat \ {0}
ASSUME MaxAssumption == MaxMembers \in Nat /\ MaxFrames \in Nat

VARIABLES busAlive,      \* the WasmBus handle has not been freed
          alive,         \* the nodes whose handle has not been freed
          nextMember,    \* BusState::next_member
          owner,         \* the node of each attachment
          members,       \* BusState::members
          routerMember,  \* BusState::router_member
          uplinkUp,      \* the devices whose uplink interface is not Down
          held,          \* the attachments whose WasmLink JavaScript holds
          closed,        \* those whose closer is closed
          disconnected,  \* LinkState::disconnected
          worker,        \* those whose packet worker runs
          watcher,       \* those whose watcher task runs
          inbox,         \* the frames in each member's inbox
          outgoing,      \* the frame each worker is sending
          sent,          \* how many frames were taken from a queue to be sent
          heard          \* the last frame each member heard from each other

nodes == <<busAlive, alive, held>>
medium == <<members, routerMember>>
traffic == <<inbox, outgoing, sent, heard>>
vars == <<nodes, nextMember, owner, medium, uplinkUp, closed, disconnected,
          worker, watcher, traffic>>

Attached == {m \in Member : owner[m] # NoNode}

Init ==
  /\ busAlive = TRUE /\ alive = Node /\ held = {}
  /\ nextMember = 1
  /\ owner = [m \in Member |-> NoNode]
  /\ members = {} /\ routerMember = NoMember
  /\ uplinkUp = {}
  /\ closed = {} /\ disconnected = {}
  /\ worker = {} /\ watcher = {}
  /\ inbox = [m \in Member |-> <<>>]
  /\ outgoing = [m \in Member |-> NoFrame]
  /\ sent = 0
  /\ heard = [m \in Member |-> [s \in Member |-> 0]]

-----------------------------------------------------------------------------
(* add_member, spawn_packet_worker and finish_attachment *)
Attach(n) ==
  LET m == nextMember IN
  /\ busAlive /\ n \in alive
  /\ m \in Member
  /\ nextMember' = m + 1
  /\ owner' = [owner EXCEPT ![m] = n]
  /\ members' = members \cup {m}
  /\ held' = held \cup {m}
  /\ worker' = worker \cup {m}
  /\ watcher' = watcher \cup {m}
  /\ UNCHANGED <<busAlive, alive, closed, disconnected, traffic>>

(* A plausible bug for RouterFree: the member's inbox is looked for. *)
RouterFreeByMember == routerMember \notin members

(* WasmBus::router_free *)
RouterFree == routerMember = NoMember

AttachRouter(n) ==
  /\ n \in Router
  /\ RouterFree
  /\ Attach(n)
  /\ routerMember' = nextMember
  /\ UNCHANGED uplinkUp

(* A plausible bug for UplinkFree: the interface state is not consulted. *)
UplinkFreeUnchecked(n) == n \in Device

(* uplink_free of a device *)
UplinkFree(n) == n \notin uplinkUp

AttachEdge(n) ==
  /\ n \in Device
  /\ ~RouterFree
  /\ UplinkFree(n)
  /\ Attach(n)
  /\ uplinkUp' = uplinkUp \cup {n}
  /\ UNCHANGED routerMember

-----------------------------------------------------------------------------
(* A plausible bug for RouterAfter: a router that leaves is forgotten only *)
(* when its inbox is still in the list.                                    *)
RouterAfterListed(S) ==
  IF routerMember \in S \cap members THEN NoMember ELSE routerMember

(* remove_member: only the id of the current router clears it. *)
RouterAfter(S) == IF routerMember \in S THEN NoMember ELSE routerMember

(* A plausible bug for MembersAfter: only a router's inbox is taken out. *)
MembersAfterRouter(S) == members \ (S \cap {routerMember})

(* remove_member: the inboxes of the members in S are taken out. *)
MembersAfter(S) == members \ S

(* LinkState::disconnect with its on_disconnect, for all attachments in S. *)
Disconnect(S) ==
  LET leaving == S \ disconnected IN
  /\ disconnected' = disconnected \cup leaving
  /\ closed' = closed \cup leaving
  /\ members' = MembersAfter(leaving)
  /\ routerMember' = RouterAfter(leaving)

OwnedBy(N) == {m \in Attached : owner[m] \in N}

(* WasmLink::disconnect *)
JsDisconnect(m) ==
  /\ m \in held
  /\ Disconnect({m})
  /\ UNCHANGED <<nodes, nextMember, owner, uplinkUp, worker, watcher, traffic>>

(* Drop for WasmLink *)
FreeLink(m) ==
  /\ m \in held
  /\ held' = held \ {m}
  /\ Disconnect({m})
  /\ UNCHANGED <<busAlive, alive, nextMember, owner, uplinkUp, worker,
                 watcher, traffic>>

(* Drop for WasmNode *)
FreeNode(n) ==
  /\ n \in alive
  /\ alive' = alive \ {n}
  /\ Disconnect(OwnedBy({n}))
  /\ UNCHANGED <<busAlive, held, nextMember, owner, uplinkUp, worker, watcher,
                 traffic>>

(* Drop for WasmBus *)
FreeBus ==
  /\ busAlive
  /\ busAlive' = FALSE
  /\ Disconnect(Attached)
  /\ UNCHANGED <<alive, held, nextMember, owner, uplinkUp, worker, watcher,
                 traffic>>

-----------------------------------------------------------------------------
(* What spawn_packet_worker leaves when the worker of m returns: the       *)
(* device's interface goes Down, the closer closes, the inbox is dropped.  *)
WorkerReturns(m) ==
  /\ worker' = worker \ {m}
  /\ closed' = closed \cup {m}
  /\ uplinkUp' = uplinkUp \ {owner[m]}
  /\ outgoing' = [outgoing EXCEPT ![m] = NoFrame]

(* A receive fails, BusTx::send fails, or the worker fails by itself. *)
WorkerEnds(m) ==
  /\ m \in worker
  /\ WorkerReturns(m)
  /\ inbox' = [inbox EXCEPT ![m] = <<>>]
  /\ UNCHANGED <<nodes, nextMember, owner, medium, disconnected, watcher,
                 sent, heard>>

(* ChannelRx::recv *)
Receive(m) ==
  /\ m \in worker
  /\ inbox[m] # <<>>
  /\ LET f == Head(inbox[m]) IN heard' = [heard EXCEPT ![m][f[1]] = f[2]]
  /\ inbox' = [inbox EXCEPT ![m] = Tail(@)]
  /\ UNCHANGED <<nodes, nextMember, owner, medium, uplinkUp, closed,
                 disconnected, worker, watcher, outgoing, sent>>

(* The worker takes a frame from the stack's queue and calls BusTx::send,  *)
(* which fails once the bus is gone.                                       *)
BeginSend(m) ==
  /\ m \in worker /\ busAlive
  /\ outgoing[m] = NoFrame
  /\ sent < MaxFrames
  /\ sent' = sent + 1
  /\ outgoing' = [outgoing EXCEPT ![m] = <<m, sent'>>]
  /\ UNCHANGED <<nodes, nextMember, owner, medium, uplinkUp, closed,
                 disconnected, worker, watcher, inbox, heard>>

(* delay_and_drop drops the frame. *)
SendDrops(m) ==
  /\ outgoing[m] # NoFrame
  /\ outgoing' = [outgoing EXCEPT ![m] = NoFrame]
  /\ UNCHANGED <<nodes, nextMember, owner, medium, uplinkUp, closed,
                 disconnected, worker, watcher, inbox, sent, heard>>

(* A plausible bug for Offered: the frame comes first in the inbox.        *)
OfferedAtFront(m, f, i) ==
  IF i \in members \ {m} /\ i \in worker /\ Len(inbox[i]) < InboxSize
  THEN <<f>> \o inbox[i] ELSE inbox[i]

(* The inbox of member i after member m sends frame f: a full one drops it. *)
Offered(m, f, i) ==
  IF i \in members \ {m} /\ i \in worker /\ Len(inbox[i]) < InboxSize
  THEN Append(inbox[i], f) ELSE inbox[i]

(* BusTx::send after the delay: offer the frame to every other member and  *)
(* drop from the list those whose worker is gone.  A sender that is no     *)
(* longer attached gets an error, but its frame has been sent.             *)
Broadcast(m) ==
  /\ m \in worker
  /\ outgoing[m] # NoFrame
  /\ members' = members \cap (worker \cup {m})
  /\ LET after == [i \in Member |-> Offered(m, outgoing[m], i)] IN
     IF m \in members
     THEN /\ inbox' = after
          /\ outgoing' = [outgoing EXCEPT ![m] = NoFrame]
          /\ UNCHANGED <<worker, closed, uplinkUp>>
     ELSE /\ inbox' = [after EXCEPT ![m] = <<>>]
          /\ WorkerReturns(m)
  /\ UNCHANGED <<nodes, nextMember, owner, routerMember, disconnected,
                 watcher, sent, heard>>

(* The watcher of finish_attachment *)
Watch(m) ==
  /\ m \in watcher \cap closed
  /\ watcher' = watcher \ {m}
  /\ Disconnect({m})
  /\ UNCHANGED <<nodes, nextMember, owner, uplinkUp, worker, traffic>>

Next ==
  \/ \E n \in Node : AttachRouter(n) \/ AttachEdge(n) \/ FreeNode(n)
  \/ FreeBus
  \/ \E m \in Member :
       \/ JsDisconnect(m) \/ FreeLink(m)
       \/ WorkerEnds(m) \/ Receive(m)
       \/ BeginSend(m) \/ SendDrops(m) \/ Broadcast(m)
       \/ Watch(m)

(* A worker receives what is in its inbox and ends once its closer is      *)
(* closed; the watcher runs.                                               *)
Fairness ==
  \A m \in Member :
    /\ WF_vars(Receive(m))
    /\ WF_vars(m \in closed /\ WorkerEnds(m))
    /\ WF_vars(Watch(m))

Spec == Init /\ [][Next]_vars /\ Fairness

-----------------------------------------------------------------------------
(* Every variable has its type; an inbox never exceeds its size. *)
TypeOK ==
  /\ busAlive \in BOOLEAN
  /\ alive \in SUBSET Node
  /\ nextMember \in 1 .. MaxMembers + 1
  /\ owner \in [Member -> Node \cup {NoNode}]
  /\ members \in SUBSET Member
  /\ routerMember \in Member \cup {NoMember}
  /\ uplinkUp \in SUBSET Device
  /\ held \in SUBSET Member
  /\ closed \in SUBSET Member
  /\ disconnected \in SUBSET Member
  /\ worker \in SUBSET Member
  /\ watcher \in SUBSET Member
  /\ inbox \in [Member -> {s \in Seq(Frame) : Len(s) <= InboxSize}]
  /\ outgoing \in [Member -> Frame \cup {NoFrame}]
  /\ sent \in 0 .. MaxFrames
  /\ heard \in [Member -> [Member -> 0 .. MaxFrames]]

Live == Attached \ disconnected

(* A bus has one controller: router_member names the one attachment of a   *)
(* router that has not disconnected, also when its inbox was dropped from  *)
(* the list by somebody's send, or an older router leaves late.            *)
OneController ==
  {m \in Live : owner[m] \in Router}
    = IF routerMember = NoMember THEN {} ELSE {routerMember}

(* Who listens is in the list, and who is in the list is attached: no      *)
(* disconnected member hears frames, no listening one is forgotten.        *)
MembersAreLive == Live \cap worker \subseteq members /\ members \subseteq Live

(* A device has one worker at a time and its uplink is up exactly then.    *)
DeviceExclusive ==
  /\ \A m, k \in worker : owner[m] = owner[k] /\ owner[m] \in Device => m = k
  /\ uplinkUp = {owner[m] : m \in worker} \cap Device

(* A member hears the frames of each other member in the order they were   *)
(* sent, none twice, and never its own.                                    *)
HeardInOrder ==
  \A m \in Member : \A j \in 1 .. Len(inbox[m]) :
    LET f == inbox[m][j] IN
    /\ f[1] # m
    /\ heard[m][f[1]] < f[2]
    /\ \A i \in 1 .. j - 1 : inbox[m][i][1] = f[1] => inbox[m][i][2] < f[2]

GivenUp(m) ==
  /\ m \in Attached
  /\ m \notin held \/ m \in closed \/ owner[m] \notin alive \/ ~busAlive

Gone(m) ==
  /\ m \notin members \cup worker \cup watcher
  /\ m \in disconnected
  /\ inbox[m] = <<>>
  /\ routerMember # m

(* An attachment that somebody gave up, or whose worker failed, leaves     *)
(* nothing behind: the bus and the device can be used again.               *)
AttachmentEnds == \A m \in Member : GivenUp(m) ~> Gone(m)

=============================================================================
