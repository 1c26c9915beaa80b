---------------------------- MODULE LinkLifecycle ----------------------------
(***************************************************************************)
(* The life of a point-to-point link (wasm/src/node.rs and                 *)
(* wasm/src/node/transport.rs): connect_to, the transport tasks it spawns, *)
(* LinkState::disconnect, the watcher that reflects an asynchronous        *)
(* shutdown, and the Drop of WasmLink and of WasmNode.                     *)
(*                                                                         *)
(* A link is known by its generation (frame_tap.rs).  Everything between   *)
(* two awaits runs without interruption on the one JavaScript thread, so   *)
(* it is one action; the tasks that a closed closer wakes may run in any   *)
(* order, and JavaScript may call the API between any two of them.         *)
(*                                                                         *)
(* The return of a transport worker's run is external (the ergot library): *)
(* it may return at any time with an end of stream or an error, and it     *)
(* does return once the closer is closed.                                  *)
(***************************************************************************)
EXTENDS Integers, FiniteSets

CONSTANTS Node,            \* every WasmNode JavaScript may create
          NoNode,          \* the endpoint of a link that was never created
          Profile,         \* the profile of each node
          Kind,            \* the uplink transport of each node
          MaxInterfaces,   \* MAX_INTERFACES
          MaxLinks         \* bound on the generations handed out

Link == 1 .. MaxLinks
NoLink == 0
Ident == 1 .. MaxInterfaces

ASSUME NodeAssumption == NoNode \notin Node
ASSUME ProfileAssumption == Profile \in [Node -> {"router", "bridge", "edge"}]
ASSUME KindAssumption == Kind \in [Node -> {"stream", "packet"}]
ASSUME BoundAssumption == MaxInterfaces \in Nat /\ MaxLinks \in Nat

VARIABLES alive,         \* the nodes whose handle has not been freed
          nextGen,       \* the next generation
          parent,        \* the downlink end of each link, NoNode if not created
          child,         \* the uplink end of each link
          ident,         \* the interface slot of each link at its parent
          slot,          \* the link registered at each interface of each node
          uplinkUp,      \* the nodes whose uplink interface is not Down
          registry,      \* WasmNode::links
          held,          \* the links whose WasmLink handle JavaScript holds
          closed,        \* the links whose closer is closed
          disconnected,  \* LinkState::disconnected
          tasks,         \* the spawned tasks of each link that still run
          uplinkTap,     \* the generation in WasmNode::uplink_tap_label
          downTap        \* the links whose parent-side tap label is set

ends == <<parent, child, ident>>
vars == <<alive, nextGen, ends, slot, uplinkUp, registry, held, closed,
          disconnected, tasks, uplinkTap, downTap>>

(***************************************************************************)
(* The tasks of a link.  "parent" and "child" are the receive worker of a  *)
(* stream link or the only worker of a packet link; "parent_tx" and        *)
(* "child_tx" are the stream transmit workers; "helpers" stands for the    *)
(* two impairment forwarders and the heartbeat, which only wait for the    *)
(* closer; "watch" is the task that calls disconnect.                      *)
(***************************************************************************)
TxTask == {"parent_tx", "child_tx"}
TaskName == {"parent", "child", "helpers", "watch"} \cup TxTask
TasksOf(kind) == IF kind = "stream" THEN TaskName ELSE TaskName \ TxTask

Created(g) == parent[g] # NoNode
Ends(g) == {parent[g], child[g]}

(* next_link_generation never returns 0, which stands for no link here. *)
FirstGeneration == 1

Init ==
  /\ alive = Node
  /\ nextGen = FirstGeneration
  /\ parent = [g \in Link |-> NoNode]
  /\ child = [g \in Link |-> NoNode]
  /\ ident = [g \in Link |-> NoLink]
  /\ slot = [n \in Node |-> [i \in Ident |-> NoLink]]
  /\ uplinkUp = {}
  /\ registry = [n \in Node |-> {}]
  /\ held = {}
  /\ closed = {}
  /\ disconnected = {}
  /\ tasks = [g \in Link |-> {}]
  /\ uplinkTap = [n \in Node |-> NoLink]
  /\ downTap = {}

-----------------------------------------------------------------------------
(* A plausible bug for UplinkFree: the interface state is not consulted. *)
UplinkFreeUnchecked(n) == Profile[n] # "router"

(* WasmNode::uplink_free: routers have no uplink, the others have one that *)
(* is free when its interface is Down.                                     *)
UplinkFree(n) == Profile[n] # "router" /\ n \notin uplinkUp

(* connect_to's checks and the generation it takes, which every outcome    *)
(* after them uses up.                                                     *)
ConnectBegins(p, c) ==
  /\ {p, c} \subseteq alive
  /\ Profile[p] # "edge"
  /\ UplinkFree(c)
  /\ nextGen \in Link
  /\ nextGen' = nextGen + 1

(* connect_to registers an interface at the parent, labels the taps, marks *)
(* the child's uplink up, spawns the tasks and enters the link in both     *)
(* registries.  The link_id argument is optional.                          *)
Connect(p, c, i, labelled) ==
  LET g == nextGen IN
  /\ ConnectBegins(p, c)
  /\ slot[p][i] = NoLink
  /\ parent' = [parent EXCEPT ![g] = p]
  /\ child' = [child EXCEPT ![g] = c]
  /\ ident' = [ident EXCEPT ![g] = i]
  /\ slot' = [slot EXCEPT ![p][i] = g]
  /\ uplinkTap' = [uplinkTap EXCEPT ![c] = IF labelled THEN g ELSE NoLink]
  /\ downTap' = IF labelled THEN downTap \cup {g} ELSE downTap
  /\ uplinkUp' = uplinkUp \cup {c}
  /\ tasks' = [tasks EXCEPT ![g] = TasksOf(Kind[c])]
  /\ registry' = [n \in Node |->
                    IF n \in {p, c} THEN registry[n] \cup {g} ELSE registry[n]]
  /\ held' = held \cup {g}
  /\ UNCHANGED <<alive, closed, disconnected>>

(* "parent has no free interface slots" *)
ConnectNoSlot(p, c) ==
  /\ ConnectBegins(p, c)
  /\ \A i \in Ident : slot[p][i] # NoLink
  /\ UNCHANGED <<alive, ends, slot, uplinkUp, registry, held, closed,
                 disconnected, tasks, uplinkTap, downTap>>

(* The library refuses the child's new interface state: the slot is given  *)
(* back, and the label this call has just written is taken away.           *)
ConnectRollback(p, c) ==
  /\ ConnectBegins(p, c)
  /\ \E i \in Ident : slot[p][i] = NoLink
  /\ uplinkTap' = [uplinkTap EXCEPT ![c] = NoLink]
  /\ UNCHANGED <<alive, ends, slot, uplinkUp, registry, held, closed,
                 disconnected, tasks, downTap>>

-----------------------------------------------------------------------------
(* A plausible bug for ReleasedTap: the generation is not compared. *)
ReleasedTapUnowned(n, S) ==
  IF \E g \in S : child[g] = n THEN NoLink ELSE uplinkTap[n]

(* What LinkState::disconnect does to the tap label of node n when the     *)
(* links in S disconnect: only the owner of the binding clears it.         *)
ReleasedTap(n, S) ==
  IF \E g \in S : child[g] = n /\ uplinkTap[n] = g THEN NoLink ELSE uplinkTap[n]

(* The links that stay in registry R of node n when those in S disconnect. *)
LeftIn(R, n, S) == R \ {g \in S : n \in Ends(g)}

(* LinkState::disconnect of every link in S, starting from the registries  *)
(* reg: nothing for a link that is already disconnected; otherwise close   *)
(* the closer, leave the registry of each end that still exists, clear the *)
(* labels.                                                                 *)
Disconnect(S, reg) ==
  LET live == S \ disconnected IN
  /\ disconnected' = disconnected \cup live
  /\ closed' = closed \cup live
  /\ registry' = [n \in Node |-> LeftIn(reg[n], n, live)]
  /\ uplinkTap' = [n \in Node |-> ReleasedTap(n, live)]
  /\ downTap' = downTap \ live

(* WasmLink::disconnect; calling it again has no effect. *)
JsDisconnect(g) ==
  /\ g \in held
  /\ Disconnect({g}, registry)
  /\ UNCHANGED <<alive, nextGen, ends, slot, uplinkUp, held, tasks>>

(* Drop for WasmLink *)
FreeLink(g) ==
  /\ g \in held
  /\ held' = held \ {g}
  /\ Disconnect({g}, registry)
  /\ UNCHANGED <<alive, nextGen, ends, slot, uplinkUp, tasks>>

(* A plausible bug for FreeNode: the registry is dropped, its links are not *)
(* disconnected.                                                           *)
FreeNodeForgets(n) ==
  /\ n \in alive
  /\ alive' = alive \ {n}
  /\ registry' = [registry EXCEPT ![n] = {}]
  /\ UNCHANGED <<nextGen, ends, slot, uplinkUp, held, closed, disconnected,
                 tasks, uplinkTap, downTap>>

(* Drop for WasmNode: take the registry and disconnect what was in it. *)
FreeNode(n) ==
  /\ n \in alive
  /\ alive' = alive \ {n}
  /\ Disconnect(registry[n], [registry EXCEPT ![n] = {}])
  /\ UNCHANGED <<nextGen, ends, slot, uplinkUp, held, tasks>>

-----------------------------------------------------------------------------
TaskReturns(g, t) ==
  /\ t \in tasks[g]
  /\ tasks' = [tasks EXCEPT ![g] = @ \ {t}]

(* deregister_interface: the slot of link g is free again. *)
Deregistered(g) == [slot EXCEPT ![parent[g]][ident[g]] = NoLink]

(* The parent's worker returns: its interface goes Down, the closer is     *)
(* closed and the interface is deregistered, all in one turn.              *)
ParentEnds(g) ==
  /\ TaskReturns(g, "parent")
  /\ slot' = Deregistered(g)
  /\ closed' = closed \cup {g}
  /\ UNCHANGED <<alive, nextGen, ends, uplinkUp, registry, held,
                 disconnected, uplinkTap, downTap>>

(* The child's worker returns: the uplink goes Down, the closer closes. *)
ChildEnds(g) ==
  /\ TaskReturns(g, "child")
  /\ uplinkUp' = uplinkUp \ {child[g]}
  /\ closed' = closed \cup {g}
  /\ UNCHANGED <<alive, nextGen, ends, slot, registry, held,
                 disconnected, uplinkTap, downTap>>

(* A stream transmit worker returns and closes the closer. *)
TxEnds(g, t) ==
  /\ TaskReturns(g, t)
  /\ closed' = closed \cup {g}
  /\ UNCHANGED <<alive, nextGen, ends, slot, uplinkUp, registry, held,
                 disconnected, uplinkTap, downTap>>

(* The forwarders and the heartbeat stop for a closed closer. *)
HelpersEnd(g) ==
  /\ g \in closed
  /\ TaskReturns(g, "helpers")
  /\ UNCHANGED <<alive, nextGen, ends, slot, uplinkUp, registry, held,
                 closed, disconnected, uplinkTap, downTap>>

(* Something still owns the LinkState, so a weak reference upgrades. *)
Retained(g) == g \in held \/ \E n \in alive : g \in registry[n]

(* The watcher task sees the closer closed and disconnects the link. *)
Watch(g) ==
  /\ g \in closed
  /\ TaskReturns(g, "watch")
  /\ IF Retained(g) THEN Disconnect({g}, registry)
     ELSE UNCHANGED <<registry, closed, disconnected, uplinkTap, downTap>>
  /\ UNCHANGED <<alive, nextGen, ends, slot, uplinkUp, held>>

JsNext ==
  \/ \E p, c \in Node :
       \/ \E i \in Ident, labelled \in BOOLEAN : Connect(p, c, i, labelled)
       \/ ConnectNoSlot(p, c)
       \/ ConnectRollback(p, c)
  \/ \E g \in Link : JsDisconnect(g) \/ FreeLink(g)
  \/ \E n \in Node : FreeNode(n)

TaskNext(g) ==
  \/ ParentEnds(g)
  \/ ChildEnds(g)
  \/ \E t \in TxTask : TxEnds(g, t)
  \/ HelpersEnd(g)
  \/ Watch(g)

Next == JsNext \/ \E g \in Link : TaskNext(g)

(* Each task that waits on a closed closer is woken and runs.  Nothing is  *)
(* assumed about JavaScript, nor about workers of open links.              *)
Fairness ==
  \A g \in Link :
    /\ WF_vars(g \in closed /\ ParentEnds(g))
    /\ WF_vars(g \in closed /\ ChildEnds(g))
    /\ \A t \in TxTask : WF_vars(g \in closed /\ TxEnds(g, t))
    /\ WF_vars(HelpersEnd(g))
    /\ WF_vars(Watch(g))

Spec == Init /\ [][Next]_vars /\ Fairness

-----------------------------------------------------------------------------
(* Every variable has its type. *)
TypeOK ==
  /\ alive \in SUBSET Node
  /\ nextGen \in 1 .. MaxLinks + 1
  /\ parent \in [Link -> Node \cup {NoNode}]
  /\ child \in [Link -> Node \cup {NoNode}]
  /\ ident \in [Link -> Ident \cup {NoLink}]
  /\ slot \in [Node -> [Ident -> Link \cup {NoLink}]]
  /\ uplinkUp \in SUBSET Node
  /\ registry \in [Node -> SUBSET Link]
  /\ held \in SUBSET Link
  /\ closed \in SUBSET Link
  /\ disconnected \in SUBSET Link
  /\ tasks \in [Link -> SUBSET TaskName]
  /\ uplinkTap \in [Node -> Link \cup {NoLink}]
  /\ downTap \in SUBSET Link

(* The uplink interface of a node is up exactly while the worker of one    *)
(* link runs on it, and never two: an interface is not brought Down by the *)
(* late worker of a link that a newer link has replaced (uplink_free is    *)
(* checked in connect_to, the interface goes Down in the worker's drop).   *)
UplinkExclusive ==
  /\ \A g, h \in Link :
       /\ "child" \in tasks[g]
       /\ "child" \in tasks[h]
       /\ child[g] = child[h]
       => g = h
  /\ uplinkUp = {child[g] : g \in {h \in Link : "child" \in tasks[h]}}

(* An interface slot belongs to the one link whose parent worker runs: no  *)
(* slot leaks when a link goes away in any order, and no worker frees a    *)
(* slot that has been given to another link.                               *)
SlotOwnership ==
  \A g \in Link, n \in Node, i \in Ident :
    slot[n][i] = g <=> "parent" \in tasks[g] /\ parent[g] = n /\ ident[g] = i

(* The interfaces of both ends follow their workers, and only their own.   *)
InterfacesOwned == UplinkExclusive /\ SlotOwnership

(* A link is in the registries of both of its ends until it disconnects    *)
(* and in neither afterwards; a freed node's registry is empty.            *)
RegistryMutual ==
  /\ \A n \in Node, g \in Link :
       g \in registry[n] <=> Created(g) /\ n \in Ends(g) /\ g \notin disconnected
  /\ \A n \in Node \ alive : registry[n] = {}

(* The uplink label of a node is that of a link of this node which has not *)
(* disconnected, and while a labelled link runs, its frames carry its own  *)
(* label: no stale handle clears or keeps the label of a node.             *)
TapOwnership ==
  /\ \A n \in Node : uplinkTap[n] # NoLink =>
       /\ child[uplinkTap[n]] = n
       /\ uplinkTap[n] \in downTap
  /\ \A g \in downTap : "child" \in tasks[g] => uplinkTap[child[g]] = g
  /\ downTap \cap disconnected = {}

(* A link somebody gave up is shut, and a shut link is noticed: without a  *)
(* handle, or without one of its ends, or after its watcher, it is         *)
(* disconnected; once it is disconnected or lost a worker, it is closed.   *)
ShutTogether ==
  \A g \in Link : Created(g) =>
    /\ (g \notin held \/ ~(Ends(g) \subseteq alive) \/ "watch" \notin tasks[g])
         => g \in disconnected
    /\ g \in disconnected => g \in closed
    /\ tasks[g] # TasksOf(Kind[child[g]]) => g \in closed

(* A link leaves as a whole: both registries, its flags and its closer.    *)
LinksLeaveWhole == RegistryMutual /\ ShutTogether

(* Nothing is left of link g. *)
Gone(g) ==
  /\ tasks[g] = {}
  /\ g \in disconnected
  /\ \A n \in Node : g \notin registry[n] /\ uplinkTap[n] # g
  /\ \A n \in Node, i \in Ident : slot[n][i] # g

(* Somebody gave up link g: an end was freed, the handle was freed, or a   *)
(* worker saw the end of its stream.                                       *)
GivenUp(g) ==
  Created(g) /\ (~(Ends(g) \subseteq alive) \/ g \notin held \/ g \in closed)

(* Only a link's own disconnect takes its label away from a node, unless a *)
(* newer connection has replaced it: a disconnect of an older link through *)
(* its stale handle, or of a link of another node, does not.               *)
TapStepOK ==
  \A n \in Node :
    /\ uplinkTap[n] # NoLink
    /\ uplinkTap'[n] # uplinkTap[n]
    /\ nextGen' = nextGen
    => uplinkTap[n] \in disconnected' \ disconnected
TapsReleasedByOwner == [][TapStepOK]_vars

(* Every link that somebody gave up disappears: its tasks stop, its slot,  *)
(* its uplink, its labels and its registry entries come back, whichever    *)
(* end or handle was freed first and whatever else JavaScript does.        *)
TeardownCompletes == \A g \in Link : GivenUp(g) ~> Gone(g)

-----------------------------------------------------------------------------
(* The links and their resources as the API's caller sees them. *)
OpenedLinks == {g \in Link : Created(g)}
ShutLinks == {g \in Link : Created(g) /\ g \in closed}
SlotHolders ==
  [n \in Node |-> {g \in Link : parent[g] = n /\ "parent" \in tasks[g]}]
RunsUplink(g, n) == child[g] = n /\ "child" \in tasks[g]
UplinkHolder ==
  [n \in Node |-> IF \E g \in Link : RunsUplink(g, n)
                  THEN CHOOSE g \in Link : RunsUplink(g, n)
                  ELSE NoLink]

Contract == INSTANCE LinkContract WITH
  opened <- OpenedLinks,
  shut <- ShutLinks,
  slots <- SlotHolders,
  holder <- UplinkHolder

(* The tasks implement the contract of the API, liveness included: a link  *)
(* takes a free slot and a free uplink, is never reopened, and both come   *)
(* back in the end, each once (connect_to, the workers, disconnect).       *)
ImplementsContract == Contract!Spec

=============================================================================
