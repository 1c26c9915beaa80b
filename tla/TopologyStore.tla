---------------------------- MODULE TopologyStore ----------------------------
(***************************************************************************)
(* The canvas (src/App.vue, src/components/ErgotNode.vue) and the store    *)
(* that keeps the WASM network in step with it (src/stores/topology.ts).   *)
(*                                                                         *)
(* Every handler runs to its end on the one JavaScript thread, so it is    *)
(* one action.  Behind the store's back the uplink worker of a torn link   *)
(* ends later than the call that tore it, and a link may close by itself   *)
(* (node.rs, the watcher of connect_to).                                   *)
(*                                                                         *)
(* A call that the store or the WASM side refuses changes nothing; such    *)
(* steps are left out, but not those of a handler that throws half way:    *)
(* WasmNode::ping is async and borrows its node until it is answered or    *)
(* times out, and free() of a borrowed node throws.  wasm-bindgen's        *)
(* generated free() has nulled the handle's pointer by then, so the node   *)
(* is never dropped, and every later use of the handle throws as well.     *)
(*                                                                         *)
(* Node and edge ids are UUIDs: an id that nothing refers to any more      *)
(* stands for a new one.                                                   *)
(***************************************************************************)
EXTENDS Integers, FiniteSets

CONSTANTS NodeId, BusId,   \* what may be on the canvas at a time
          NoId,            \* undefined
          MaxEdges,        \* bound on the canvas edges at a time
          MaxSelected,     \* bound on what is selected for deletion
          LinksFail,       \* links may close by themselves
          PingsLast        \* a ping may be pending when the next handler runs

ASSUME IdAssumption == NodeId \cap BusId = {} /\ NoId \notin NodeId \cup BusId
ASSUME FiniteAssumption == IsFiniteSet(NodeId) /\ IsFiniteSet(BusId)
ASSUME MaxAssumption == MaxEdges \in Nat /\ MaxSelected \in Nat
ASSUME FlagAssumption == LinksFail \in BOOLEAN /\ PingsLast \in BOOLEAN

Id == NodeId \cup BusId
Profile == {"router", "bridge", "edge"}
Kind == {"stream", "packet"}

(* A WASM node, or the data of a canvas node: ErgotNodeData. *)
Data == [profile : Profile, kind : Kind]
NoData == [profile |-> "none", kind |-> "none"]

(* A handle whose pointer is null. *)
Dead == [profile |-> "dead", kind |-> "dead"]

(* A canvas edge; a newer edge has a greater id. *)
Edge == [id : 1 .. MaxEdges, source : Id, target : Id]

VARIABLES mounted,      \* the app is mounted
          canvasNodes,  \* the nodes and buses on the canvas
          data,         \* the data each canvas node shows
          canvasEdges,  \* the edges on the canvas
          handle,       \* nodeHandles
          buses,        \* busHandles
          stored,       \* linkHandles and linkEndpoints
          live,         \* the stored links that have not disconnected
          uplinkBusy,   \* the nodes whose uplink interface is not Down
          pinging       \* the nodes a pending ping borrows

canvas == <<canvasNodes, data, canvasEdges>>
store == <<handle, buses, stored, live, uplinkBusy, pinging>>
vars == <<mounted, canvas, store>>

Init ==
  /\ mounted = TRUE
  /\ canvasNodes = {}
  /\ data = [n \in NodeId |-> NoData]
  /\ canvasEdges = {}
  /\ handle = [n \in NodeId |-> NoData]
  /\ buses = {}
  /\ stored = {}
  /\ live = {}
  /\ uplinkBusy = {}
  /\ pinging = {}

HasHandle(n) == n \in NodeId /\ handle[n] \notin {NoData, Dead}

-----------------------------------------------------------------------------
(* The buttons add stream nodes; the demo's first edges are packet nodes.  *)
Addable ==
  {[profile |-> p, kind |-> "stream"] : p \in Profile}
    \cup {[profile |-> "edge", kind |-> "packet"]}

(* A plausible bug for NewNode: the profile and the kind are swapped. *)
NewNodeSwapped(n, d) ==
  handle' = [handle EXCEPT ![n] = [profile |-> d.kind, kind |-> d.profile]]

(* createNode; a new stack's uplink is Down. *)
NewNode(n, d) == handle' = [handle EXCEPT ![n] = d]

(* addNode *)
AddNode(n, d) ==
  /\ mounted
  /\ n \notin canvasNodes
  /\ NewNode(n, d)
  /\ canvasNodes' = canvasNodes \cup {n}
  /\ data' = [data EXCEPT ![n] = d]
  /\ UNCHANGED <<mounted, canvasEdges, buses, stored, live, uplinkBusy, pinging>>

(* addBus, createBus *)
AddBus(b) ==
  /\ mounted
  /\ b \notin canvasNodes
  /\ buses' = buses \cup {b}
  /\ canvasNodes' = canvasNodes \cup {b}
  /\ UNCHANGED <<mounted, data, canvasEdges, handle, stored, live, uplinkBusy,
                 pinging>>

-----------------------------------------------------------------------------
(* wouldLoop: the newest edge into a node names its parent, because the    *)
(* later entries of a Map win.                                             *)
Into(E, n) == {e \in E : e.target = n}
Newest(E) == CHOOSE e \in E : \A f \in E : f.id <= e.id
ParentIn(E, n) == IF Into(E, n) = {} THEN NoId ELSE Newest(Into(E, n)).source

(* The walk from node s up the edges of E, one node per step. *)
Steps == Cardinality(Id)
Walk(E, s) ==
  LET at[k \in 0 .. Steps] == IF k = 0 THEN s ELSE ParentIn(E, at[k - 1])
  IN  at
Above(E, s) == {Walk(E, s)[k] : k \in 0 .. Steps}
WalkEnds(E, s) == Walk(E, s)[Steps] = NoId

(* A plausible bug for NoLoop: only the direct parent is looked at. *)
NoLoopOneStep(s, t) == s # t /\ ParentIn(canvasEdges, s) # t

(* wouldLoop returns, and returns false. *)
NoLoop(s, t) == WalkEnds(canvasEdges, s) /\ t \notin Above(canvasEdges, s)

RouterAttached(b) == \E e \in live : e.target = b
UplinkFree(n) == handle[n].profile # "router" /\ n \notin uplinkBusy

(* A plausible bug for BusJoinOK: the transport is not looked at. *)
BusJoinAnyKind(b, n) ==
  RouterAttached(b) /\ handle[n].profile = "edge" /\ UplinkFree(n)

BusJoinOK(b, n) ==
  /\ RouterAttached(b)
  /\ handle[n] = [profile |-> "edge", kind |-> "packet"]
  /\ UplinkFree(n)

(* connectionError returns undefined. *)
ConnectionOK(s, t) ==
  \/ /\ HasHandle(s) /\ HasHandle(t)
     /\ handle[s].profile # "edge"
     /\ UplinkFree(t)
  \/ /\ HasHandle(s) /\ t \in buses
     /\ handle[s].profile = "router"
     /\ ~RouterAttached(t)
  \/ /\ s \in buses /\ HasHandle(t)
     /\ BusJoinOK(s, t)

NextEdgeId == CHOOSE k \in 1 .. MaxEdges + 1 :
                /\ \A e \in canvasEdges \cup stored : e.id < k
                /\ k = 1 \/ \E e \in canvasEdges \cup stored : e.id = k - 1

(* A router pings its new child; a bridge's link has no net to ping yet. *)
Warming(s, t) ==
  {n \in {s} \cap NodeId :
     PingsLast /\ t \in NodeId /\ handle[n].profile = "router"}

(* onConnect, connectNodes and the store's connect *)
OnConnect(s, t) ==
  LET new == [id |-> NextEdgeId, source |-> s, target |-> t] IN
  /\ mounted
  /\ {s, t} \subseteq canvasNodes
  /\ NextEdgeId <= MaxEdges
  /\ NoLoop(s, t)
  /\ ConnectionOK(s, t)
  /\ stored' = stored \cup {new}
  /\ live' = live \cup {new}
  /\ canvasEdges' = canvasEdges \cup {new}
  /\ uplinkBusy' = uplinkBusy \cup ({t} \cap NodeId)
  /\ pinging' = pinging \cup Warming(s, t)
  /\ UNCHANGED <<mounted, canvasNodes, data, handle, buses>>

-----------------------------------------------------------------------------
(* The links that share the bus of edge e. *)
BusOf(e) == IF e.source \in BusId THEN e.source
            ELSE IF e.target \in BusId THEN e.target ELSE NoId

(* A plausible bug for Segment: a router's edge goes away alone. *)
SegmentAlone(e) == {e}

(* disconnect(edgeId): a router's edge to a bus takes the whole segment    *)
(* along, any other edge, or one the store does not know, goes alone.      *)
Segment(e) ==
  IF e \in stored /\ e.target \in buses
  THEN {f \in stored : BusOf(f) = e.target}
  ELSE {e}
Torn(E) == UNION {Segment(e) : e \in E}

At(E, N) == {e \in E : e.source \in N \/ e.target \in N}

(* A plausible bug for Dropped: only the selected edges are torn down. *)
DroppedSelected(E, N) == Torn(E)

(* What deleteSelected tears down for the selected edges E and nodes N. *)
Dropped(E, N) == Torn(E \cup At(canvasEdges, N))

(* free() of node i throws. *)
Refuses(i) == i \in NodeId /\ (i \in pinging \/ handle[i] = Dead)

(* N is freed one by one, in an order left open: all of it, or what comes  *)
(* before the first that refuses.                                          *)
Outcomes(N) ==
  LET refusing == {i \in N : Refuses(i)} IN
  IF refusing = {} THEN {[freed |-> N, refused |-> {}]}
  ELSE [freed : SUBSET (N \ refusing), refused : {{i} : i \in refusing}]

(* What destroyNode leaves in the map and of the stacks: those in D are    *)
(* gone, that of R is there for ever, behind a null pointer.               *)
FreeNodes(D, R) ==
  /\ handle' = [n \in NodeId |-> IF n \in D THEN NoData
                                 ELSE IF n \in R THEN Dead ELSE handle[n]]
  /\ uplinkBusy' = uplinkBusy \ D
  /\ pinging' = pinging \ R

(* deleteSelected: disconnect the edges, then destroy the nodes and buses  *)
(* with whatever the store still has at them, then take the nodes off the  *)
(* canvas, which is not reached when a node refuses to be freed.           *)
DeleteSelected(E, N) ==
  \E o \in Outcomes(N) :
    LET gone == Dropped(E, N)
        atNodes == Torn(At(stored \ gone, o.freed \cup o.refused))
        removed == IF o.refused = {} THEN N ELSE {}
    IN
    /\ mounted
    /\ stored' = stored \ (gone \cup atNodes)
    /\ live' = live \ (gone \cup atNodes)
    /\ FreeNodes(o.freed, o.refused)
    /\ buses' = buses \ o.freed
    /\ canvasEdges' = canvasEdges \ gone
    /\ canvasNodes' = canvasNodes \ removed
    /\ data' = [n \in NodeId |-> IF n \in removed THEN NoData ELSE data[n]]
    /\ UNCHANGED mounted

-----------------------------------------------------------------------------
(* A plausible bug for Unlinked: only the uplink is looked at. *)
UnlinkedUpward(n) == \A e \in live : e.target # n

(* linkCount is 0. *)
Unlinked(n) == At(live, {n}) = {}

(* destroyNode tears down what the store still has at node n. *)
DestroyLinks(n) ==
  /\ stored' = stored \ Torn(At(stored, {n}))
  /\ live' = live \ Torn(At(stored, {n}))

(* setProfile and setLinkKind get as far as freeing the old node. *)
Replaceable(n) == mounted /\ n \in canvasNodes /\ HasHandle(n) /\ Unlinked(n)

(* onProfileChange and setProfile: the stack is replaced by a new one.     *)
ChangeProfile(n, profile) ==
  /\ Replaceable(n) /\ ~Refuses(n)
  /\ data' = [data EXCEPT ![n].profile = profile]
  /\ DestroyLinks(n)
  /\ NewNode(n, [profile |-> profile, kind |-> data[n].kind])
  /\ uplinkBusy' = uplinkBusy \ {n}
  /\ UNCHANGED <<mounted, canvasNodes, canvasEdges, buses, pinging>>

(* onProfileChange of a node without a handle: setProfile returns.         *)
ChangeShownProfile(n, profile) ==
  /\ mounted
  /\ n \in canvasNodes
  /\ handle[n] = NoData
  /\ data' = [data EXCEPT ![n].profile = profile]
  /\ UNCHANGED <<mounted, canvasNodes, canvasEdges, store>>

(* onKindChange and setLinkKind of an unlinked bridge or edge:             *)
(* destroyNode frees the handle whose profile is read next, which throws,  *)
(* so createNode is not reached and the canvas keeps its data.             *)
ChangeKind(n) ==
  /\ Replaceable(n) /\ ~Refuses(n)
  /\ handle[n].profile # "router"
  /\ DestroyLinks(n)
  /\ FreeNodes({n}, {})
  /\ UNCHANGED <<mounted, canvas, buses>>

(* setProfile or setLinkKind of a node that a ping borrows: destroyNode    *)
(* throws after it has torn down what the store had at the node.           *)
ReplaceThrows(n) ==
  /\ Replaceable(n) /\ Refuses(n)
  /\ DestroyLinks(n)
  /\ FreeNodes({}, {n})
  /\ UNCHANGED <<mounted, canvas, buses>>

(* onKindChange of a router, or of a node without a handle: setLinkKind    *)
(* returns, the canvas takes the new kind.                                 *)
ChangeShownKind(n, kind) ==
  /\ mounted
  /\ n \in canvasNodes
  /\ handle[n] # NoData => handle[n].profile = "router" /\ Unlinked(n)
  /\ data' = [data EXCEPT ![n].kind = kind]
  /\ UNCHANGED <<mounted, canvasNodes, canvasEdges, store>>

-----------------------------------------------------------------------------
(* The child's worker of a link that is no longer live brings the uplink   *)
(* Down (LinkLifecycle!ChildEnds).                                         *)
UplinkReturns(n) ==
  /\ n \in uplinkBusy
  /\ \A e \in live : e.target # n
  /\ uplinkBusy' = uplinkBusy \ {n}
  /\ UNCHANGED <<mounted, canvas, handle, buses, stored, live, pinging>>

(* A link closes by itself; its watcher disconnects it                     *)
(* (LinkLifecycle!Watch).                                                  *)
LinkFails(e) ==
  /\ LinksFail
  /\ e \in live
  /\ live' = live \ {e}
  /\ UNCHANGED <<mounted, canvas, handle, buses, stored, uplinkBusy, pinging>>

(* pingSelected: the ping of a linked node that can reach another is       *)
(* pending for a while; that of any other fails in the same turn.          *)
Ping(n) ==
  /\ PingsLast
  /\ mounted
  /\ HasHandle(n) /\ ~Unlinked(n)
  /\ \E t \in canvasNodes \ {n} : HasHandle(t) /\ ~Unlinked(t)
  /\ pinging' = pinging \cup {n}
  /\ UNCHANGED <<mounted, canvas, handle, buses, stored, live, uplinkBusy>>

(* The last pending ping of node n is answered or times out. *)
PingEnds(n) ==
  /\ n \in pinging
  /\ pinging' = pinging \ {n}
  /\ UNCHANGED <<mounted, canvas, handle, buses, stored, live, uplinkBusy>>

(* onUnmounted, dispose: the links, then the buses and the nodes; the maps *)
(* of both are cleared last, which is not reached when a node refuses.     *)
Dispose ==
  \E o \in Outcomes({n \in NodeId : handle[n] # NoData}) :
    /\ mounted
    /\ mounted' = FALSE
    /\ canvasNodes' = {}
    /\ data' = [n \in NodeId |-> NoData]
    /\ canvasEdges' = {}
    /\ stored' = {}
    /\ live' = {}
    /\ IF o.refused = {}
       THEN handle' = [n \in NodeId |-> NoData] /\ buses' = {}
       ELSE /\ handle' = [n \in NodeId |->
                            IF n \in o.freed \cup o.refused THEN Dead ELSE handle[n]]
            /\ buses' = buses
    /\ uplinkBusy' = uplinkBusy \ o.freed
    /\ pinging' = pinging \ o.refused

Next ==
  \/ \E n \in NodeId, d \in Addable : AddNode(n, d)
  \/ \E b \in BusId : AddBus(b)
  \/ \E s, t \in canvasNodes : OnConnect(s, t)
  \/ \E E \in SUBSET canvasEdges, N \in SUBSET canvasNodes :
       /\ Cardinality(E) + Cardinality(N) \in 1 .. MaxSelected
       /\ DeleteSelected(E, N)
  \/ \E n \in NodeId, p \in Profile : ChangeProfile(n, p) \/ ChangeShownProfile(n, p)
  \/ \E n \in NodeId : ChangeKind(n) \/ ReplaceThrows(n)
  \/ \E n \in NodeId, k \in Kind : ChangeShownKind(n, k)
  \/ \E n \in NodeId : UplinkReturns(n)
  \/ \E e \in live : LinkFails(e)
  \/ \E n \in NodeId : Ping(n) \/ PingEnds(n)
  \/ Dispose

Spec == Init /\ [][Next]_vars

-----------------------------------------------------------------------------
(* Every variable has its type. *)
TypeOK ==
  /\ mounted \in BOOLEAN
  /\ canvasNodes \in SUBSET Id
  /\ data \in [NodeId -> Data \cup {NoData}]
  /\ canvasEdges \in SUBSET Edge
  /\ handle \in [NodeId -> Data \cup {NoData, Dead}]
  /\ buses \in SUBSET BusId
  /\ stored \in SUBSET Edge
  /\ live \in SUBSET Edge
  /\ uplinkBusy \in SUBSET NodeId
  /\ pinging \in SUBSET NodeId

(* As long as no link fails by itself, the canvas shows the links there    *)
(* are, whatever is selected, deleted or replaced.                         *)
CanvasInSync == canvasEdges = stored /\ stored = live

(* As long as no link fails by itself, wouldLoop comes to an end from      *)
(* every node ("every node has at most one uplink").                       *)
WalkTerminates == \A s \in canvasNodes : WalkEnds(canvasEdges, s)

Present(i) == HasHandle(i) \/ i \in buses
NoneDead == \A n \in NodeId : handle[n] # Dead

(* No link outlives its ends: what the store holds joins nodes and buses   *)
(* it can still call, although handlers throw half way (so refresh after a *)
(* disconnect never throws).  While the app is mounted, what the store     *)
(* holds is on the canvas; and as long as no free() has thrown, the buses  *)
(* on the canvas are those it holds, and unmounting leaves nothing.        *)
NothingLeaks ==
  /\ live \subseteq stored
  /\ stored \subseteq canvasEdges
  /\ \A e \in canvasEdges : {e.source, e.target} \subseteq canvasNodes
  /\ \A e \in stored : Present(e.source) /\ Present(e.target)
  /\ mounted \/ NoneDead =>
       /\ buses \subseteq canvasNodes
       /\ \A n \in NodeId : handle[n] # NoData => n \in canvasNodes
  /\ NoneDead => canvasNodes \cap BusId \subseteq buses

(* A live link joins what may be linked, although nodes are replaced by    *)
(* ones with another profile or kind, and each node and bus has at most    *)
(* one live link from above.                                               *)
LiveLinksLegal ==
  /\ \A e \in live :
       \/ /\ HasHandle(e.source) /\ handle[e.source].profile # "edge"
          /\ HasHandle(e.target) /\ handle[e.target].profile # "router"
       \/ /\ HasHandle(e.source) /\ handle[e.source].profile = "router"
          /\ e.target \in buses
       \/ /\ e.source \in buses
          /\ HasHandle(e.target)
          /\ handle[e.target] = [profile |-> "edge", kind |-> "packet"]
  /\ \A e, f \in live : e.target = f.target => e = f

(* The live links form no ring, so the tree of every node has a root, also *)
(* when dead edges are left on the canvas for wouldLoop to walk.           *)
NoRing == \A s \in canvasNodes : WalkEnds(live, s)

(* No device keeps a link handle on a bus without that of a router         *)
(* ("Removing a Router->Bus edge tears down the whole bus segment").       *)
BusSegmentWhole ==
  \A e \in stored : e.source \in BusId =>
    \E r \in stored : r.target = e.source

(* "One WasmNode per canvas node": what the canvas shows is there.         *)
OneNodePerCanvasNode ==
  \A n \in NodeId \cap canvasNodes : handle[n] # NoData

=============================================================================
