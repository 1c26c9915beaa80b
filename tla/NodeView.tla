------------------------------ MODULE NodeView ------------------------------
(***************************************************************************)
(* What the store (src/stores/topology.ts) shows of the nodes, and the     *)
(* part of a WASM node (wasm/src/node.rs) it shows: the watch loop that    *)
(* follows waitStatusChange, the services a node runs until it is freed,   *)
(* the periodic publisher, the ring of sensor samples a node keeps and the *)
(* ring of tapped frames all nodes share (frame_tap.rs), both drained by   *)
(* polling into logs of bounded length.                                    *)
(*                                                                         *)
(* A WASM node is known by the number of its creation.  The state changes  *)
(* of its interfaces and the readings that reach it are external.  A task  *)
(* that a state change wakes is polled before another task changes the     *)
(* state: the executor's queue is first in, first out.                     *)
(*                                                                         *)
(* free() throws while a ping borrows its node (TopologyStore).  Here it   *)
(* may throw at any time: the node is then never dropped and lives on, but *)
(* its handle is dead, and every call of it throws.                        *)
(***************************************************************************)
EXTENDS Integers, Sequences, FiniteSets

CONSTANTS NodeId,         \* canvas nodes
          Status,         \* the values of NodeStatus
          NoStatus,       \* undefined
          RingSize,       \* MAX_SAMPLES and MAX_EVENTS
          LogSize,        \* 50 samples and MAX_FRAMES
          MaxNodes,       \* bound on the WASM nodes created
          MaxItems        \* bound on the publishers started, the readings of
                          \* a node and the frames tapped, taken together

ASSUME NodeIdAssumption == NodeId # {}
ASSUME StatusAssumption == NoStatus \notin Status
ASSUME SizeAssumption ==
  RingSize \in Nat /\ LogSize \in Nat /\ LogSize > 0 /\ LogSize <= RingSize
ASSUME MaxAssumption ==
  MaxNodes \in Nat /\ MaxItems \in Nat

Node == 1 .. MaxNodes
NoNode == 0
Publisher == 1 .. MaxItems
NoPublisher == 0

VARIABLES mounted,     \* the app is mounted
          handle,      \* nodeHandles: the node of each canvas node
          refused,     \* the nodes whose free() threw
          created,     \* how many nodes were created
          owner,       \* the canvas node each was created for
          status,      \* what status() of each node would return
          wait,        \* the watch loop of each node
          base,        \* the status its pending waitStatusChange started from
          shown,       \* statuses
          services,    \* the nodes whose service tasks run
          started,     \* how many publishers were started
          publisher,   \* WasmNode::publisher_closer
          open,        \* the publishers whose closer is not closed
          running,     \* the publishers whose task runs
          publishing,  \* publishing
          samples,     \* WasmNode::samples
          readings,    \* how many readings reached each node
          sensorData,  \* sensorData
          events,      \* FRAME_EVENTS
          tapped,      \* how many frames were tapped
          frames       \* frames

nodes == <<mounted, handle, refused, created, owner>>
watching == <<status, wait, base, shown>>
publishers == <<started, publisher, open, running, publishing>>
sensing == <<samples, readings, sensorData>>
tapping == <<events, tapped, frames>>
vars == <<nodes, watching, services, publishers, sensing, tapping>>

Init ==
  /\ mounted = TRUE /\ refused = {}
  /\ handle = [id \in NodeId |-> NoNode] /\ created = 0
  /\ owner = [n \in Node |-> CHOOSE id \in NodeId : TRUE]
  /\ status = [n \in Node |-> NoStatus] /\ base = [n \in Node |-> NoStatus]
  /\ wait = [n \in Node |-> "none"]
  /\ shown = [id \in NodeId |-> NoStatus]
  /\ services = {}
  /\ started = 0 /\ open = {} /\ running = {}
  /\ publisher = [n \in Node |-> NoPublisher]
  /\ publishing = [id \in NodeId |-> FALSE]
  /\ samples = [n \in Node |-> <<>>] /\ readings = [n \in Node |-> 0]
  /\ sensorData = [id \in NodeId |-> <<>>]
  /\ events = <<>> /\ tapped = 0 /\ frames = <<>>

Items(n) == started + readings[n] + tapped

(* Its Drop has run. *)
Freed(n) == n <= created /\ handle[owner[n]] # n

(* Its handle can be used. *)
Usable(id) == mounted /\ handle[id] # NoNode /\ handle[id] \notin refused

-----------------------------------------------------------------------------
(* A plausible bug for Pushed: a full ring drops its newest element. *)
PushedPopBack(ring, x) ==
  IF Len(ring) >= RingSize THEN Append(SubSeq(ring, 1, Len(ring) - 1), x)
  ELSE Append(ring, x)

(* A full ring drops its oldest element. *)
Pushed(ring, x) ==
  IF Len(ring) >= RingSize THEN Append(Tail(ring), x) ELSE Append(ring, x)

(* A drained ring is appended to a log, which keeps the newest elements. *)
Logged(log, ring) ==
  LET all == log \o ring
      n == IF Len(all) > LogSize THEN LogSize ELSE Len(all)
  IN  [i \in 1 .. n |-> all[Len(all) - n + i]]

-----------------------------------------------------------------------------
(* A plausible bug for PublishersOf: freeing a node forgets its publisher. *)
PublishersOfNone(N) == {}

(* The publishers that WasmNode's Drop closes. *)
PublishersOf(N) == {publisher[n] : n \in N} \ {NoPublisher}

(* The samples of canvas nodes I, and their nodes' rings with them, go. *)
NoSamples(I) ==
  LET N == {handle[id] : id \in I} IN
  /\ sensorData' = [id \in NodeId |-> IF id \in I THEN <<>> ELSE sensorData[id]]
  /\ samples' = [n \in Node |-> IF n \in N THEN <<>> ELSE samples[n]]
  /\ readings' = [n \in Node |-> IF n \in N THEN 0 ELSE readings[n]]

(* createNode, after destroyNode when setProfile replaces a node: a node   *)
(* with its services; watch shows its status and waits for the next change *)
(* in the same turn.                                                       *)
CreateNode(id, s) ==
  LET n == created + 1 IN
  /\ n \in Node
  /\ mounted /\ handle[id] \notin refused
  /\ created' = n
  /\ handle' = [handle EXCEPT ![id] = n]
  /\ owner' = [owner EXCEPT ![n] = id]
  /\ services' = services \cup {n}
  /\ status' = [status EXCEPT ![n] = s]
  /\ base' = [base EXCEPT ![n] = s]
  /\ wait' = [wait EXCEPT ![n] = "pending"]
  /\ shown' = [shown EXCEPT ![id] = s]
  /\ publishing' = [publishing EXCEPT ![id] = FALSE]
  /\ NoSamples({id})
  /\ open' = open \ PublishersOf({handle[id]} \ {NoNode})
  /\ UNCHANGED <<mounted, refused, started, publisher, running, tapping>>

(* The nodes of canvas nodes I are freed: destroyNode, or dispose for all. *)
Freeing(I) ==
  /\ handle' = [id \in NodeId |-> IF id \in I THEN NoNode ELSE handle[id]]
  /\ shown' = [id \in NodeId |-> IF id \in I THEN NoStatus ELSE shown[id]]
  /\ publishing' = [id \in NodeId |-> publishing[id] /\ id \notin I]
  /\ NoSamples(I)
  /\ open' = open \ PublishersOf({handle[id] : id \in I} \ {NoNode})
  /\ UNCHANGED <<refused, created, owner, status, wait, base, services, started,
                 publisher, running>>

DestroyNode(id) ==
  /\ Usable(id)
  /\ Freeing({id})
  /\ UNCHANGED <<mounted, tapping>>

(* destroyNode, also when setProfile replaces a node: free() throws, and   *)
(* nothing after it is done.                                               *)
FreeRefused(id) ==
  /\ Usable(id)
  /\ refused' = refused \cup {handle[id]}
  /\ UNCHANGED <<mounted, handle, created, owner, watching, services, publishers,
                 sensing, tapping>>

Dispose ==
  /\ mounted
  /\ \A id \in NodeId : handle[id] \notin refused
  /\ mounted' = FALSE
  /\ Freeing(NodeId)
  /\ frames' = <<>>
  /\ UNCHANGED <<events, tapped>>

(* The canvas nodes before id in the order of nodeHandles, which is that   *)
(* of the nodes' creation.                                                 *)
Before(id) == {i \in NodeId : handle[i] # NoNode /\ handle[i] < handle[id]}

(* dispose: free() of id's node throws, so only those before it are freed  *)
(* and nothing is cleared; nobody gets past the dead handles any more.     *)
DisposeFails(id) ==
  /\ mounted
  /\ handle[id] # NoNode
  /\ \A i \in Before(id) : handle[i] \notin refused
  /\ mounted' = FALSE
  /\ refused' = refused \cup {handle[id]}
  /\ handle' = [i \in NodeId |-> IF i \in Before(id) THEN NoNode ELSE handle[i]]
  /\ open' = open \ PublishersOf({handle[i] : i \in Before(id)})
  /\ UNCHANGED <<created, owner, watching, services, started, publisher, running,
                 publishing, sensing, tapping>>
  /\ UNCHANGED <<events, tapped>>

-----------------------------------------------------------------------------
Woken(n) == wait[n] = "pending" /\ status[n] # base[n]

(* Interfaces change, also of a stack that outlives its node's handle;     *)
(* nobody sees it once the watch loop has ended.                           *)
StatusChanges(n, s) ==
  /\ n <= created
  /\ s # status[n]
  /\ ~Woken(n) /\ wait[n] # "ended"
  /\ status' = [status EXCEPT ![n] = s]
  /\ UNCHANGED <<nodes, wait, base, shown, services, publishers,
                 sensing, tapping>>

(* waitStatusChange resolves; a change wins over the node's end.  A freed  *)
(* node's waits resolve too.                                               *)
WaitResolves(n) ==
  /\ wait[n] = "pending"
  /\ Woken(n) \/ Freed(n)
  /\ wait' = [wait EXCEPT ![n] = IF Woken(n) THEN "changed" ELSE "freed"]
  /\ base' = [base EXCEPT ![n] = NoStatus]
  /\ UNCHANGED <<nodes, status, shown, services, publishers, sensing, tapping>>

(* A plausible bug for Continues: the handle is not compared. *)
ContinuesOnChange(n) == wait[n] = "changed"

(* A plausible bug for Continues: the node is shown once, not watched. *)
ContinuesNever(n) == FALSE

(* refresh throws if the handle is dead. *)
Continues(n) == wait[n] = "changed" /\ handle[owner[n]] = n /\ n \notin refused

(* A plausible bug for LoopTurns: the loop waits without refreshing. *)
LoopTurnsBlind(n) ==
  /\ wait[n] \in {"changed", "freed"}
  /\ wait' = [wait EXCEPT ![n] = IF Continues(n) THEN "pending" ELSE "ended"]
  /\ base' = [base EXCEPT ![n] = IF Continues(n) THEN status[n] ELSE @]
  /\ UNCHANGED <<nodes, status, shown, services, publishers,
                 sensing, tapping>>

(* refreshBus throws if dispose has freed the buses but not forgotten them.*)
AfterRefresh == IF mounted THEN {"pending"} ELSE {"pending", "ended"}

(* watch after its await: it goes on while the node is the canvas node's.  *)
LoopTurns(n) ==
  /\ wait[n] \in {"changed", "freed"}
  /\ IF Continues(n)
     THEN /\ \E w \in AfterRefresh : wait' = [wait EXCEPT ![n] = w]
          /\ base' = [base EXCEPT ![n] = status[n]]
          /\ shown' = [shown EXCEPT ![owner[n]] =
                         IF handle[owner[n]] = NoNode THEN @
                         ELSE status[handle[owner[n]]]]
     ELSE /\ wait' = [wait EXCEPT ![n] = "ended"]
          /\ UNCHANGED <<base, shown>>
  /\ UNCHANGED <<nodes, status, services, publishers, sensing,
                 tapping>>

(* refresh at the end of connect and of disconnectOne *)
Refresh(id) ==
  /\ Usable(id)
  /\ shown' = [shown EXCEPT ![id] = status[handle[id]]]
  /\ UNCHANGED <<nodes, status, wait, base, services, publishers,
                 sensing, tapping>>

(* The service tasks of a freed node end at the closer. *)
ServicesEnd(n) ==
  /\ n \in services
  /\ Freed(n)
  /\ services' = services \ {n}
  /\ UNCHANGED <<nodes, watching, publishers, sensing, tapping>>

-----------------------------------------------------------------------------
(* stop_publisher at the start of start_publisher *)
Replaced(n) == {publisher[n]}

(* togglePublisher, startPublisher *)
StartPublisher(id) ==
  LET n == handle[id]
      p == started + 1
  IN
  /\ Usable(id)
  /\ ~publishing[id]
  /\ \A m \in Node : Items(m) < MaxItems
  /\ started' = p
  /\ publisher' = [publisher EXCEPT ![n] = p]
  /\ open' = (open \ Replaced(n)) \cup {p}
  /\ running' = running \cup {p}
  /\ publishing' = [publishing EXCEPT ![id] = TRUE]
  /\ UNCHANGED <<nodes, watching, services, sensing, tapping>>

(* A plausible bug for Taken: the publisher is forgotten, not closed. *)
TakenOnly(n) == {}

(* stop_publisher takes the closer and closes it. *)
Taken(n) == {publisher[n]}

(* togglePublisher, stopPublisher *)
StopPublisher(id) ==
  LET n == handle[id] IN
  /\ Usable(id)
  /\ publishing[id]
  /\ open' = open \ Taken(n)
  /\ publisher' = [publisher EXCEPT ![n] = NoPublisher]
  /\ publishing' = [publishing EXCEPT ![id] = FALSE]
  /\ UNCHANGED <<nodes, watching, services, started, running,
                 sensing, tapping>>

(* A publisher's task ends at its closer. *)
PublisherEnds(p) ==
  /\ p \in running \ open
  /\ running' = running \ {p}
  /\ UNCHANGED <<nodes, watching, services, started, publisher,
                 open, publishing, sensing, tapping>>

-----------------------------------------------------------------------------
(* push_sample, called by the node's subscriber; nobody sees what reaches  *)
(* it once the node is freed or its handle is dead.                        *)
PushSample(n) ==
  /\ n \in services /\ handle[owner[n]] = n /\ Usable(owner[n])
  /\ Items(n) < MaxItems
  /\ readings' = [readings EXCEPT ![n] = @ + 1]
  /\ samples' = [samples EXCEPT ![n] = Pushed(@, readings[n] + 1)]
  /\ UNCHANGED <<nodes, watching, services, publishers,
                 sensorData, tapping>>

(* takeSamples throws at the first dead handle. *)
Polled(id) == \A i \in Before(id) \cup {id} : Usable(i)

(* pollSamples: takeSamples of every node *)
PollSamples ==
  /\ mounted
  /\ sensorData' = [id \in NodeId |->
       IF Polled(id) THEN Logged(sensorData[id], samples[handle[id]])
       ELSE sensorData[id]]
  /\ samples' = [n \in Node |-> IF handle[owner[n]] = n /\ Polled(owner[n])
                               THEN <<>> ELSE samples[n]]
  /\ UNCHANGED <<nodes, watching, services, publishers, readings,
                 tapping>>

(* Tap::record of a labelled sink; nobody sees it after dispose. *)
Record ==
  /\ mounted
  /\ \A n \in Node : Items(n) < MaxItems
  /\ tapped' = tapped + 1
  /\ events' = Pushed(events, tapped + 1)
  /\ UNCHANGED <<nodes, watching, services, publishers, sensing,
                 frames>>

(* pollFrames: takeFrameEvents *)
PollFrames ==
  /\ mounted
  /\ frames' = Logged(frames, events)
  /\ events' = <<>>
  /\ UNCHANGED <<nodes, watching, services, publishers, sensing,
                 tapped>>

TaskTurn(n) == WaitResolves(n) \/ LoopTurns(n) \/ ServicesEnd(n)

Next ==
  \/ \E id \in NodeId, s \in Status : CreateNode(id, s)
  \/ \E id \in NodeId : DestroyNode(id) \/ FreeRefused(id) \/ DisposeFails(id)
  \/ \E id \in NodeId : Refresh(id)
  \/ \E id \in NodeId : StartPublisher(id) \/ StopPublisher(id)
  \/ Dispose \/ PollSamples \/ PollFrames \/ Record
  \/ \E n \in Node, s \in Status : StatusChanges(n, s)
  \/ \E n \in Node : TaskTurn(n) \/ PushSample(n)
  \/ \E p \in Publisher : PublisherEnds(p)

(* Every woken task is polled. *)
Fairness ==
  /\ \A n \in Node :
       /\ WF_vars(WaitResolves(n))
       /\ WF_vars(LoopTurns(n))
       /\ WF_vars(ServicesEnd(n))
  /\ \A p \in Publisher : WF_vars(PublisherEnds(p))

Spec == Init /\ [][Next]_vars /\ Fairness
-----------------------------------------------------------------------------
(* Every variable has its type, and no ring or log exceeds its size. *)
TypeOK ==
  /\ mounted \in BOOLEAN /\ refused \in SUBSET Node
  /\ handle \in [NodeId -> Node \cup {NoNode}]
  /\ created \in 0 .. MaxNodes
  /\ owner \in [Node -> NodeId]
  /\ status \in [Node -> Status \cup {NoStatus}]
  /\ base \in [Node -> Status \cup {NoStatus}]
  /\ shown \in [NodeId -> Status \cup {NoStatus}]
  /\ wait \in [Node -> {"none", "pending", "changed", "freed", "ended"}]
  /\ services \in SUBSET Node
  /\ started \in 0 .. MaxItems
  /\ publisher \in [Node -> Publisher \cup {NoPublisher}]
  /\ open \in SUBSET Publisher /\ running \in SUBSET Publisher
  /\ publishing \in [NodeId -> BOOLEAN]
  /\ readings \in [Node -> Nat] /\ tapped \in Nat
  /\ \A n \in Node : Len(samples[n]) <= RingSize
  /\ \A id \in NodeId : Len(sensorData[id]) <= LogSize
  /\ Len(events) <= RingSize /\ Len(frames) <= LogSize

(* A canvas node shows a status if and only if it has a node, and every    *)
(* node it can still call is watched: a wait for a change from the status  *)
(* shown is pending, or the change has resolved it.                        *)
EveryNodeWatched ==
  mounted =>
    \A id \in NodeId :
      /\ (shown[id] = NoStatus) = (handle[id] = NoNode)
      /\ Usable(id) =>
           LET n == handle[id] IN
           \/ wait[n] = "changed"
           \/ wait[n] = "pending" /\ shown[id] \in {base[n], status[n]}

(* No watch loop calls into a node that is freed, although its canvas node *)
(* may have a new one ("Ends once the node is freed or replaced"), or one  *)
(* whose free() threw, which is neither.                                   *)
NeverWaitsOnFreed ==
  [][\A n \in Node : wait[n] # "pending" /\ wait'[n] = "pending" =>
       ~Freed(n)' /\ n \notin refused']_vars

(* At most one publisher per node is open, and it is there exactly if the  *)
(* canvas says so: no toggle, replacement or end leaves a second one, none *)
(* publishes for a node that is gone, and a node whose free() threw, which *)
(* goes on publishing, is still shown to.                                  *)
PublisherAgrees ==
  /\ mounted => \A id \in NodeId :
       publishing[id] = (handle[id] # NoNode /\ publisher[handle[id]] \in open)
  /\ open \subseteq {publisher[handle[id]] : id \in {i \in NodeId : handle[i] # NoNode}}

(* Consecutive elements, the oldest of them the first ever unless full. *)
NoGap(log) ==
  log # <<>> =>
    /\ \A i \in DOMAIN log : log[i] = log[1] + i - 1
    /\ log[1] = 1 \/ Len(log) = LogSize

(* However rarely JavaScript polls, and though full rings drop what is     *)
(* oldest, the readings shown of a node have no gap, nor have the frames   *)
(* (whose log is emptied when the app is unmounted).                       *)
ShownWhole ==
  /\ \A id \in NodeId : NoGap(sensorData[id])
  /\ frames # <<>> => \A i \in DOMAIN frames : frames[i] = frames[1] + i - 1

(* The status shown of a node that can be called is its status in the end: *)
(* no change slips in between refresh and waitStatusChange.                *)
StatusCatchesUp ==
  \A id \in NodeId, n \in Node :
    (Usable(id) /\ handle[id] = n /\ shown[id] # status[n])
      ~> (~Usable(id) \/ handle[id] # n \/ shown[id] = status[n])

(* The services, the watch loop and the publisher of a node whose Drop ran *)
(* end, also when dispose throws after it.                                 *)
FreedNodeEnds ==
  \A n \in Node :
    Freed(n) ~> (n \notin services /\ wait[n] = "ended" /\ publisher[n] \notin running)

=============================================================================
