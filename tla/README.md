# ergot-demo in TLA+

This directory specifies the browser demo of the ergot network stack: TLA+
modules translated from the Rust of `wasm/src` and from the TypeScript of
`src/src`, TLC configurations that check them on small instances, and proofs
that TLAPS checks for every value of the constants. Paths below are relative
to the repository's root.

## The system

A browser tab runs several ergot nodes. Each node is a `WasmNode` with a
network stack of its own; JavaScript links nodes to one another, point to
point or over a shared bus. Everything runs on the one JavaScript thread: a
Rust task (`spawn_local`) or a JavaScript handler runs without interruption
from one `await` to the next. Concurrency is the interleaving of these turns,
so **one turn is one action** in every module.

| component | state | operations | interacts through |
|---|---|---|---|
| point-to-point links (`wasm/src/node.rs`, `node/transport.rs`) | interface slots and uplink state in the stacks, `LinkState`, both nodes' `links`, tap labels, the closer, six or so tasks per link | `connect_to`, `WasmLink::disconnect`, Drop of `WasmLink`/`WasmNode`, the end of each transport task, the watcher | the shared closer (`WaitQueue`), weak references between nodes and links |
| in-memory pipe (`wasm/src/duplex.rs`) | byte buffer, one waker and one closed flag per end | `poll_read`, `poll_write`, `poll_close`, both Drops | wakers |
| stream link data path (`node/impairment.rs`, `node/transport.rs`) | two pipes per direction, the chunk the forwarder holds, latency and loss | transmit task, forwarder, receive task, `set_impairment` | pipes, closer |
| packet link data path (`node/transport.rs`, `node/impairment.rs`) | two bounded channels per direction, overflow count | `ChannelTx::send`, `ChannelRx::recv`, packet forwarder | channels, closer |
| shared bus (`node/bus.rs`) | members, the router's member id, the bus net id | `attach_router`, `attach_edge`, `BusTx::send`, `remove_member`, Drop | inboxes, `LinkState::on_disconnect` |
| bus address claim (`node/bus.rs`) | lease, failure count | claim, refresh, re-claim | the router's claim service (library), closer |
| seed lease (`node/seed.rs`) | lease, retry delay, failure count | assign, warm-up, refresh | the upstream seed router (library), closer |
| heartbeat and liveness (`node.rs`, `node/transport.rs`) | interface states, timers | heartbeat, timeout at either end | frames |
| frame tap (`node/frame_tap.rs`) | ring of events, generation counter | `record`, `takeFrameEvents` | tap labels |
| node services (`node.rs`) | sample ring, publisher closer | ping, ping server, subscriber, publisher | stack, closers |
| status watch (`node.rs`, `stores/topology.ts`) | the status last seen | `waitStatusChange`, `watch` | stack |
| topology store and canvas (`src/src/stores/topology.ts`, `App.vue`, `components/ErgotNode.vue`) | canvas nodes and edges, handle maps, edge endpoints | add, connect, delete, change profile, change kind, dispose | the WASM API |

The ergot library is a git dependency: its workers, queues and services are
modelled by what `wasm/src` relies on and are marked external where they
appear.

What is hard here, and what each component must guarantee:

* *Links.* Closing one closer ends tasks in any order while JavaScript may
  already build the next link on the same uplink and slot. No late task may
  touch the replacement; nothing may be left of a link that was given up; a
  stale handle must not take away a newer link's label.
* *Pipe and stream path.* No lost wakeup, no lost or reordered byte, no task
  that survives its link although one of the waits ignores the closer.
* *Canvas.* The canvas and the network are two copies of one graph, kept equal
  by hand-written code in many handlers; rings must be refused on the copy
  that the user sees. A handler can stop half way: `free()` of a node that an
  async method borrows throws.
* *Bus.* A send resumes after its delay on a list of members that has changed;
  a router leaves late, after another took its place.
* *Packet path.* A full channel drops a frame, counts it and must not end the
  link; a frame with a short delay must not overtake one with a long delay.
* *Claims and leases.* Requests are lost, answered late and repeated, refreshes
  fail, routers are replaced; a device must stop using an address before the
  router gives it to another.
* *Liveness of a link.* Both ends time out on silence; a dead uplink must still
  be able to send what brings the link back.
* *Watch loops and publishers.* A loop that resumes after its node was replaced
  must not touch the freed handle; no status change may slip in between reading
  the status and waiting for the next; no second publisher may run on.

## Modules

### `LinkContract`, `LinkLifecycle`, `MCLinkLifecycle`

`LinkLifecycle` is the core. A link is known by its generation, the number
`next_link_generation` gives it. The variables follow the code's objects:
`slot` and `uplinkUp` are the interface tables of the parents and children,
`registry` is `WasmNode::links`, `held` the `WasmLink` handles that JavaScript
has, `closed` the closers, `disconnected` the flag of `LinkState`, `tasks` the
spawned tasks still running, `uplinkTap` and `downTap` the tap labels with
their generations.

| action | code |
|---|---|
| `Connect`, `ConnectNoSlot`, `ConnectRollback` | `connect_to` and its two failures after the checks |
| `JsDisconnect`, `FreeLink`, `FreeNode` | `WasmLink::disconnect`, Drop of `WasmLink`, Drop of `WasmNode` |
| `ParentEnds`, `ChildEnds`, `TxEnds`, `HelpersEnd` | the code after each transport task's run returns |
| `Watch` | the watcher `connect_to` spawns |

The library's part is when a worker returns: at any time with an error or an
end of stream, and certainly once the closer is closed. A worker that returns
sets its interface Down, which the comment at `transport.rs:225` states.
`helpers` stands for the forwarders and the heartbeat together, which touch no
state of this module and only wait for the closer. Which of the two kinds of
uplink state (Inactive, Active) an uplink is in does not matter here: only
Down is told apart, as `uplink_free` does.

`LinkContract` is the API's promise without tasks: a link takes a free slot
and a free uplink, never reopens, and gives each back once, after it is shut.
`ImplementsContract` is the refinement, liveness included.

### `Pipe`, `DuplexPipe`

`Pipe` has one operator per branch of the polls of `duplex.rs`; a waker is a
Boolean. `DuplexPipe` puts a writer task and a reader task around one pipe and
lets them be polled spuriously, as a `select` does.

### `StreamLink`, `PacketLink`, `DataPath`, `LossyFifo`

The data path of a link, for each kind of transport, and what both promise.
`StreamLink` composes two pipes with the transmit task, the forwarder of
`impairment.rs` and the receive task of one direction, all sharing the closer.
`PacketLink` has both directions, because the worker of an end is the sender
of one and the receiver of the other: per direction the interface's queue, two
bounded channels with the forwarder between them, and the counter
`overflow_drops` that all share. Bytes and frames are numbered in the order in
which they are accepted, so that loss, duplication and reordering can be seen.
COBS frames and the contents of frames are not modelled.

| action of `PacketLink` | code |
|---|---|
| `Accept` | the interface's sink (external) |
| `WorkerSend`, `WorkerRecv` | `ChannelTx::send`, `ChannelRx::recv` |
| `WorkerEnds`, `WorkerFails` | `spawn_packet_worker` after its run returned |
| `FwdTake`, `FwdDelayed`, `FwdEnds` | the loop of the packet forwarder: `delay_and_drop`, `try_send`, the ends of both channels |
| `Close`, `SetImpairment` | `WasmLink::disconnect`, `WasmLink::set_impairment` |

In `PacketLink` a `select` between a channel and the closer takes the channel
when both are ready, which it polls first; the latency is read
when a frame is taken and the loss when its delay is over. `DataPath` makes the
choice of `connect_to`: a link is of one kind and the other kind's tasks take no
step. `LossyFifo` is the abstract link: units go in, each comes out in order and
once or is lost, and an open link keeps none for ever. Both transports implement
it, their refinement mappings being what was received last and how much.

### `Lease`, `Heartbeat`

Two tasks of the code have the same shape: ask for a lease, sleep, refresh,
count failures, start over. `Lease` models both, and `kind` says whose tasks
run: those of bus devices that claim an address (`spawn_bus_claim`) or that of a
bridge's downlink which asks a seed router for a net (`spawn_seed_assign`). What
differs is in the actions: a claim watches its closer while a request is out, a
seed does not; a device takes its interface back to net 0 before it asks again,
a bridge keeps routing the old net until it has a new one; a seed waits until
its uplink knows its own net. The uplink is `Heartbeat`, an instance with one
step per beat, so that what a seed waits for is brought about, lost and regained
by the modelled liveness of the link.

The router's table is external: a free name is let out, a refresh of a lease it
does not have is refused, a lease expires. `Loses`, `RouterReplaced` and
`Stabilises` are the network. A request or a reply that arrives after its
timeout finds nobody waiting; whether it then arrives or is lost makes no
difference to the task, and the table is as after a reply that was lost, so late
messages are covered by lost ones. Time is discrete (`Tick`), one heartbeat a
tick; a timer that has run out fires before the next tick. The pause of a seed
that grows, and its warm-up ping, lie within `PauseTime` and `RefreshDelay`.

### `NodeView`, `MCNodeView`

What the store shows of the nodes: the watch loop of `topology.ts` around
`waitStatusChange`, the service tasks and the publisher of a `WasmNode`, and two
rings, of sensor samples and of tapped frames, both drained by polling into logs
of bounded length. `LoopTurns` is what the loop does after its `await`, with
`refresh` and the next `waitStatusChange` in the same turn; `CreateNode` is
`createNode` after `destroyNode`, so that a canvas node may get a new WASM node
while the old one's loop, services and publisher still run. Readings and frames
are numbered, so that gaps can be seen.

`free()` may throw at any call (`FreeRefused`, `DisposeFails`; why is told under
`TopologyStore`). The node is then in `refused`: its handle stays in the map but
every call of it throws, its Drop does not run, so its services and its publisher
go on. What throws at such a handle is modelled where it bites: `refresh` ends the
watch loop, `pollSamples` stops at the first dead handle (`Polled`), `dispose`
stops there too and clears nothing. `Usable` are the handles that can be called.

### `TopologyStore`, `MCTopologyStore`

The canvas (`canvasNodes`, `canvasEdges`, `data`) and the store (`handle`,
`buses`, `stored`, `live`, `uplinkBusy`). `stored` is what `linkHandles` and
`linkEndpoints` hold, `live` those of them whose link has not disconnected.
`DeleteSelected`, `ChangeProfile`, `ChangeKind` and `Dispose` are whole
handlers, with every `destroyNode` and `disconnect` inside them. Calls that are
refused (a failed validation, a full router) change nothing and are left out, but
not handlers that throw half way. `WasmNode::ping` is an async method of `&self`
(`node.rs:790`), so its future borrows the node until the answer or the time-out:
500 ms for the ping with which `connect` warms a router's new link
(`topology.ts:252`), 1000 ms for the user's (`App.vue:238`). `free()` of a borrowed
node throws (the comment at `node.rs:498` knows of such borrows). By then the
generated `free()` has nulled the handle's pointer: the node is never dropped and
later uses of the handle throw as well, which `Dead` says. `pinging` are the
borrowed nodes; `Outcomes` what of a selection is freed before one refuses
(`DeleteSelected`, `Dispose`), in an order that is left open; `ReplaceThrows` is
`setProfile` or `setLinkKind` of a borrowed node. A ping of a node without a link
fails in the turn it starts in. `servePing` and `subscribeSensor` borrow their node
for that turn only, and `waitStatusChange` not at all.

Two steps happen behind the store: `UplinkReturns`, when the worker of a torn
link ends (`LinkLifecycle!ChildEnds`), and `LinkFails`, a link that closes by
itself, which the watcher in `connect_to` provides for and which the constant
`LinksFail` allows or forbids.

### `BusMedium`, `MCBusMedium`

An attachment is its member id. `members` and `routerMember` are the fields of
`BusState`, `closed` and `disconnected` those of each attachment's
`LinkState`, `worker` and `watcher` its tasks, `inbox` its bounded channel and
`uplinkUp` the devices' interface state.

| action | code |
|---|---|
| `AttachRouter`, `AttachEdge` | `attach_router`, `attach_edge` with `add_member` and `finish_attachment` |
| `JsDisconnect`, `FreeLink`, `FreeNode`, `FreeBus` | `WasmLink::disconnect` and the Drops, through `remove_member` |
| `WorkerEnds`, `Watch` | the end of `spawn_packet_worker`, the watcher of `finish_attachment` |
| `Receive` | `ChannelRx::recv` |
| `BeginSend`, `SendDrops`, `Broadcast` | `BusTx::send` before and after its delay |

`BusTx::send` is two turns: between them the bus may be freed, the sender
detached and any member gone. `Broadcast` goes on with what it finds then. A
member list may lose a member whose worker died before its watcher runs;
`MembersAreLive` says what is still guaranteed. What a member has heard is
recorded in `heard`, so that the order of frames, which are numbered when a
worker takes them from its queue, can be stated as an invariant. An attachment
that fails on the way (no free interface, no worker queue) is rolled back
within its turn and is left out, as are the net id and the overflow counter.
The address a device claims is in `Lease`.

## Runs

| run | instance | question |
|---|---|---|
| `link_chain` | router, bridge, edge; 2 packet links; 2 slots | do slots, registries, labels and closers stay with their link, whatever goes first? |
| `link_contract` | router, edge; 2 stream links | do the tasks keep the API's contract, and does a link that was given up disappear? |
| `duplex_pipe` | capacity 3, chunks of at most 2, 6 bytes | is the pipe a FIFO without lost wakeups? |
| `data_path` | stream: capacity 2, chunks of at most 2, 5 bytes; packet: queue and channels of 1, 4 frames, counter up to 2 | is a link of either kind a lossy FIFO, is every loss accounted for, does it stay up, do its tasks end? |
| `bus_medium` | router, 2 devices; 3 attachments, inboxes of 2, 2 frames | do the bus, its members and the devices' uplinks agree, and are frames kept in order? |
| `bus_live` | router, device; 3 attachments, inboxes of 1, 1 frame | does an attachment that was given up disappear? |
| `lease` | 2 devices or 1 downlink, 2 names, 2 failures, a lease of 6 ticks | is no address used twice, does every lease settle, does every task of a closed link end, does the uplink heal? |
| `node_view` | 1 canvas node, 2 WASM nodes, rings and logs of 2, 3 items | is each node and no freed one watched, also when `free()` throws, is what is shown current and without gaps, is there one publisher? |
| `topology_sync` | 3 nodes, a bus, 3 edges | do canvas and network stay equal when links close only on request, with pings that make `free()` throw? |
| `topology_fail` | 2 nodes, a bus, 3 edges | what holds when links close by themselves and `free()` throws? |
| `topology_ring` | 3 nodes, 3 edges | is no ring formed, with dead edges on the canvas? |
| `topology_kind` | 1 node | violation: changing a node's kind |

The properties are conjunctions where several facts answer one question.
`InterfacesOwned` is who owns an uplink and a slot; `LinksLeaveWhole` is the
agreement of both registries, the handle and the closer about a link that
leaves; `Drains` is delivery and the end of the stream; the `Path...`
properties and `EverythingAccounted` join the statements of `StreamLink` and
`PacketLink` of the same name. The type invariants of `LinkLifecycle`,
`DuplexPipe`, `BusMedium`, `Lease` and the parts of `NodeView`'s that its proofs
need are proved and not run again.

Bounds. Two links suffice for a parent and an uplink to be contended for, and
a chain of a router, a bridge and an edge has a node with both roles; an old
link whose tasks still run while the next uses the uplink is the case that a
third link would only repeat. A pipe of three bytes is full, partly full and
empty around chunks of two, so writes are partial; a stream link of capacity two
adds the forwarder's chunk between two full pipes. Queues and channels of one
frame overflow at both hops while another frame is delayed; four frames are
enough to overflow the counter's limit of two. Two devices contend for a name;
with unit times and two failures a lease of six ticks outlives its last refresh
by exactly one tick, the least the assumption on the margin allows. Two WASM
nodes in a row on one canvas node are a loop, a service and a publisher of a
replaced node beside those of its successor; three items overflow rings and logs
of two. Three edges are the smallest ring beyond the direct one, and on the bus
they are a dead router edge, its replacement and a device. Three attachments on
the bus are a router and two devices that hear each other, a router, its
successor and a device, or a device that attaches twice; an inbox of two holds
two frames of one sender or of two, so their order is seen. That a full inbox
drops frames without harm is `FramesInOrder`, for inboxes of every size.

`node_view` has one canvas node: a second one, with three items, is more than TLC
can visit here. What needs another one (the order of frees and of polls, `Before`
and `Polled`) rests on the proofs, which are for any number.

`PingsLast` says whether a ping may still be pending when the next handler runs.
It is TRUE in `topology_sync` and `topology_fail`. In `topology_ring`, where it
would multiply the states, it is FALSE: `NoRing` speaks of live links only, and
`LiveLinksFormNoRing` is proved for both values.

`MaxLinks`, `MaxBytes`, `MaxChunk`, `MaxFrames`, `MaxMembers`, `MaxNodes`,
`MaxItems`, `MaxEdges` and `MaxSelected` are the bounds and appear in guards of
the actions that would exceed them. `DropsLimit` is `u32::MAX` in the code, where
the counter saturates; it is small here so that it does. Deadlock is not checked
where everything may be freed, closed or unmounted, after which nothing has to
happen. It is checked in `lease`, where time never stops.

Fairness. A task woken by a closed closer is in the executor's queue and runs:
weak fairness of each `...Ends` action *under the condition that the closer is
closed*, of the watcher and of the helpers. Nothing obliges JavaScript to call
anything, an open link's or attachment's worker to end, or the loss to relent.
In `StreamLink` and `PacketLink` a task that can be polled is polled and timers
fire; a packet worker's loop favours neither its queue nor its channel for ever,
hence one fairness condition for each. In `BusMedium` a running worker receives
what is in its inbox. In `Lease` tasks take their turns, requests that were not
lost are answered and time passes; whether the network ever stabilises is left
open, and the properties say "once it has". In `NodeView` every woken task is
polled, and nobody has to poll the rings.

### What they show

All properties hold except one, and each fails for a mutant of the code that
`PROJECT.json` names. **`topology_kind`**: `setLinkKind`
(`topology.ts:312-319`) destroys the node, which frees the WASM handle, and
then reads `handle.profile` to decide how to create the new one. A freed
handle throws, so `createNode` is never called: the node remains on the canvas
without a WASM node, and cannot be linked any more. The comment above the
function promises "Replace a node's uplink kind".

A pending ping leaves more behind. `deleteSelected` of a bus and a router that
pings may free the bus and then throws before `removeNodes`, so the bus stays on the canvas
without a handle, and the router with a dead one. `dispose` ("Tear down every live
WASM handle and clear all topology state", `topology.ts:286`) throws at line 290:
the nodes after the borrowed one are not freed and no map is cleared. The borrowed
node's services and publisher go on in either case. So `NothingLeaks` says what
holds nevertheless (no stored link outlives its ends; what the store holds is on
the canvas of a mounted app) and keeps the rest, the same buses on both sides and
an empty store after unmounting, for as long as no `free()` has thrown (`NoneDead`).
`NodeView`'s properties speak of handles that can be called and of nodes whose Drop
has run.

`topology_sync` holds for links that close on request only. When a link closes
by itself its edge stays on the canvas; the run `topology_fail` states what
still holds then. `wouldLoop` is safe from forming rings in that case
(`NoRing`), but its walk over the canvas is not guaranteed to end, since two
edges into one node may alternate as its newest.

Two results about what the code leaves open. `NamesExclusive` is stated for as
long as the router that leased an address is there: `attach_router` gives a new
router an empty table, and until the old devices' refreshes have been refused
often enough a new device may get an address that is in use. `LeasesSettle`
shows that this ends. And a bridge that lost its net goes on routing it until
the seed router gives it another, so `NamesExclusive` is about bus devices only.

## Proofs

TLAPS checks, for all values of the constants that the named `ASSUME`s allow:

* `LinkLifecycleProofs`: `TypeCorrect`, `InterfacesAreOwned`, `TapsAreOwned`,
  `LinksAreWhole`, the action property `TapsLeaveWithOwner`, and
  `KeepsContract`: the initial states and the steps of `LinkLifecycle` are ones
  of `LinkContract`.
* `DuplexPipeProofs`: `PipeTypeCorrect`, `NoWakeupIsLost`, `BytesStayInOrder`.
* `DataPathProofs`, with `PacketLinkProofs`: `PathTypes`, `PathOrdered`,
  `PathAccounts`, `OverflowIsCounted`, `PathStays`, for both kinds of link, and
  `BytesAreLossyFifo` and `FramesAreLossyFifos`: the initial states and the
  steps of either kind of link are ones of `LossyFifo`, for frames in both
  directions.
* `BusMediumProofs`: `BusTypeCorrect`, `BusHasOneController`,
  `MembersMatchAttachments`, `UplinksExclusive`, `FramesInOrder`.
* `LeaseProofs`: `LeaseTypes`, `LeaseOutlives`, `AddressesExclusive`.
* `NodeViewProofs`: `NodesAreWatched`, `WaitsOnLivingOnly`, `ShownIsWhole`,
  `PublishersAgree`.
* `TopologyStoreProofs`: `StoreTypes`, `StoreLeaksNothing`, `LinksAreLegal`,
  `BusSegmentsAreWhole`, `LiveLinksFormNoRing`; and, for links that do not close
  by themselves, `CanvasStaysInSync` and `LoopCheckReturns`.

**Links.** The inductive invariant `IInv` of `LinkLifecycle` is the conjunction
of the invariants the runs check and of `LinksWellFormed` (a generation that no
link took has no state). They need one another: a worker frees the right slot
only because slots have one owner, that a label is replaced safely follows from
the uplink having no worker when it is Down, and that a freed node's links are
all disconnected follows from the registries' agreement. `Disconnect` is shared
by four actions and has lemmas of its own. `KeepsContract` uses the same
invariant: the holder of an uplink is unique (`HolderIsWorker`), and a free
interface means that fewer links than slots hold one (`FreeSlotLeavesRoom`, by
counting an injection from links to slots).

**Bus.** `IInv` adds `IdsWellFormed` (ids from `next_member` on are unused, tasks
and handles belong to attachments), without which a new attachment might inherit
an old one's state, and `FramesNumbered` (a frame being sent is newer than
everything its sender has sent before, wherever that is now), from which a
broadcast keeps the order in every inbox.

**Data paths.** `InOrder` is not inductive: it compares positions in a
concatenation of queues. The invariant instead cuts the numbers of what was
accepted into ranges, one per place (received, second hop, held, first hop,
queue): each place holds an ascending run within its range (`Within`). A step moves one cut, so it disturbs
two neighbouring runs; the lemmas at the top of `PacketLinkProofs` say what appending, taking the head, cutting and joining do
to a run and its members. Dropped frames are in no place and in exactly one of
two sets, which makes the overflow count a cardinality that grows by one. That a
forwarder returns only when the link is closed needs that nobody else drops the
ends of the pipes it uses (`Ends`; `ClosesFirst` for packets). `PacketLinkProofs` proves
the step for one link and `DataPathProofs` uses its lemmas through an instance;
`SameNext` and `SameProperties` say that the instance it proves about is the one
`DataPath` runs.

That a link is a lossy FIFO asks for more than order. Its `Deliver` takes
everything awaited up to the unit delivered, so nothing that is still awaited may
have been overtaken. The account of what was accepted gives that, but
`EverythingAccounted` speaks of open links only, and a link that is closing still
delivers. The invariant therefore keeps the account of a direction for as long as
both its forwarder and its receiver are there (`Gone` says when not), closed or
not. Once the forwarder has returned, what it held is lost, and what is left is
that no number is missing below the newest one that the receiver's channel or
pipe holds (`NothingOvertaken` for frames, `NothingSkipped` for bytes). The
counts of what is in a queue and of what is awaited up to its last element are
then the same (`FirstArrive`, by a bijection).

**Canvas.** `wouldLoop` walks the edges on the canvas, and takes the newest one
into each node; what must form no ring are the live links. The two differ when
links close by themselves and leave their edges behind. `StoreInv` bridges them:
a live link is the newest edge into its child (`LiveIsNewest`), which holds
because a child whose uplink is busy is refused a second link (`ChildBusy`) and
because ids are taken in order and never reused (`FreshIds`). So a walk that
meets no loop follows the live links of every ancestor, and the new link
can be given a place above everything below it: `Ranked` says that there are
ranks that grow along every live link, and a walk along them ends. That each link
is between kinds that may be linked, also after a node's profile or kind was
replaced, needs that no edge joins two buses and that a replaced node's links are
all gone from the store (`NothingLeaks`). A `free()` that throws does not break
this, because every handler tears down a node's links before it frees the node: so
the ends of what is stored can be called (`Present`), also half way through.

`CanvasStaysInSync` and `LoopCheckReturns` have `~LinksFail` as a hypothesis, as
their run has `LinksFail = FALSE`: both are false otherwise. `FiniteAssumption`
says that there are finitely many ids to choose from: a walk that visits no node
twice must end, which is a pigeonhole argument. A session adds a finite number of
nodes, one by one, and the theorems hold for every such number. `Walk` is a
recursive function; `WalkExists` shows that a function with its equation exists
and `WalkSteps` that it satisfies it, and what an induction along the walk would
show is proved from the least counterexample (`LeastOf`).

**Leases.** That two devices never use one address follows from each using only
what the table holds for it, and that from `LeaseOutlivesUse`: the time until
the last failure a task allows itself is less than what is left of its lease.
The bound is inductive because every failure takes a request and a retry off the
time still at risk, and a tick takes one off both sides. `GrantFresh` carries it
over a reply that is on its way. The proof rests on `MarginAssumption`, a promise
of the library: a lease that is refreshed when its `min_refresh` asks outlives
four requests and two retries (1.5 s each and 2 s each).

**Nodes.** Three invariants, one per concern. `WatchInv` shows that a handle is
the newest node made for its canvas node, so the loop's comparison of handles
tells it whether its node was freed; `ShownInv` that a log and the ring it is
drained from follow one another, or the ring has dropped so much that it is full
and will replace the whole log, for which a log must not be longer than its ring
(`SizeAssumption`; 50 samples and rings at least as long in the code); `PubInv`
that a node's open publisher is the one its closer field names. A `dispose` that
throws frees some nodes and forgets nothing that the store shows of them, so what is
shown is compared with the nodes only while the app is mounted.

Assumptions are the named `ASSUME`s of the modules: profiles and kinds are what
the enums allow, capacities are positive (`duplex.rs:115` asserts it), bounds
are natural numbers, and the two above.

Every invariant, every action property and the safety half of every refinement
that the passing runs check is proved, except where a module has liveness
properties only (`Heartbeat`). Only model-checked: liveness (`TeardownCompletes`,
`Drains`, `PathTasksEnd`, `AttachmentEnds`, `LeasesSettle`, `TaskEnds`,
`BothEndsHeal`, `StatusCatchesUp`, `FreedNodeEnds`, and the liveness halves of
`BytesImplementLossyFifo`, `FramesImplementLossyFifo` and `ImplementsContract`),
because the prover has no rules for fairness and ENABLED here.

## Not modelled

* *User interface*: rendering, formatting, key handling, the animation of edges,
  the choice of a ping's address (`BusNode.vue`, `FrameInspector.vue`,
  `HelpModal.vue`, `utils/keyboard.ts`, `main.ts`), and logging
  (`wasm/src/lib.rs`). They hold no state of the network.
* *The library*: routing of frames, the sockets behind ping and topics, COBS.
  What `wasm/src` relies on is external in the modules. For this reason the
  hand-over of a child's one frame queue from the transmit task of an old link to
  that of its replacement is listed as a hazard and left open, as is what the
  library does with a seed router's answer for a slot that another link has taken
  meanwhile.
* *Frame tap*: the two sinks that record a frame after it was queued, and the
  wrap of the 64-bit generation, which no run of the program reaches.
* *Bus*: the net id, the overflow count and the rollback of an attachment that
  fails within its turn. Liveness is off on a bus, so its devices are not in
  `Heartbeat`.
* *The candidate of a claiming device*: until its claim is granted a device
  listens at its candidate (`bus.rs:253`, `bus.rs:421`), which may equal an address
  leased to another device. `NamesExclusive` speaks of leased addresses only.
* *Requests answered at once* (a ping, one published reading): they keep no state.

## Plan

What is left, in this order: the sinks of the frame tap around the interface
queue; the net id of a bus, composed with `Lease` through attachments that come
and go; the beat and its reply as two messages in `Heartbeat`.
