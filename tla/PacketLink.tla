----------------------------- MODULE PacketLink -----------------------------
(***************************************************************************)
(* The data path of a packet link (wasm/src/node/transport.rs and          *)
(* wasm/src/node/impairment.rs).  Per direction: the interface's queue,    *)
(* the worker of the sending end, a bounded channel, the impairment        *)
(* forwarder, a second bounded channel, the worker of the receiving end.   *)
(* The four tasks share the closer and one counter of dropped frames.      *)
(*                                                                         *)
(* External are the queue, the channel and the loop of PacketRxTxWorker,   *)
(* which sends what its queue holds and receives what its channel holds,   *)
(* returns once a receive or a send fails, and may fail by itself.         *)
(*                                                                         *)
(* A direction is known by the end it leaves.  The k-th frame an end's     *)
(* queue accepts is the number k.                                          *)
(***************************************************************************)
EXTENDS Integers, Sequences, FiniteSets

CONSTANTS QueueFrames,   \* frames that fit in an interface's queue
          HopFrames,     \* PACKET_QUEUE_FRAMES and the slot of the sender
          MaxFrames,     \* bound on the frames accepted at both ends
          DropsLimit     \* u32::MAX, where overflow_drops stops

End == {"parent", "child"}
Peer(e) == IF e = "parent" THEN "child" ELSE "parent"
Frame == 1 .. MaxFrames
NoFrame == 0

VARIABLES queue,      \* the interface queue of each end
          hop1,       \* the channel from each end's worker to its forwarder
          held,       \* the frame each forwarder delays
          hop2,       \* the channel from there to the other end's worker
          worker,     \* the ends whose packet worker runs
          fwd,        \* the directions whose forwarder runs
          closed,     \* the link's closer is closed
          latency,    \* the impairment has a latency
          loss,       \* the impairment drops frames
          drops,      \* Impairment::overflow_drops
          called,     \* somebody else closed the link, or a worker failed
          sent,       \* how many frames each queue accepted
          lost,       \* the frames the impairment dropped
          refused,    \* the frames a full channel refused
          received    \* the frames received from each end, in order

path == <<queue, hop1, held, hop2>>
tasks == <<worker, fwd>>
params == <<latency, loss>>
account == <<sent, lost, refused, received>>
vars == <<path, tasks, closed, params, drops, called, account>>

Init ==
  /\ queue = [e \in End |-> <<>>]
  /\ hop1 = [e \in End |-> <<>>]
  /\ held = [e \in End |-> NoFrame]
  /\ hop2 = [e \in End |-> <<>>]
  /\ worker = End /\ fwd = End
  /\ closed = FALSE
  /\ latency = FALSE /\ loss = FALSE
  /\ drops = 0
  /\ called = FALSE
  /\ sent = [e \in End |-> 0]
  /\ lost = [e \in End |-> {}]
  /\ refused = [e \in End |-> {}]
  /\ received = [e \in End |-> <<>>]

-----------------------------------------------------------------------------
(* WasmSink: the queue takes a frame while the interface is up; when it is *)
(* full the send fails and there is no frame.                              *)
Accept(e) ==
  /\ e \in worker
  /\ Len(queue[e]) < QueueFrames
  /\ sent["parent"] + sent["child"] < MaxFrames
  /\ sent' = [sent EXCEPT ![e] = @ + 1]
  /\ queue' = [queue EXCEPT ![e] = Append(@, sent[e] + 1)]
  /\ UNCHANGED <<hop1, held, hop2, tasks, closed, params, drops, called,
                 lost, refused, received>>

(* A plausible bug for Full: one frame too many is let in. *)
FullLate(c) == Len(c) > HopFrames

(* try_send fails with is_full. *)
Full(c) == Len(c) >= HopFrames

(* saturating_add(1) *)
Counted == IF drops < DropsLimit THEN drops + 1 ELSE drops

(* A plausible bug for Sends: a frame is dropped without being counted. *)
SendsSilently(e, f, c, c1) ==
  /\ c1 = IF Full(c[e]) THEN c ELSE [c EXCEPT ![e] = Append(@, f)]
  /\ refused' = IF Full(c[e]) THEN [refused EXCEPT ![e] = @ \cup {f}] ELSE refused
  /\ UNCHANGED drops

(* try_send of frame f of direction e into channel c, which becomes c1: a  *)
(* full channel drops the frame and counts it.                             *)
Sends(e, f, c, c1) ==
  IF Full(c[e])
  THEN /\ c1 = c
       /\ drops' = Counted
       /\ refused' = [refused EXCEPT ![e] = @ \cup {f}]
  ELSE /\ c1 = [c EXCEPT ![e] = Append(@, f)]
       /\ UNCHANGED <<drops, refused>>

(* ChannelTx::send: the worker sends the next frame of its queue. *)
WorkerSend(e) ==
  /\ e \in worker /\ e \in fwd
  /\ queue[e] # <<>>
  /\ queue' = [queue EXCEPT ![e] = Tail(@)]
  /\ Sends(e, Head(queue[e]), hop1, hop1')
  /\ UNCHANGED <<held, hop2, tasks, closed, params, called, sent, lost, received>>

(* ChannelRx::recv: the worker receives the next frame of its channel. *)
WorkerRecv(e) ==
  LET d == Peer(e) IN
  /\ e \in worker
  /\ hop2[d] # <<>>
  /\ hop2' = [hop2 EXCEPT ![d] = Tail(@)]
  /\ received' = [received EXCEPT ![d] = Append(@, Head(hop2[d]))]
  /\ UNCHANGED <<queue, hop1, held, tasks, closed, params, drops, called, sent,
                 lost, refused>>

(* spawn_packet_worker after run: the closer is closed, and the worker     *)
(* drops its ends of both channels.                                        *)
WorkerReturns(e) ==
  /\ e \in worker
  /\ worker' = worker \ {e}
  /\ closed' = TRUE
  /\ hop2' = [hop2 EXCEPT ![Peer(e)] = <<>>]
  /\ UNCHANGED <<queue, hop1, held, fwd, params, drops, account>>

(* recv fails for the closer or the end of its channel, but only when no   *)
(* frame is left in it; send fails when the forwarder is gone.             *)
WorkerEnds(e) ==
  /\ \/ hop2[Peer(e)] = <<>> /\ (closed \/ Peer(e) \notin fwd)
     \/ queue[e] # <<>> /\ e \notin fwd
  /\ WorkerReturns(e)
  /\ UNCHANGED called

(* PacketRxTxWorker::run returns an error of its own. *)
WorkerFails(e) ==
  /\ WorkerReturns(e)
  /\ called' = TRUE

-----------------------------------------------------------------------------
(* The forwarder returns and drops its ends of both channels. *)
FwdReturns(e) ==
  /\ fwd' = fwd \ {e}
  /\ hop1' = [hop1 EXCEPT ![e] = <<>>]
  /\ held' = [held EXCEPT ![e] = NoFrame]
  /\ UNCHANGED <<queue, hop2, worker, closed, params, drops, called, account>>

(* delay_and_drop once the delay is over, and try_send. *)
FwdDecides(e, f) ==
  \/ /\ loss
     /\ lost' = [lost EXCEPT ![e] = @ \cup {f}]
     /\ UNCHANGED <<hop2, drops, refused>>
  \/ /\ Peer(e) \in worker
     /\ Sends(e, f, hop2, hop2')
     /\ UNCHANGED lost

(* A plausible bug for FwdTake: a delayed frame does not hold up the next. *)
FwdTakeOvertakes(e) ==
  LET f == Head(hop1[e]) IN
  /\ e \in fwd /\ (held[e] = NoFrame \/ ~latency)
  /\ hop1[e] # <<>>
  /\ hop1' = [hop1 EXCEPT ![e] = Tail(@)]
  /\ IF latency
     THEN held' = [held EXCEPT ![e] = f] /\ UNCHANGED <<hop2, drops, lost, refused>>
     ELSE FwdDecides(e, f) /\ UNCHANGED held
  /\ UNCHANGED <<queue, tasks, closed, params, called, sent, received>>

(* The forwarder takes the next frame; without a latency it decides at     *)
(* once.  The channel wins over the closer when both are ready.            *)
FwdTake(e) ==
  LET f == Head(hop1[e]) IN
  /\ e \in fwd /\ held[e] = NoFrame
  /\ hop1[e] # <<>>
  /\ hop1' = [hop1 EXCEPT ![e] = Tail(@)]
  /\ IF latency
     THEN held' = [held EXCEPT ![e] = f] /\ UNCHANGED <<hop2, drops, lost, refused>>
     ELSE FwdDecides(e, f) /\ UNCHANGED held
  /\ UNCHANGED <<queue, tasks, closed, params, called, sent, received>>

(* A plausible bug for FwdDelayed: the delay starts over while there is a  *)
(* latency. *)
FwdDelayedAgain(e) ==
  /\ e \in fwd /\ held[e] # NoFrame
  /\ ~latency
  /\ FwdDecides(e, held[e])
  /\ held' = [held EXCEPT ![e] = NoFrame]
  /\ UNCHANGED <<queue, hop1, tasks, closed, params, called, sent, received>>

(* The timer of the delay fires. *)
FwdDelayed(e) ==
  /\ e \in fwd /\ held[e] # NoFrame
  /\ FwdDecides(e, held[e])
  /\ held' = [held EXCEPT ![e] = NoFrame]
  /\ UNCHANGED <<queue, hop1, tasks, closed, params, called, sent, received>>

(* A plausible bug for FwdEnds: a full channel ends the forwarder. *)
FwdEndsWhenFull(e) ==
  /\ e \in fwd
  /\ held[e] # NoFrame
  /\ closed \/ Full(hop2[e])
  /\ FwdReturns(e)

(* The closer, while the forwarder waits or delays a frame; the end of its *)
(* channel; or the receiving end is gone when a frame is sent.             *)
FwdEnds(e) ==
  /\ e \in fwd
  /\ \/ held[e] # NoFrame /\ closed
     \/ held[e] = NoFrame /\ hop1[e] = <<>> /\ (closed \/ e \notin worker)
     \/ Peer(e) \notin worker /\ (held[e] # NoFrame \/ (hop1[e] # <<>> /\ ~latency))
  /\ FwdReturns(e)

-----------------------------------------------------------------------------
(* WasmLink::disconnect, the Drop of a node, or the watcher. *)
Close ==
  /\ ~closed
  /\ closed' = TRUE
  /\ called' = TRUE
  /\ UNCHANGED <<path, tasks, params, drops, account>>

(* WasmLink::set_impairment at any time *)
SetImpairment(lat, los) ==
  /\ params # <<lat, los>>
  /\ latency' = lat
  /\ loss' = los
  /\ UNCHANGED <<path, tasks, closed, drops, called, account>>

WorkerTurn(e) == WorkerSend(e) \/ WorkerRecv(e) \/ WorkerEnds(e)
FwdTurn(e) == FwdTake(e) \/ FwdDelayed(e) \/ FwdEnds(e)

Next ==
  \/ \E e \in End : Accept(e) \/ WorkerTurn(e) \/ WorkerFails(e) \/ FwdTurn(e)
  \/ Close
  \/ \E lat, los \in BOOLEAN : SetImpairment(lat, los)

(* The executor polls every task that is ready, and the worker's loop      *)
(* favours neither direction for ever.                                     *)
Fairness ==
  \A e \in End :
    /\ WF_vars(WorkerSend(e))
    /\ WF_vars(WorkerRecv(e))
    /\ WF_vars(WorkerEnds(e))
    /\ WF_vars(FwdTurn(e))

Spec == Init /\ [][Next]_vars /\ Fairness
-----------------------------------------------------------------------------
(* Every variable has its type, and no channel exceeds its capacity. *)
TypeOK ==
  /\ queue \in [End -> Seq(Frame)] /\ hop1 \in [End -> Seq(Frame)]
  /\ hop2 \in [End -> Seq(Frame)] /\ received \in [End -> Seq(Frame)]
  /\ held \in [End -> Frame \cup {NoFrame}]
  /\ worker \in SUBSET End /\ fwd \in SUBSET End
  /\ closed \in BOOLEAN /\ called \in BOOLEAN
  /\ latency \in BOOLEAN /\ loss \in BOOLEAN
  /\ drops \in 0 .. DropsLimit
  /\ sent \in [End -> 0 .. MaxFrames]
  /\ lost \in [End -> SUBSET Frame] /\ refused \in [End -> SUBSET Frame]
  /\ \A e \in End : Len(hop1[e]) <= HopFrames /\ Len(hop2[e]) <= HopFrames

(* The frames of direction e in the order in which they will arrive. *)
Held(e) == IF held[e] = NoFrame THEN <<>> ELSE <<held[e]>>
Carried(e) == received[e] \o hop2[e] \o Held(e) \o hop1[e] \o queue[e]
Frames(s) == {s[i] : i \in DOMAIN s}

(* No frame overtakes another or arrives twice, whatever the impairment    *)
(* does and however the link ends.                                         *)
InOrder ==
  \A e \in End : \A i, j \in DOMAIN Carried(e) : i < j => Carried(e)[i] < Carried(e)[j]

(* Each frame an open link's queue accepted is in exactly one place: it    *)
(* was received, is on its way, or was dropped by the impairment or by a   *)
(* full channel.                                                           *)
EveryFrameAccounted ==
  \A e \in End :
    /\ lost[e] \cap refused[e] = {}
    /\ (lost[e] \cup refused[e]) \cap Frames(Carried(e)) = {}
    /\ ~closed => lost[e] \cup refused[e] \cup Frames(Carried(e)) = 1 .. sent[e]

(* What JavaScript reads as the link's overflow count is the number of     *)
(* frames that full channels refused, in both directions and at both hops. *)
OverflowCounted ==
  LET n == Cardinality(refused["parent"]) + Cardinality(refused["child"])
  IN  drops = IF n < DropsLimit THEN n ELSE DropsLimit

(* A link that nobody closes and whose workers do not fail stays open with *)
(* all its tasks, however much is lost or overflows.                       *)
StaysUp == ~called => ~closed /\ worker = End /\ fwd = End

(* Closing the link ends the workers and the forwarders. *)
PacketTasksEnd == closed ~> (worker = {} /\ fwd = {})

LastOf(s) == IF s = <<>> THEN 0 ELSE s[Len(s)]

Dropped(e) == lost[e] \cup refused[e]

Down == INSTANCE LossyFifo WITH
  sent <- sent["parent"], lost <- Dropped("parent"), open <- ~closed,
  last <- LastOf(received["parent"]), count <- Len(received["parent"])

Up == INSTANCE LossyFifo WITH
  sent <- sent["child"], lost <- Dropped("child"), open <- ~closed,
  last <- LastOf(received["child"]), count <- Len(received["child"])

(* Each direction is a lossy FIFO: in order, once, and while the link is   *)
(* open everything accepted is received or dropped in the end.             *)
FramesImplementLossyFifo == Down!Spec /\ Up!Spec

=============================================================================
