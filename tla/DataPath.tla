------------------------------ MODULE DataPath ------------------------------
(***************************************************************************)
(* The data path of a link of either kind (wasm/src/node.rs, the match on  *)
(* kind in connect_to): the child decides whether the link is a stream     *)
(* link (StreamLink, one of its two equal directions) or a packet link     *)
(* (PacketLink, both directions, which share a worker at each end).  The   *)
(* tasks of the other kind are not spawned and take no step.               *)
(***************************************************************************)
EXTENDS StreamLink

CONSTANTS QueueFrames, HopFrames, MaxFrames, DropsLimit

ASSUME SizeAssumption == QueueFrames \in Nat \ {0} /\ HopFrames \in Nat \ {0}
ASSUME MaxAssumption == MaxFrames \in Nat /\ DropsLimit \in Nat

VARIABLES kind,   \* LinkKind, fixed when the link is made
          queue, hop1, held, hop2, worker, forwarders, closer, delaying,
          dropping, drops, called, accepted, dropped, refused, arrived

packetVars == <<queue, hop1, held, hop2, worker, forwarders, closer, delaying,
                dropping, drops, called, accepted, dropped, refused, arrived>>

Packet == INSTANCE PacketLink WITH
  fwd <- forwarders, closed <- closer, latency <- delaying, loss <- dropping,
  sent <- accepted, lost <- dropped, received <- arrived

pathVars == <<kind, vars, packetVars>>

PathInit ==
  /\ kind \in {"stream", "packet"}
  /\ Init
  /\ Packet!Init

StreamStep == kind = "stream" /\ Next /\ UNCHANGED <<kind, packetVars>>
PacketStep == kind = "packet" /\ Packet!Next /\ UNCHANGED <<kind, vars>>

PathNext == StreamStep \/ PacketStep

PathFairness ==
  /\ WF_vars(kind = "stream" /\ TxEnds)
  /\ WF_vars(kind = "stream" /\ FwdTurn)
  /\ WF_vars(kind = "stream" /\ RxReadTurn)
  /\ WF_vars(kind = "stream" /\ (closed \/ AtEof(b)) /\ RxEnds)
  /\ \A e \in Packet!End :
       /\ WF_packetVars(kind = "packet" /\ Packet!WorkerSend(e))
       /\ WF_packetVars(kind = "packet" /\ Packet!WorkerRecv(e))
       /\ WF_packetVars(kind = "packet" /\ Packet!WorkerEnds(e))
       /\ WF_packetVars(kind = "packet" /\ Packet!FwdTurn(e))

PathSpec == PathInit /\ [][PathNext]_pathVars /\ PathFairness

-----------------------------------------------------------------------------
(* What both kinds promise (stated in StreamLink.tla and PacketLink.tla).  *)

(* Every variable has its type; no pipe and no channel exceeds its size.   *)
PathTypeOK == TypeOK /\ Packet!TypeOK

(* No byte and no frame overtakes another or arrives twice, whatever the   *)
(* impairment does and however the link ends.                              *)
PathInOrder == InOrder /\ Packet!InOrder

(* While the link is open every byte and every frame accepted is in one    *)
(* place: received, on its way, or dropped by the impairment or (frames)   *)
(* by a full channel.                                                      *)
EverythingAccounted == NothingElseLost /\ Packet!EveryFrameAccounted

(* overflow_drops is the number of frames that full channels refused.      *)
OverflowCounted == Packet!OverflowCounted

(* The forwarders never end a link: a stream's stays while the link is     *)
(* open, and a packet link goes down only if it is closed or a worker      *)
(* fails by itself, however much is lost or overflows.                     *)
PathStaysUp == ForwarderStays /\ Packet!StaysUp

(* Closing a link ends all its tasks.                                      *)
PathTasksEnd == AllTasksEnd /\ Packet!PacketTasksEnd

(* Both directions of a packet link are lossy FIFOs (LossyFifo.tla).       *)
FramesImplementLossyFifo == Packet!FramesImplementLossyFifo

=============================================================================
