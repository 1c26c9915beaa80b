--------------------------- MODULE BusMediumProofs ---------------------------
(***************************************************************************)
(* Proofs about BusMedium for any nodes, any number of attachments and any *)
(* inbox size: its types, the one controller, the agreement of the member  *)
(* list with the attachments, the exclusive use of a device's uplink, and  *)
(* the order in which frames are heard.                                    *)
(***************************************************************************)
EXTENDS BusMedium, TLAPS

(* Member ids from nextMember on are unused; what is in use was attached.  *)
IdsWellFormed ==
  /\ \A m \in Member : owner[m] # NoNode <=> m < nextMember
  /\ held \subseteq Attached
  /\ disconnected \subseteq Attached
  /\ worker \subseteq Attached
  /\ watcher \subseteq Attached

(* Frames in flight are numbered by the order in which they were taken:    *)
(* the one a worker is sending is newer than all of its earlier ones.      *)
FramesNumbered ==
  /\ \A m, i \in Member : heard[i][m] <= sent
  /\ \A i \in Member : \A j \in 1 .. Len(inbox[i]) : inbox[i][j][2] <= sent
  /\ \A m \in Member : outgoing[m] # NoFrame =>
       /\ outgoing[m][1] = m
       /\ outgoing[m][2] <= sent
       /\ \A i \in Member :
            /\ heard[i][m] < outgoing[m][2]
            /\ \A j \in 1 .. Len(inbox[i]) :
                 inbox[i][j][1] = m => inbox[i][j][2] < outgoing[m][2]

(* The part of the inductive invariant about attachments. *)
AttachInv ==
  /\ IdsWellFormed
  /\ OneController
  /\ MembersAreLive
  /\ DeviceExclusive

(* The part about frames. *)
FrameInv == FramesNumbered /\ HeardInOrder

IInv == TypeOK /\ AttachInv /\ FrameInv

USE NodeAssumption, SizeAssumption, MaxAssumption
    DEF Node, Member, NoMember, NoFrame, Frame

(* The first state satisfies the inductive invariant. *)
LEMMA InitInv == Init => IInv
<1> SUFFICES ASSUME Init PROVE IInv
  OBVIOUS
<1> USE DEF Init
<1>1. TypeOK
  BY DEF TypeOK
<1>2. AttachInv
  BY DEF AttachInv, IdsWellFormed, OneController, MembersAreLive,
         DeviceExclusive, Live, Attached
<1>3. FrameInv
  BY DEF FrameInv, FramesNumbered, HeardInOrder
<1> QED
  BY <1>1, <1>2, <1>3 DEF IInv

(* A new attachment takes an unused id, so nothing refers to it yet. *)
LEMMA AttachKeepsInv ==
  ASSUME IInv, NEW n \in Node, AttachRouter(n) \/ AttachEdge(n)
  PROVE  TypeOK' /\ AttachInv'
<1> DEFINE m0 == nextMember
<1> USE DEF AttachRouter, AttachEdge, Attach, RouterFree, UplinkFree, traffic
<1>1. /\ m0 \in Member
      /\ owner[m0] = NoNode
      /\ m0 \notin members \cup disconnected \cup worker
      /\ n # NoNode
  BY DEF IInv, TypeOK, AttachInv, IdsWellFormed, MembersAreLive, Live, Attached
<1>0. /\ nextMember' = m0 + 1
      /\ owner' = [owner EXCEPT ![m0] = n]
      /\ members' = members \cup {m0}
      /\ held' = held \cup {m0}
      /\ worker' = worker \cup {m0}
      /\ watcher' = watcher \cup {m0}
      /\ UNCHANGED <<busAlive, alive, closed, disconnected, inbox, outgoing,
                     sent, heard>>
  OBVIOUS
<1>2. TypeOK'
  <2>1. /\ uplinkUp' \in SUBSET Device
        /\ routerMember' \in Member \cup {NoMember}
    BY <1>1 DEF IInv, TypeOK
  <2>2. nextMember' \in 1 .. MaxMembers + 1
    BY <1>0, <1>1
  <2> HIDE DEF AttachRouter, AttachEdge, Attach
  <2>3. /\ owner' \in [Member -> Node \cup {NoNode}]
        /\ members' \in SUBSET Member
        /\ held' \in SUBSET Member
        /\ worker' \in SUBSET Member
        /\ watcher' \in SUBSET Member
    BY <1>0, <1>1 DEF IInv, TypeOK
  <2> QED
    BY <1>0, <2>1, <2>2, <2>3 DEF IInv, TypeOK
<1>3. /\ Attached' = Attached \cup {m0}
      /\ Live' = Live \cup {m0}
      /\ \A m \in Member : m # m0 => owner'[m] = owner[m]
      /\ owner'[m0] = n
  <2>1. owner' = [owner EXCEPT ![m0] = n] /\ disconnected' = disconnected
    OBVIOUS
  <2>2. owner \in [Member -> Node \cup {NoNode}]
    BY DEF IInv, TypeOK
  <2>3. \A m \in Member : owner'[m] = IF m = m0 THEN n ELSE owner[m]
    BY <1>1, <2>1, <2>2
  <2>4. Attached' = Attached \cup {m0}
    BY <1>1, <2>3 DEF Attached
  <2> QED
    BY <1>1, <2>1, <2>3, <2>4 DEF Live
<1>4. IdsWellFormed'
  <2>1. \A m \in Member : m < nextMember' <=> m < nextMember \/ m = m0
    BY <1>0, <1>1
  <2> QED
    BY <1>1, <1>3, <2>1 DEF IInv, AttachInv, IdsWellFormed
<1>5. OneController'
  <2>1. \A m \in Live : owner'[m] = owner[m]
    BY <1>1, <1>3 DEF Live, Attached
  <2>2. CASE AttachRouter(n)
    BY <1>1, <1>3, <2>1, <2>2 DEF IInv, AttachInv, OneController
  <2>3. CASE AttachEdge(n)
    BY <1>1, <1>3, <2>1, <2>3 DEF IInv, AttachInv, OneController
  <2> QED
    BY <2>2, <2>3
<1>6. MembersAreLive'
  BY <1>3 DEF IInv, AttachInv, MembersAreLive
<1>7. DeviceExclusive'
  <2>1. \A m \in worker : owner'[m] = owner[m]
    BY <1>1, <1>3 DEF IInv, TypeOK
  <2>2. CASE AttachRouter(n)
    BY <1>1, <1>3, <2>1, <2>2 DEF IInv, AttachInv, DeviceExclusive
  <2>3. CASE AttachEdge(n)
    <3>1. \A m \in worker : owner[m] # n
      BY <2>3 DEF IInv, AttachInv, DeviceExclusive
    <3>2. uplinkUp' = {owner'[m] : m \in worker'} \cap Device
      BY <1>1, <1>3, <2>1, <2>3 DEF IInv, AttachInv, DeviceExclusive
    <3> QED
      BY <1>1, <1>3, <2>1, <3>1, <3>2 DEF IInv, AttachInv, DeviceExclusive
  <2> QED
    BY <2>2, <2>3
<1> QED
  BY <1>2, <1>4, <1>5, <1>6, <1>7 DEF AttachInv

(* Disconnecting any attachments keeps what is known of attachments,       *)
(* whoever calls it and whatever else that step does to the handles.       *)
LEMMA DisconnectKeepsInv ==
  ASSUME IInv, NEW S \in SUBSET Attached, Disconnect(S),
         UNCHANGED <<nextMember, owner, uplinkUp, worker>>,
         held' \subseteq held, watcher' \subseteq watcher
  PROVE  /\ AttachInv'
         /\ members' \in SUBSET Member
         /\ routerMember' \in Member \cup {NoMember}
         /\ closed' \in SUBSET Member
         /\ disconnected' \in SUBSET Member
<1> USE DEF Disconnect, MembersAfter, RouterAfter
<1>1. Attached' = Attached /\ Live' = Live \ S
  BY DEF Attached, Live
<1>2. IdsWellFormed'
  BY <1>1 DEF IInv, AttachInv, IdsWellFormed
<1>3. OneController'
  BY <1>1 DEF IInv, AttachInv, OneController, Live
<1>4. MembersAreLive'
  BY <1>1 DEF IInv, AttachInv, MembersAreLive, Live
<1>5. DeviceExclusive'
  BY DEF IInv, AttachInv, DeviceExclusive
<1> QED
  BY <1>2, <1>3, <1>4, <1>5 DEF IInv, TypeOK, AttachInv, Attached

(* The handles' steps and the watcher only disconnect. *)
LEMMA HandleKeepsInv ==
  ASSUME IInv,
         \/ FreeBus
         \/ \E n \in Node : FreeNode(n)
         \/ \E m \in Member : JsDisconnect(m) \/ FreeLink(m) \/ Watch(m)
  PROVE  TypeOK' /\ AttachInv' /\ UNCHANGED traffic
<1> USE DEF traffic, nodes
<1>1. CASE FreeBus
  BY <1>1, DisconnectKeepsInv DEF IInv, TypeOK, FreeBus
<1>2. CASE \E n \in Node : FreeNode(n)
  <2> PICK n \in Node : FreeNode(n)
    BY <1>2
  <2>1. OwnedBy({n}) \subseteq Attached
    BY DEF OwnedBy
  <2> QED
    BY <2>1, DisconnectKeepsInv DEF IInv, TypeOK, FreeNode
<1>3. CASE \E m \in Member : JsDisconnect(m) \/ FreeLink(m) \/ Watch(m)
  <2>1. held \subseteq Attached /\ watcher \subseteq Attached
    BY DEF IInv, AttachInv, IdsWellFormed
  <2> PICK m \in Member : JsDisconnect(m) \/ FreeLink(m) \/ Watch(m)
    BY <1>3
  <2> QED
    BY <2>1, DisconnectKeepsInv DEF IInv, TypeOK, JsDisconnect, FreeLink, Watch
<1> QED
  BY <1>1, <1>2, <1>3

(* When a worker returns, its device's uplink is free, and a member list   *)
(* that loses only members without a worker still agrees.                  *)
LEMMA WorkerKeepsInv ==
  ASSUME IInv, NEW m \in worker,
         \/ worker' = worker \ {m} /\ uplinkUp' = uplinkUp \ {owner[m]}
         \/ UNCHANGED <<worker, uplinkUp>>,
         members' = members \/ members' = members \cap (worker \cup {m}),
         UNCHANGED <<nextMember, owner, routerMember, held, disconnected,
                     watcher>>
  PROVE  AttachInv'
<1>1. Attached' = Attached /\ Live' = Live
  BY DEF Attached, Live
<1>2. IdsWellFormed'
  BY <1>1 DEF IInv, AttachInv, IdsWellFormed
<1>3. OneController'
  BY <1>1 DEF IInv, AttachInv, OneController
<1>4. MembersAreLive'
  BY <1>1 DEF IInv, AttachInv, MembersAreLive
<1>5. DeviceExclusive'
  BY DEF IInv, AttachInv, DeviceExclusive
<1> QED
  BY <1>2, <1>3, <1>4, <1>5 DEF AttachInv

(* What the proofs below need to know of frames. *)
LEMMA FrameParts ==
  /\ \A f \in Frame : f[1] \in Member /\ f[2] \in 1 .. MaxFrames /\ f # NoFrame
  /\ \A m \in Member : \A k \in 1 .. MaxFrames :
       /\ <<m, k>> \in Frame
       /\ <<m, k>>[1] = m /\ <<m, k>>[2] = k
OBVIOUS

HIDE DEF Node, Member, NoMember, NoFrame, Frame

(* What a broadcast does to each inbox: it leaves it, empties it, or       *)
(* appends the frame that member m is sending.                             *)
LEMMA BroadcastInboxes ==
  ASSUME IInv, NEW m \in Member, Broadcast(m)
  PROVE  /\ outgoing[m] \in Frame
         /\ outgoing' = [outgoing EXCEPT ![m] = NoFrame]
         /\ inbox' \in [Member -> {s \in Seq(Frame) : Len(s) <= InboxSize}]
         /\ \A i \in Member :
              \/ inbox'[i] = inbox[i]
              \/ inbox'[i] = <<>>
              \/ i # m /\ inbox'[i] = Append(inbox[i], outgoing[m])
<1> DEFINE f == outgoing[m]
           after == [i \in Member |-> Offered(m, f, i)]
<1>1. f \in Frame /\ outgoing' = [outgoing EXCEPT ![m] = NoFrame]
  BY DEF IInv, TypeOK, Broadcast, WorkerReturns
<1>2. \A i \in Member :
        /\ after[i] = inbox[i] \/ (i # m /\ after[i] = Append(inbox[i], f))
        /\ after[i] \in {s \in Seq(Frame) : Len(s) <= InboxSize}
  BY <1>1 DEF IInv, TypeOK, Offered
<1>3. inbox' = after \/ inbox' = [after EXCEPT ![m] = <<>>]
  BY DEF Broadcast
<1> HIDE DEF after
<1>4. after = [i \in Member |-> after[i]]
  BY DEF after
<1>5. \A i \in Member : inbox'[i] = after[i] \/ inbox'[i] = <<>>
  BY <1>3, <1>4
<1>6. inbox' = [i \in Member |-> inbox'[i]]
  BY <1>3, <1>4
<1>7. <<>> \in {s \in Seq(Frame) : Len(s) <= InboxSize}
  OBVIOUS
<1>8. inbox' \in [Member -> {s \in Seq(Frame) : Len(s) <= InboxSize}]
  BY <1>2, <1>5, <1>6, <1>7
<1> QED
  BY <1>1, <1>2, <1>5, <1>8

(* Every step of a worker keeps the types and what is known of attachments. *)
LEMMA TrafficKeepsInv ==
  ASSUME IInv, NEW m \in Member,
         WorkerEnds(m) \/ Receive(m) \/ BeginSend(m) \/ SendDrops(m) \/ Broadcast(m)
  PROVE  TypeOK' /\ AttachInv'
<1> USE DEF nodes, medium
<1>1. CASE WorkerEnds(m)
  <2>1. TypeOK'
    BY <1>1 DEF IInv, TypeOK, WorkerEnds, WorkerReturns
  <2> QED
    BY <1>1, <2>1, WorkerKeepsInv DEF WorkerEnds, WorkerReturns
<1>2. CASE Receive(m)
  <2>1. Head(inbox[m]) \in Frame /\ Tail(inbox[m]) \in Seq(Frame)
        /\ Len(Tail(inbox[m])) <= InboxSize
    BY <1>2 DEF IInv, TypeOK, Receive
  <2>3. Head(inbox[m])[1] \in Member /\ Head(inbox[m])[2] \in 0 .. MaxFrames
    BY <2>1, FrameParts
  <2>4. heard' \in [Member -> [Member -> 0 .. MaxFrames]]
    BY <1>2, <2>3 DEF IInv, TypeOK, Receive
  <2>5. inbox' \in [Member -> {s \in Seq(Frame) : Len(s) <= InboxSize}]
    BY <1>2, <2>1 DEF IInv, TypeOK, Receive
  <2>2. TypeOK'
    BY <1>2, <2>4, <2>5 DEF IInv, TypeOK, Receive
  <2> QED
    BY <1>2, <2>2, WorkerKeepsInv DEF Receive
<1>3. CASE BeginSend(m)
  <2>1. sent' \in 1 .. MaxFrames
    BY <1>3 DEF IInv, TypeOK, BeginSend
  <2>3. <<m, sent'>> \in Frame
    BY <2>1, FrameParts
  <2>2. TypeOK'
    BY <1>3, <2>1, <2>3 DEF IInv, TypeOK, BeginSend
  <2> QED
    BY <1>3, <2>2, WorkerKeepsInv DEF BeginSend
<1>4. CASE SendDrops(m)
  <2>1. TypeOK'
    BY <1>4 DEF IInv, TypeOK, SendDrops
  <2>2. Attached' = Attached /\ Live' = Live
    BY <1>4 DEF SendDrops, Attached, Live
  <2> QED
    BY <1>4, <2>1, <2>2 DEF IInv, AttachInv, IdsWellFormed, OneController,
       MembersAreLive, DeviceExclusive, SendDrops
<1>5. CASE Broadcast(m)
  <2>1. TypeOK'
    BY <1>5, BroadcastInboxes DEF IInv, TypeOK, Broadcast, WorkerReturns
  <2> QED
    BY <1>5, <2>1, WorkerKeepsInv DEF Broadcast, WorkerReturns
<1> QED
  BY <1>1, <1>2, <1>3, <1>4, <1>5

(* The type invariant in the form that the order of the frames needs. *)
LEMMA FrameTypes ==
  ASSUME IInv
  PROVE  /\ sent \in Nat
         /\ \A i, k \in Member : heard[i][k] \in Nat
         /\ \A i \in Member : Len(inbox[i]) \in Nat
         /\ \A i \in Member : \A j \in 1 .. Len(inbox[i]) :
              inbox[i][j][1] \in Member /\ inbox[i][j][2] \in Nat
         /\ \A k \in Member : outgoing[k] # NoFrame => outgoing[k][2] \in Nat
<1>1. /\ inbox \in [Member -> Seq(Frame)]
      /\ sent \in Nat
      /\ heard \in [Member -> [Member -> Nat]]
      /\ \A k \in Member : outgoing[k] # NoFrame => outgoing[k] \in Frame
  BY DEF IInv, TypeOK
<1>2. \A i \in Member : Len(inbox[i]) \in Nat
  BY <1>1
<1>3. \A i \in Member : \A j \in 1 .. Len(inbox[i]) : inbox[i][j] \in Frame
  BY <1>1
<1>4. \A f \in Frame : f[1] \in Member /\ f[2] \in Nat
  BY FrameParts
<1> QED
  BY <1>1, <1>2, <1>3, <1>4

(* Frames that leave the inboxes, and sends that end, disturb no order. *)
LEMMA FewerFramesKeepOrder ==
  ASSUME IInv,
         \A i \in Member : inbox'[i] = inbox[i] \/ inbox'[i] = <<>>,
         \A k \in Member : outgoing'[k] = outgoing[k] \/ outgoing'[k] = NoFrame,
         UNCHANGED <<sent, heard>>
  PROVE  FrameInv'
<1>1. \A i \in Member : \A j \in 1 .. Len(inbox'[i]) :
        j \in 1 .. Len(inbox[i]) /\ inbox'[i] = inbox[i]
  OBVIOUS
<1>2. FramesNumbered /\ HeardInOrder
  BY DEF IInv, FrameInv
<1>3. FramesNumbered'
  BY <1>1, <1>2 DEF FramesNumbered
<1>4. HeardInOrder'
  BY <1>1, <1>2 DEF HeardInOrder
<1> QED
  BY <1>3, <1>4 DEF FrameInv

(* The frame that a member hears is the first of its inbox: older than     *)
(* what it holds from the same sender, and newer than what it heard.       *)
LEMMA ReceiveKeepsOrder ==
  ASSUME IInv, NEW m \in Member, Receive(m)
  PROVE  FrameInv'
<1> DEFINE f == Head(inbox[m])
<1>0. FramesNumbered /\ HeardInOrder
  BY DEF IInv, FrameInv
<1>1. /\ \A i \in Member : Len(inbox[i]) \in Nat
      /\ \A i \in Member : \A j \in 1 .. Len(inbox[i]) :
           inbox[i][j][1] \in Member /\ inbox[i][j][2] \in Nat
      /\ \A i, k \in Member : heard[i][k] \in Nat
      /\ sent \in Nat
  BY FrameTypes
<1>2. inbox[m] \in Seq(Frame) /\ inbox[m] # <<>> /\ f = inbox[m][1]
      /\ 1 \in 1 .. Len(inbox[m])
  BY DEF IInv, TypeOK, Receive
<1>3. f[1] \in Member /\ f[2] \in Nat
  BY <1>1, <1>2
<1>4. /\ \A i \in Member : i # m => inbox'[i] = inbox[i]
      /\ inbox'[m] = Tail(inbox[m])
      /\ UNCHANGED <<sent, outgoing>>
  BY DEF IInv, TypeOK, Receive
<1>5. \A i, k \in Member :
        heard'[i][k] = IF i = m /\ k = f[1] THEN f[2] ELSE heard[i][k]
  <2>1. heard \in [Member -> [Member -> 0 .. MaxFrames]]
        /\ heard' = [heard EXCEPT ![m][f[1]] = f[2]]
    BY DEF IInv, TypeOK, Receive
  <2> HIDE DEF f
  <2> QED
    BY <1>3, <2>1
<1>6. \A j \in 1 .. Len(inbox'[m]) :
        /\ j + 1 \in 1 .. Len(inbox[m])
        /\ inbox'[m][j] = inbox[m][j + 1]
  BY <1>2, <1>4
<1>7. /\ f[1] # m
      /\ heard[m][f[1]] < f[2]
      /\ f[2] <= sent
      /\ \A j \in 1 .. Len(inbox'[m]) :
           inbox'[m][j][1] = f[1] => f[2] < inbox'[m][j][2]
      /\ \A k \in Member : outgoing[k] # NoFrame /\ k = f[1] => f[2] < outgoing[k][2]
  <2> HIDE DEF f
  <2>1. f[1] # m /\ heard[m][f[1]] < f[2]
    BY <1>0, <1>2 DEF HeardInOrder
  <2>2. f[2] <= sent
    BY <1>0, <1>2 DEF FramesNumbered
  <2>3. ASSUME NEW j \in 1 .. Len(inbox'[m]), inbox'[m][j][1] = f[1]
        PROVE  f[2] < inbox'[m][j][2]
    <3>1. 1 < j + 1 /\ inbox[m][1][1] = inbox[m][j + 1][1]
      BY <1>1, <1>2, <1>6, <2>3
    <3>2. inbox[m][1][2] < inbox[m][j + 1][2]
      BY <1>0, <1>2, <1>6, <3>1 DEF HeardInOrder
    <3> QED
      BY <1>2, <1>6, <3>2
  <2>4. ASSUME NEW k \in Member, outgoing[k] # NoFrame, k = f[1]
        PROVE  f[2] < outgoing[k][2]
    BY <1>0, <1>2, <2>4 DEF FramesNumbered
  <2> QED
    BY <2>1, <2>2, <2>3, <2>4
<1> HIDE DEF f
<1>8. FramesNumbered'
  <2>1. ASSUME NEW i \in Member, NEW k \in Member
        PROVE  heard'[i][k] <= sent
    <3>1. heard[i][k] <= sent
      BY <1>0 DEF FramesNumbered
    <3> QED
      BY <1>5, <1>7, <3>1
  <2>2. ASSUME NEW i \in Member
        PROVE  \A j \in 1 .. Len(inbox'[i]) : inbox'[i][j][2] <= sent
    <3>1. \A j \in 1 .. Len(inbox[i]) : inbox[i][j][2] <= sent
      BY <1>0 DEF FramesNumbered
    <3>2. CASE i = m
      BY <1>6, <3>1, <3>2
    <3>3. CASE i # m
      BY <1>4, <3>1, <3>3
    <3> QED
      BY <3>2, <3>3
  <2>3. \A k, i \in Member : outgoing[k] # NoFrame => heard'[i][k] < outgoing[k][2]
    BY <1>0, <1>5, <1>7 DEF FramesNumbered
  <2>4. ASSUME NEW k \in Member, outgoing[k] # NoFrame, NEW i \in Member
        PROVE  \A j \in 1 .. Len(inbox'[i]) :
                 inbox'[i][j][1] = k => inbox'[i][j][2] < outgoing[k][2]
    <3>1. \A j \in 1 .. Len(inbox[i]) :
            inbox[i][j][1] = k => inbox[i][j][2] < outgoing[k][2]
      BY <1>0, <2>4 DEF FramesNumbered
    <3>2. CASE i = m
      BY <1>6, <3>1, <3>2
    <3>3. CASE i # m
      BY <1>4, <3>1, <3>3
    <3> QED
      BY <3>2, <3>3
  <2>5. \A k \in Member : outgoing[k] # NoFrame =>
          outgoing[k][1] = k /\ outgoing[k][2] <= sent
    BY <1>0 DEF FramesNumbered
  <2> QED
    BY <1>4, <2>1, <2>2, <2>3, <2>4, <2>5 DEF FramesNumbered
<1>9. HeardInOrder'
  <2>1. ASSUME NEW i \in Member, i # m, NEW j \in 1 .. Len(inbox'[i])
        PROVE  /\ inbox'[i][j][1] # i
               /\ heard'[i][inbox'[i][j][1]] < inbox'[i][j][2]
               /\ \A h \in 1 .. j - 1 : inbox'[i][h][1] = inbox'[i][j][1]
                                        => inbox'[i][h][2] < inbox'[i][j][2]
    <3>1. j \in 1 .. Len(inbox[i]) /\ inbox'[i] = inbox[i]
      BY <1>4, <2>1
    <3>2. inbox[i][j][1] \in Member
      BY <1>1, <3>1
    <3>3. heard'[i][inbox[i][j][1]] = heard[i][inbox[i][j][1]]
      BY <1>5, <2>1, <3>2
    <3> QED
      BY <1>0, <3>1, <3>3 DEF HeardInOrder
  <2>2. ASSUME NEW j \in 1 .. Len(inbox'[m])
        PROVE  /\ inbox'[m][j][1] # m
               /\ heard'[m][inbox'[m][j][1]] < inbox'[m][j][2]
               /\ \A h \in 1 .. j - 1 : inbox'[m][h][1] = inbox'[m][j][1]
                                        => inbox'[m][h][2] < inbox'[m][j][2]
    <3> DEFINE g == inbox[m][j + 1]
    <3>1. j \in Nat /\ j + 1 \in 1 .. Len(inbox[m]) /\ inbox'[m][j] = g
      BY <1>6
    <3>2. /\ g[1] \in Member
          /\ g[1] # m
          /\ heard[m][g[1]] < g[2]
          /\ \A h \in 1 .. j : inbox[m][h][1] = g[1] => inbox[m][h][2] < g[2]
      BY <1>0, <1>1, <3>1 DEF HeardInOrder
    <3>3. heard'[m][g[1]] < g[2]
      BY <1>5, <1>7, <3>1, <3>2
    <3>4. \A h \in 1 .. j - 1 : h + 1 \in 1 .. j /\ h \in 1 .. Len(inbox'[m])
      <4>1. \A h \in 1 .. j - 1 : h + 1 \in 1 .. j
        BY <3>1
      <4>2. Len(inbox'[m]) \in Nat
        BY <1>2, <1>4
      <4> QED
        BY <3>1, <4>1, <4>2
    <3> HIDE DEF g
    <3> QED
      BY <1>6, <3>1, <3>2, <3>3, <3>4
  <2> QED
    BY <2>1, <2>2 DEF HeardInOrder
<1> QED
  BY <1>8, <1>9 DEF FrameInv

(* A frame is numbered above everything sent before it. *)
LEMMA BeginKeepsOrder ==
  ASSUME IInv, NEW m \in Member, BeginSend(m)
  PROVE  FrameInv'
<1>0. FramesNumbered /\ HeardInOrder
  BY DEF IInv, FrameInv
<1>1. /\ sent \in Nat
      /\ \A i, k \in Member : heard[i][k] \in Nat
      /\ \A i \in Member : \A j \in 1 .. Len(inbox[i]) : inbox[i][j][2] \in Nat
      /\ \A k \in Member : outgoing[k] # NoFrame => outgoing[k][2] \in Nat
  BY FrameTypes
<1>2. sent' = sent + 1 /\ UNCHANGED <<inbox, heard>>
  BY DEF BeginSend
<1>3. \A k \in Member :
        IF k = m THEN outgoing'[k][1] = m /\ outgoing'[k][2] = sent + 1
        ELSE outgoing'[k] = outgoing[k]
  BY DEF IInv, TypeOK, BeginSend
<1>4. FramesNumbered'
  <2>1. \A k, i \in Member : heard'[i][k] <= sent'
    BY <1>0, <1>1, <1>2 DEF FramesNumbered
  <2>2. \A i \in Member : \A j \in 1 .. Len(inbox'[i]) : inbox'[i][j][2] <= sent'
    BY <1>0, <1>1, <1>2 DEF FramesNumbered
  <2>3. ASSUME NEW k \in Member, outgoing'[k] # NoFrame
        PROVE  /\ outgoing'[k][1] = k
               /\ outgoing'[k][2] <= sent'
               /\ \A i \in Member :
                    /\ heard'[i][k] < outgoing'[k][2]
                    /\ \A j \in 1 .. Len(inbox'[i]) :
                         inbox'[i][j][1] = k => inbox'[i][j][2] < outgoing'[k][2]
    <3>1. CASE k = m
      BY <1>0, <1>1, <1>2, <1>3, <3>1 DEF FramesNumbered
    <3>2. CASE k # m
      BY <1>0, <1>1, <1>2, <1>3, <2>3, <3>2 DEF FramesNumbered
    <3> QED
      BY <3>1, <3>2
  <2> QED
    BY <2>1, <2>2, <2>3 DEF FramesNumbered
<1>5. HeardInOrder'
  BY <1>0, <1>2 DEF HeardInOrder
<1> QED
  BY <1>4, <1>5 DEF FrameInv

(* A frame that is offered is the newest of its sender in every inbox. *)
LEMMA BroadcastKeepsOrder ==
  ASSUME IInv, NEW m \in Member, Broadcast(m)
  PROVE  FrameInv'
<1> DEFINE f == outgoing[m]
<1>0. FramesNumbered /\ HeardInOrder
  BY DEF IInv, FrameInv
<1>1. /\ \A i \in Member : Len(inbox[i]) \in Nat
      /\ \A i \in Member : \A j \in 1 .. Len(inbox[i]) :
           inbox[i][j][1] \in Member /\ inbox[i][j][2] \in Nat
  BY FrameTypes
<1>2. /\ f # NoFrame
      /\ UNCHANGED <<sent, heard>>
  BY DEF Broadcast
<1>3. /\ f[1] = m
      /\ f[2] <= sent
      /\ \A i \in Member :
           /\ heard[i][m] < f[2]
           /\ \A j \in 1 .. Len(inbox[i]) : inbox[i][j][1] = m => inbox[i][j][2] < f[2]
  BY <1>0, <1>2 DEF FramesNumbered
<1>4. \A k \in Member : outgoing'[k] = IF k = m THEN NoFrame ELSE outgoing[k]
  BY BroadcastInboxes DEF IInv, TypeOK
<1>5. \A i \in Member : \A j \in 1 .. Len(inbox'[i]) :
        /\ \/ j \in 1 .. Len(inbox[i]) /\ inbox'[i][j] = inbox[i][j]
           \/ i # m /\ inbox'[i][j] = f
        /\ \A h \in 1 .. j - 1 : h \in 1 .. Len(inbox[i]) /\ inbox'[i][h] = inbox[i][h]
  <2> SUFFICES ASSUME NEW i \in Member, NEW j \in 1 .. Len(inbox'[i])
               PROVE  /\ \/ j \in 1 .. Len(inbox[i]) /\ inbox'[i][j] = inbox[i][j]
                         \/ i # m /\ inbox'[i][j] = f
                      /\ \A h \in 1 .. j - 1 :
                           h \in 1 .. Len(inbox[i]) /\ inbox'[i][h] = inbox[i][h]
    OBVIOUS
  <2>1. inbox[i] \in Seq(Frame) /\ f \in Frame
    BY BroadcastInboxes DEF IInv, TypeOK
  <2>2. \/ inbox'[i] = inbox[i]
        \/ inbox'[i] = <<>>
        \/ i # m /\ inbox'[i] = Append(inbox[i], f)
    BY BroadcastInboxes
  <2> HIDE DEF f
  <2>3. CASE inbox'[i] = inbox[i]
    BY <1>1, <2>1, <2>3
  <2>4. CASE inbox'[i] = <<>>
    BY <2>4
  <2>5. CASE i # m /\ inbox'[i] = Append(inbox[i], f)
    BY <1>1, <2>1, <2>5
  <2> QED
    BY <2>2, <2>3, <2>4, <2>5
<1> HIDE DEF f
<1>6. FramesNumbered'
  <2>1. \A i \in Member : \A j \in 1 .. Len(inbox'[i]) : inbox'[i][j][2] <= sent
    BY <1>0, <1>3, <1>5 DEF FramesNumbered
  <2>2. ASSUME NEW k \in Member, k # m, outgoing[k] # NoFrame, NEW i \in Member,
               NEW j \in 1 .. Len(inbox'[i]), inbox'[i][j][1] = k
        PROVE  inbox'[i][j][2] < outgoing[k][2]
    BY <1>0, <1>3, <1>5, <2>2 DEF FramesNumbered
  <2> QED
    BY <1>0, <1>2, <1>4, <2>1, <2>2 DEF FramesNumbered
<1>7. HeardInOrder'
  <2> SUFFICES ASSUME NEW i \in Member, NEW j \in 1 .. Len(inbox'[i])
               PROVE  /\ inbox'[i][j][1] # i
                      /\ heard[i][inbox'[i][j][1]] < inbox'[i][j][2]
                      /\ \A h \in 1 .. j - 1 : inbox'[i][h][1] = inbox'[i][j][1]
                                               => inbox'[i][h][2] < inbox'[i][j][2]
    BY <1>2 DEF HeardInOrder
  <2>1. CASE j \in 1 .. Len(inbox[i]) /\ inbox'[i][j] = inbox[i][j]
    BY <1>0, <1>5, <2>1 DEF HeardInOrder
  <2>2. CASE i # m /\ inbox'[i][j] = f
    BY <1>3, <1>5, <2>2
  <2> QED
    BY <1>5, <2>1, <2>2
<1> QED
  BY <1>6, <1>7 DEF FrameInv

(* Every step of a worker keeps the frames in order. *)
LEMMA TrafficKeepsOrder ==
  ASSUME IInv, NEW m \in Member,
         WorkerEnds(m) \/ Receive(m) \/ BeginSend(m) \/ SendDrops(m) \/ Broadcast(m)
  PROVE  FrameInv'
<1>1. CASE WorkerEnds(m)
  BY <1>1, FewerFramesKeepOrder DEF IInv, TypeOK, WorkerEnds, WorkerReturns
<1>2. CASE SendDrops(m)
  BY <1>2, FewerFramesKeepOrder DEF IInv, TypeOK, SendDrops
<1> QED
  BY <1>1, <1>2, ReceiveKeepsOrder, BeginKeepsOrder, BroadcastKeepsOrder

(* The inductive step. *)
LEMMA NextInv == IInv /\ [Next]_vars => IInv'
<1> SUFFICES ASSUME IInv, [Next]_vars PROVE IInv'
  OBVIOUS
<1>0. ASSUME UNCHANGED traffic
      PROVE  FrameInv'
  BY <1>0 DEF IInv, FrameInv, FramesNumbered, HeardInOrder, traffic
<1>1. CASE \E n \in Node : AttachRouter(n) \/ AttachEdge(n)
  <2>1. UNCHANGED traffic
    BY <1>1 DEF AttachRouter, AttachEdge, Attach
  <2> QED
    BY <1>0, <1>1, <2>1, AttachKeepsInv DEF IInv
<1>2. CASE \/ FreeBus
           \/ \E n \in Node : FreeNode(n)
           \/ \E m \in Member : JsDisconnect(m) \/ FreeLink(m) \/ Watch(m)
  BY <1>0, <1>2, HandleKeepsInv DEF IInv
<1>3. CASE \E m \in Member : \/ WorkerEnds(m) \/ Receive(m)
                             \/ BeginSend(m) \/ SendDrops(m) \/ Broadcast(m)
  BY <1>3, TrafficKeepsInv, TrafficKeepsOrder DEF IInv
<1>4. CASE UNCHANGED vars
  <2>1. UNCHANGED traffic
    BY <1>4 DEF vars, traffic
  <2>2. TypeOK'
    BY <1>4 DEF vars, nodes, medium, traffic, IInv, TypeOK
  <2>3. Live' = Live /\ Attached' = Attached
    BY <1>4 DEF vars, Live, Attached
  <2>4. AttachInv'
    BY <1>4, <2>3 DEF vars, nodes, medium, IInv, AttachInv, IdsWellFormed,
       OneController, MembersAreLive, DeviceExclusive
  <2> QED
    BY <1>0, <2>1, <2>2, <2>4 DEF IInv
<1> QED
  BY <1>1, <1>2, <1>3, <1>4 DEF Next

LEMMA Inductive == Spec => []IInv
BY InitInv, NextInv, PTL DEF Spec

(* Every variable keeps its type: in particular no inbox of a member ever  *)
(* holds more than its size, whatever the traffic.                         *)
THEOREM BusTypeCorrect == Spec => []TypeOK
<1>1. IInv => TypeOK
  BY DEF IInv
<1> QED
  BY Inductive, <1>1, PTL

(* The bus has one controller at most: router_member is the attachment of  *)
(* the one router that has not disconnected.                               *)
THEOREM BusHasOneController == Spec => []OneController
<1>1. IInv => OneController
  BY DEF IInv, AttachInv
<1> QED
  BY Inductive, <1>1, PTL

(* The member list agrees with the attachments: it holds only live ones    *)
(* and misses none whose worker listens.                                   *)
THEOREM MembersMatchAttachments == Spec => []MembersAreLive
<1>1. IInv => MembersAreLive
  BY DEF IInv, AttachInv
<1> QED
  BY Inductive, <1>1, PTL

(* A device runs one packet worker at most, and its uplink interface is up *)
(* exactly while it does.                                                  *)
THEOREM UplinksExclusive == Spec => []DeviceExclusive
<1>1. IInv => DeviceExclusive
  BY DEF IInv, AttachInv
<1> QED
  BY Inductive, <1>1, PTL

(* Each member hears the frames of each other in the order they were sent, *)
(* none twice, and never its own.                                          *)
THEOREM FramesInOrder == Spec => []HeardInOrder
<1>1. IInv => HeardInOrder
  BY DEF IInv, FrameInv
<1> QED
  BY Inductive, <1>1, PTL
=============================================================================
