--------------------------- MODULE NodeViewProofs ---------------------------
(***************************************************************************)
(* For any number of canvas nodes and WASM nodes: every node is watched    *)
(* and no freed one is, the canvas agrees with the publishers, and what is *)
(* shown of readings and frames has no gap, whatever the sizes of rings    *)
(* and logs, provided no log exceeds its ring.  Three inductive            *)
(* invariants, one per concern; the last two rest on the first.            *)
(***************************************************************************)
EXTENDS NodeView, SequenceTheorems, TLAPS

-----------------------------------------------------------------------------
(* The watch loops.                                                        *)

WatchTypes ==
  /\ mounted \in BOOLEAN /\ refused \in SUBSET Node
  /\ handle \in [NodeId -> Node \cup {NoNode}]
  /\ created \in 0 .. MaxNodes
  /\ owner \in [Node -> NodeId]
  /\ status \in [Node -> Status \cup {NoStatus}]
  /\ base \in [Node -> Status \cup {NoStatus}]
  /\ shown \in [NodeId -> Status \cup {NoStatus}]
  /\ wait \in [Node -> {"none", "pending", "changed", "freed", "ended"}]

(* A handle is the node created for this canvas node; a node has a status; *)
(* only a node that is there refuses to be freed.                          *)
Handles ==
  /\ \A id \in NodeId : handle[id] # NoNode =>
       handle[id] <= created /\ owner[handle[id]] = id
  /\ \A n \in Node : n <= created => status[n] \in Status
  /\ \A n \in refused : n <= created

WatchInv == WatchTypes /\ Handles /\ EveryNodeWatched

LEMMA NodeFacts == MaxNodes \in Nat /\ NoNode \notin Node /\ Node \subseteq Nat
  BY MaxAssumption DEF Node, NoNode

USE DEF nodes

LEMMA WatchInit == Init => WatchInv
<1> SUFFICES ASSUME Init  PROVE WatchInv
  OBVIOUS
<1>1. WatchTypes
  BY MaxAssumption, NodeIdAssumption DEF Init, WatchTypes
<1>2. Handles /\ EveryNodeWatched
  BY NodeFacts DEF Init, Handles, EveryNodeWatched, Usable, Node
<1> QED  BY <1>1, <1>2 DEF WatchInv

(* Freeing nodes takes their status along; CreateNode replaces one node.   *)
LEMMA WatchFreeing ==
  ASSUME WatchInv, NEW I \in SUBSET NodeId, Freeing(I), mounted, mounted' \in BOOLEAN
  PROVE  WatchInv'
<1>1. /\ \A id \in NodeId : handle'[id] = IF id \in I THEN NoNode ELSE handle[id]
      /\ \A id \in NodeId : shown'[id] = IF id \in I THEN NoStatus ELSE shown[id]
      /\ UNCHANGED <<refused, created, owner, status, wait, base>>
  BY DEF Freeing
<1>2. WatchTypes'
  BY <1>1 DEF WatchInv, WatchTypes, Freeing
<1>3. Handles' /\ EveryNodeWatched'
  BY <1>1 DEF WatchInv, WatchTypes, Handles, EveryNodeWatched, Usable
<1> QED  BY <1>2, <1>3 DEF WatchInv

(* free() throws: nothing else happens, or the app is unmounted.           *)
LEMMA WatchRefused ==
  ASSUME WatchInv, NEW id \in NodeId, FreeRefused(id) \/ DisposeFails(id)
  PROVE  WatchInv'
<1>1. /\ handle[id] # NoNode /\ refused' = refused \cup {handle[id]}
      /\ UNCHANGED <<created, owner, status, wait, base, shown>>
      /\ \/ mounted' = FALSE
         \/ mounted' = mounted /\ handle' = handle
      /\ mounted' \in BOOLEAN
      /\ \/ handle' = handle
         \/ handle' = [i \in NodeId |-> IF i \in Before(id) THEN NoNode ELSE handle[i]]
  BY DEF FreeRefused, DisposeFails, Usable, watching, WatchInv, WatchTypes
<1>2. handle[id] \in Node /\ handle[id] <= created
  BY <1>1 DEF WatchInv, WatchTypes, Handles
<1>3. /\ handle' \in [NodeId -> Node \cup {NoNode}]
      /\ \A i \in NodeId : handle'[i] # NoNode => handle'[i] = handle[i]
  BY <1>1 DEF WatchInv, WatchTypes
<1>4. WatchTypes' /\ Handles'
  BY <1>1, <1>2, <1>3 DEF WatchInv, WatchTypes, Handles
<1>5. EveryNodeWatched'
  BY <1>1 DEF WatchInv, EveryNodeWatched, Usable
<1> QED  BY <1>4, <1>5 DEF WatchInv

LEMMA WatchCreate ==
  ASSUME WatchInv, NEW id \in NodeId, NEW s \in Status, CreateNode(id, s)
  PROVE  WatchInv'
<1> DEFINE n == created + 1
<1>1. /\ n \in Node /\ created' = n /\ mounted
      /\ UNCHANGED <<mounted, refused>>
      /\ handle' = [handle EXCEPT ![id] = n] /\ owner' = [owner EXCEPT ![n] = id]
      /\ status' = [status EXCEPT ![n] = s] /\ base' = [base EXCEPT ![n] = s]
      /\ wait' = [wait EXCEPT ![n] = "pending"] /\ shown' = [shown EXCEPT ![id] = s]
  BY DEF CreateNode
<1> HIDE DEF n
<1>2. WatchTypes'
  BY <1>1, MaxAssumption DEF WatchInv, WatchTypes, Node
<1>3. \A m \in Node : m <= created => m # n
  BY NodeFacts DEF n, WatchInv, WatchTypes
<1>4. \A i \in NodeId : handle[i] # NoNode => handle[i] \in Node /\ handle[i] <= created
  BY DEF WatchInv, WatchTypes, Handles
<1>5. Handles'
  <2>1. \A m \in Node : m <= created' => m = n \/ m <= created
    BY <1>1, NodeFacts DEF n, WatchInv, WatchTypes
  <2>2. n <= created' /\ created <= created'
    BY <1>1, NodeFacts DEF n, WatchInv, WatchTypes
  <2>3. \A m \in Node : m <= created => m <= created'
    BY <2>2, <1>1, NodeFacts DEF WatchInv, WatchTypes
  <2>4. \A m \in refused' : m <= created'
    BY <1>1, <2>3 DEF WatchInv, WatchTypes, Handles
  <2> QED  BY <1>1, <1>3, <1>4, <2>1, <2>2, <2>3, <2>4 DEF WatchInv, WatchTypes, Handles
<1>6. EveryNodeWatched'
  <2>1. n # NoNode /\ s # NoStatus
    BY <1>1, NodeFacts, StatusAssumption
  <2> QED
    BY <1>1, <1>3, <1>4, <2>1 DEF WatchInv, WatchTypes, EveryNodeWatched, Usable
<1> QED  BY <1>2, <1>5, <1>6 DEF WatchInv

LEMMA WatchStep == WatchInv /\ [Next]_vars => WatchInv'
<1> SUFFICES ASSUME WatchInv, [Next]_vars  PROVE WatchInv'
  OBVIOUS
<1> USE DEF watching
<1>1. ASSUME NEW id \in NodeId, NEW s \in Status, CreateNode(id, s)  PROVE WatchInv'
  BY <1>1, WatchCreate
<1>2. ASSUME NEW id \in NodeId, DestroyNode(id)  PROVE WatchInv'
  BY <1>2, WatchFreeing DEF DestroyNode, Usable, WatchInv, WatchTypes
<1>3. CASE Dispose
  BY <1>3, WatchFreeing DEF Dispose
<1>4. ASSUME NEW id \in NodeId, Refresh(id)  PROVE WatchInv'
  <2>1. /\ UNCHANGED <<nodes, status, wait, base>> /\ mounted
        /\ shown' = [shown EXCEPT ![id] = status[handle[id]]]
        /\ handle[id] \in Node /\ handle[id] <= created
    BY <1>4 DEF Refresh, Usable, WatchInv, WatchTypes, Handles
  <2>2. status[handle[id]] \in Status
    BY <2>1 DEF WatchInv, Handles
  <2>3. shown' \in [NodeId -> Status \cup {NoStatus}]
    BY <2>1, <2>2 DEF WatchInv, WatchTypes
  <2>4. WatchTypes' /\ Handles'
    BY <2>1, <2>3 DEF WatchInv, WatchTypes, Handles
  <2>5. \A i \in NodeId : shown'[i] = IF i = id THEN status[handle[id]] ELSE shown[i]
    BY <2>1 DEF WatchInv, WatchTypes
  <2>6. handle[id] # NoNode /\ status[handle[id]] # NoStatus
    BY <2>1, <2>2, NodeFacts, StatusAssumption
  <2>7. EveryNodeWatched'
    <3> SUFFICES ASSUME NEW i \in NodeId
                 PROVE  /\ (shown'[i] = NoStatus) = (handle[i] = NoNode)
                        /\ Usable(i) =>
                             \/ wait[handle[i]] = "changed"
                             \/ /\ wait[handle[i]] = "pending"
                                /\ shown'[i] \in {base[handle[i]], status[handle[i]]}
      BY <2>1 DEF EveryNodeWatched, Usable
    <3>1. CASE i = id
      BY <2>1, <2>5, <2>6, <3>1 DEF WatchInv, EveryNodeWatched
    <3>2. CASE i # id
      BY <2>1, <2>5, <3>2 DEF WatchInv, EveryNodeWatched
    <3> QED  BY <3>1, <3>2
  <2> QED  BY <2>4, <2>7 DEF WatchInv
<1>5. ASSUME NEW n \in Node, NEW s \in Status, StatusChanges(n, s)  PROVE WatchInv'
  <2>1. /\ UNCHANGED <<nodes, shown, wait, base>>
        /\ status' = [status EXCEPT ![n] = s]
        /\ wait[n] = "pending" => status[n] = base[n]
    BY <1>5 DEF StatusChanges, Woken
  <2> QED  BY <2>1 DEF WatchInv, WatchTypes, Handles, EveryNodeWatched, Usable
<1>6. ASSUME NEW n \in Node, WaitResolves(n)  PROVE WatchInv'
  <2>1. /\ UNCHANGED <<nodes, shown, status>>
        /\ base' = [base EXCEPT ![n] = NoStatus]
        /\ wait' = [wait EXCEPT ![n] = IF Woken(n) THEN "changed" ELSE "freed"]
        /\ ~Woken(n) => handle[owner[n]] # n
    BY <1>6, NodeFacts DEF WaitResolves, Freed, Woken
  <2>2. WatchTypes' /\ Handles'
    BY <2>1 DEF WatchInv, WatchTypes, Handles
  <2>3. ASSUME NEW id \in NodeId, handle[id] = n
        PROVE  wait'[n] = "changed"
    <3>1. owner[n] = id
      BY <2>3, NodeFacts DEF WatchInv, Handles
    <3> QED  BY <2>1, <2>3, <3>1 DEF WatchInv, WatchTypes
  <2>4. EveryNodeWatched'
    BY <2>1, <2>3 DEF WatchInv, WatchTypes, EveryNodeWatched, Usable
  <2> QED  BY <2>2, <2>4 DEF WatchInv
<1>7. ASSUME NEW n \in Node, LoopTurns(n)  PROVE WatchInv'
  <2>1. UNCHANGED <<nodes, status>> /\ wait[n] \in {"changed", "freed"}
    BY <1>7 DEF LoopTurns
  <2>2. CASE Continues(n)
    <3>1. PICK w \in AfterRefresh : wait' = [wait EXCEPT ![n] = w]
      BY <1>7, <2>2 DEF LoopTurns
    <3>2. w \in {"pending", "ended"} /\ (mounted => w = "pending")
      BY DEF AfterRefresh
    <3>3. /\ base' = [base EXCEPT ![n] = status[n]]
          /\ handle[owner[n]] = n /\ owner[n] \in NodeId
          /\ shown' = [shown EXCEPT ![owner[n]] = status[n]]
      BY <1>7, <2>2, NodeFacts DEF LoopTurns, Continues, WatchInv, WatchTypes
    <3>4. status[n] \in Status
      BY <3>3, NodeFacts DEF WatchInv, Handles
    <3>5. WatchTypes' /\ Handles'
      BY <2>1, <3>1, <3>2, <3>3, <3>4 DEF WatchInv, WatchTypes, Handles
    <3>6. EveryNodeWatched'
      <4>1. CASE ~mounted
        BY <2>1, <4>1 DEF EveryNodeWatched
      <4>2. CASE mounted
        <5>1. wait' = [wait EXCEPT ![n] = "pending"]
          BY <3>1, <3>2, <4>2
        <5>2. \A id \in NodeId : id # owner[n] => handle[id] # n
          BY <2>2, NodeFacts DEF WatchInv, Handles
        <5>3. /\ status[n] # NoStatus /\ n # NoNode
              /\ \A m \in Node : m # n => wait'[m] = wait[m] /\ base'[m] = base[m]
              /\ wait'[n] = "pending" /\ base'[n] = status[n]
              /\ \A id \in NodeId : shown'[id] = IF id = owner[n] THEN status[n] ELSE shown[id]
          BY <3>3, <3>4, <5>1, StatusAssumption, NodeFacts DEF WatchInv, WatchTypes
        <5> QED
          BY <2>1, <3>3, <4>2, <5>2, <5>3
             DEF WatchInv, WatchTypes, EveryNodeWatched, Usable
      <4> QED  BY <4>1, <4>2
    <3> QED  BY <3>5, <3>6 DEF WatchInv
  <2>3. CASE ~Continues(n)
    <3>1. wait' = [wait EXCEPT ![n] = "ended"] /\ UNCHANGED <<base, shown>>
      BY <1>7, <2>3 DEF LoopTurns
    <3>2. \A id \in NodeId : mounted /\ Usable(id) => handle[id] # n
      BY <2>1, <2>3, NodeFacts DEF Continues, WatchInv, Handles, EveryNodeWatched, Usable
    <3> QED
      BY <2>1, <3>1, <3>2 DEF WatchInv, WatchTypes, Handles, EveryNodeWatched, Usable
  <2> QED  BY <2>2, <2>3
<1>8. CASE UNCHANGED <<nodes, watching>>
  BY <1>8 DEF WatchInv, WatchTypes, Handles, EveryNodeWatched, Usable
<1>9. ASSUME NEW id \in NodeId, StartPublisher(id) \/ StopPublisher(id)  PROVE WatchInv'
  BY <1>8, <1>9 DEF StartPublisher, StopPublisher
<1>10. ASSUME NEW n \in Node, ServicesEnd(n) \/ PushSample(n)  PROVE WatchInv'
  BY <1>8, <1>10 DEF ServicesEnd, PushSample
<1>11. ASSUME PollSamples \/ PollFrames \/ Record  PROVE WatchInv'
  BY <1>8, <1>11 DEF PollSamples, PollFrames, Record
<1>12. ASSUME NEW p \in Publisher, PublisherEnds(p)  PROVE WatchInv'
  BY <1>8, <1>12 DEF PublisherEnds
<1>13. ASSUME NEW id \in NodeId, FreeRefused(id) \/ DisposeFails(id)  PROVE WatchInv'
  BY <1>13, WatchRefused
<1>14. CASE UNCHANGED vars
  BY <1>8, <1>14 DEF vars
<1> QED
  BY <1>1, <1>2, <1>3, <1>4, <1>5, <1>6, <1>7, <1>9, <1>10, <1>11, <1>12, <1>13, <1>14
     DEF Next, TaskTurn

LEMMA WatchHolds == Spec => []WatchInv
  BY WatchInit, WatchStep, PTL DEF Spec

(* Every node on the canvas shows a status, and as long as it can be       *)
(* called has a pending wait that started from it, or a change that has    *)
(* resolved it (watch, topology.ts).                                       *)
THEOREM NodesAreWatched == Spec => []EveryNodeWatched
<1>1. WatchInv => EveryNodeWatched
  BY DEF WatchInv
<1> QED  BY <1>1, WatchHolds, PTL

(* A watch loop waits on a node only while the node is its canvas node's   *)
(* and its handle can be used.                                             *)
THEOREM WaitsOnLivingOnly == Spec => NeverWaitsOnFreed
<1> DEFINE A == \A n \in Node :
              wait[n] # "pending" /\ wait'[n] = "pending" =>
                ~Freed(n)' /\ n \notin refused'
<1>1. WatchInv /\ [Next]_vars => [A]_vars
  <2> SUFFICES ASSUME WatchInv, Next, NEW n \in Node,
                      wait[n] # "pending", wait'[n] = "pending"
               PROVE  ~Freed(n)' /\ n \notin refused'
    OBVIOUS
  <2>1. ASSUME NEW id \in NodeId, NEW s \in Status, CreateNode(id, s)
        PROVE  ~Freed(n)' /\ n \notin refused'
    <3>1. n = created + 1 /\ ~Freed(n)' /\ refused' = refused
      BY <2>1 DEF CreateNode, Freed, WatchInv, WatchTypes
    <3>2. n \notin refused
      <4>1. created \in Nat /\ ~(created + 1 <= created)
        BY NodeFacts DEF WatchInv, WatchTypes
      <4> QED  BY <3>1, <4>1 DEF WatchInv, Handles
    <3> QED  BY <3>1, <3>2
  <2>2. ASSUME NEW m \in Node, LoopTurns(m)
        PROVE  ~Freed(n)' /\ n \notin refused'
    BY <2>2 DEF LoopTurns, Continues, Freed, WatchInv, WatchTypes
  <2>3. ASSUME NEW m \in Node, WaitResolves(m)
        PROVE  FALSE
    BY <2>3 DEF WaitResolves, WatchInv, WatchTypes
  <2>4. ASSUME wait' = wait
        PROVE  FALSE
    BY <2>4
  <2>5. \/ wait' = wait
        \/ \E id \in NodeId, s \in Status : CreateNode(id, s)
        \/ \E m \in Node : LoopTurns(m) \/ WaitResolves(m)
    BY DEF Next, TaskTurn, DestroyNode, FreeRefused, DisposeFails, Dispose, Freeing,
       Refresh, StartPublisher, StopPublisher, PollSamples, PollFrames, Record,
       StatusChanges, ServicesEnd, PushSample, PublisherEnds, watching
  <2> QED  BY <2>1, <2>2, <2>3, <2>4, <2>5
<1> QED  BY <1>1, WatchHolds, PTL DEF Spec, NeverWaitsOnFreed

-----------------------------------------------------------------------------
(* The rings and logs.                                                     *)

(* Consecutive numbers, the last of them hi.                               *)
Ends(s, hi) ==
  /\ s \in Seq(Nat) /\ Len(s) <= hi
  /\ \A i \in 1 .. Len(s) : s[i] = hi - Len(s) + i

Smaller(m, n) == IF m <= n THEN m ELSE n

LEMMA SizeFacts ==
  /\ RingSize \in Nat /\ LogSize \in Nat /\ RingSize > 0 /\ LogSize > 0
  /\ LogSize <= RingSize
  BY SizeAssumption

(* A ring that was drained at lo holds the newest of what came since.      *)
LEMMA PushedRing ==
  ASSUME NEW lo \in Nat, NEW hi \in Nat, lo <= hi, NEW ring,
         Ends(ring, hi), Len(ring) = Smaller(RingSize, hi - lo)
  PROVE  /\ Ends(Pushed(ring, hi + 1), hi + 1)
         /\ Len(Pushed(ring, hi + 1)) = Smaller(RingSize, hi + 1 - lo)
<1>1. /\ ring \in Seq(Nat) /\ Len(ring) \in Nat /\ Len(ring) <= hi
      /\ \A i \in 1 .. Len(ring) : ring[i] = hi - Len(ring) + i
  BY DEF Ends
<1>2. CASE Len(ring) < RingSize
  <2> DEFINE new == Append(ring, hi + 1)
  <2>1. Pushed(ring, hi + 1) = new
    BY <1>1, <1>2, SizeFacts DEF Pushed
  <2>2. new \in Seq(Nat) /\ Len(new) = Len(ring) + 1
    BY <1>1
  <2>3. \A i \in 1 .. Len(new) : new[i] = IF i <= Len(ring) THEN ring[i] ELSE hi + 1
    BY <1>1
  <2> HIDE DEF new
  <2>4. ASSUME NEW i \in 1 .. Len(new)  PROVE new[i] = hi + 1 - Len(new) + i
    <3>1. CASE i <= Len(ring)
      <4>1. i \in 1 .. Len(ring)
        BY <1>1, <2>2, <3>1
      <4> QED  BY <1>1, <2>2, <2>3, <3>1, <4>1
    <3>2. CASE i > Len(ring)
      BY <1>1, <2>2, <2>3, <3>2
    <3> QED  BY <1>1, <2>2, <3>1, <3>2
  <2>5. Len(new) <= hi + 1 /\ Len(new) = Smaller(RingSize, hi + 1 - lo)
    BY <1>1, <1>2, <2>2, SizeFacts DEF Ends, Smaller
  <2>6. Ends(new, hi + 1)
    BY <2>2, <2>4, <2>5 DEF Ends
  <2> QED  BY <2>1, <2>5, <2>6
<1>3. CASE Len(ring) >= RingSize
  <2> DEFINE new == Append(Tail(ring), hi + 1)
  <2>1. Pushed(ring, hi + 1) = new
    BY <1>1, <1>3 DEF Pushed
  <2>2. ring # <<>> /\ Len(ring) = RingSize /\ Len(ring) > 0
    BY <1>1, <1>3, SizeFacts DEF Smaller
  <2>3. /\ Tail(ring) \in Seq(Nat) /\ Len(Tail(ring)) = Len(ring) - 1
        /\ \A i \in 1 .. Len(ring) - 1 : Tail(ring)[i] = ring[i + 1]
    BY <1>1, <2>2
  <2>4. new \in Seq(Nat) /\ Len(new) = Len(ring)
    BY <1>1, <2>2, <2>3
  <2>5. \A i \in 1 .. Len(new) :
          new[i] = IF i < Len(ring) THEN ring[i + 1] ELSE hi + 1
    BY <1>1, <2>2, <2>3
  <2> HIDE DEF new
  <2>6. ASSUME NEW i \in 1 .. Len(new)  PROVE new[i] = hi + 1 - Len(new) + i
    <3>1. CASE i < Len(ring)
      <4>1. i + 1 \in 1 .. Len(ring)
        BY <1>1, <2>4, <3>1
      <4> QED  BY <1>1, <2>4, <2>5, <3>1, <4>1
    <3>2. CASE i >= Len(ring)
      BY <1>1, <2>4, <2>5, <3>2
    <3> QED  BY <1>1, <2>4, <3>1, <3>2
  <2>7. Len(new) <= hi + 1 /\ Len(new) = Smaller(RingSize, hi + 1 - lo)
    BY <1>1, <2>2, <2>4, SizeFacts DEF Ends, Smaller
  <2>8. Ends(new, hi + 1)
    BY <2>4, <2>6, <2>7 DEF Ends
  <2> QED  BY <2>1, <2>7, <2>8
<1> QED  BY <1>1, <1>2, <1>3, SizeFacts

(* Draining it leaves no gap in the log, for the ring is not the smaller.  *)
LEMMA LoggedLog ==
  ASSUME NEW hi \in Nat, NEW lo \in 0 .. hi,
         NEW log \in Seq(Nat), NEW ring \in Seq(Nat),
         Ends(log, lo), Len(log) <= LogSize,
         Ends(ring, hi), Len(ring) = Smaller(RingSize, hi - lo)
  PROVE  /\ Ends(Logged(log, ring), hi)
         /\ Len(Logged(log, ring)) = Smaller(LogSize, Len(log) + Len(ring))
<1> DEFINE all == log \o ring
           n == Smaller(LogSize, Len(log) + Len(ring))
<1>1. /\ log \in Seq(Nat) /\ Len(log) \in Nat /\ Len(log) <= lo
      /\ ring \in Seq(Nat) /\ Len(ring) \in Nat /\ Len(ring) <= hi
  BY DEF Ends
<1>2. all \in Seq(Nat) /\ Len(all) = Len(log) + Len(ring) /\ Len(all) \in Nat
  <2> HIDE DEF all
  <2>1. all \in Seq(Nat) /\ Len(all) = Len(log) + Len(ring)
    BY <1>1, ConcatProperties DEF all
  <2> QED  BY <1>1, <2>1
<1>3. \A i \in 1 .. Len(all) :
        all[i] = IF i <= Len(log) THEN log[i] ELSE ring[i - Len(log)]
  BY <1>1, <1>2, ConcatProperties
<1>4. Logged(log, ring) = [i \in 1 .. n |-> all[Len(all) - n + i]]
  <2>1. (IF Len(all) > LogSize THEN LogSize ELSE Len(all)) = n
    BY <1>1, <1>2, SizeFacts DEF Smaller
  <2> HIDE DEF n
  <2> QED  BY <2>1 DEF Logged
<1> HIDE DEF all
<1>5. n \in Nat /\ n <= Len(all) /\ n <= LogSize
  BY <1>1, <1>2, SizeFacts DEF Smaller
<1> HIDE DEF n
<1>6. \A j \in 1 .. Len(all) : Len(all) - n < j => all[j] = hi - Len(all) + j
  <2> SUFFICES ASSUME NEW j \in 1 .. Len(all), Len(all) - n < j
               PROVE  all[j] = hi - Len(all) + j
    OBVIOUS
  <2>1. CASE j > Len(log)
    <3>1. j - Len(log) \in 1 .. Len(ring)
      BY <1>1, <1>2, <2>1
    <3>2. ring[j - Len(log)] = hi - Len(ring) + (j - Len(log))
      BY <3>1 DEF Ends
    <3> QED  BY <1>1, <1>2, <1>3, <2>1, <3>2
  <2>2. CASE j <= Len(log)
    <3>1. Len(ring) < n
      BY <1>1, <1>2, <1>5, <2>2
    <3>2. Len(ring) = hi - lo
      <4>1. Len(ring) < RingSize
        BY <1>1, <1>5, <3>1, SizeFacts
      <4> QED  BY <1>1, <4>1, SizeFacts DEF Smaller
    <3>3. log[j] = lo - Len(log) + j
      <4>1. j \in 1 .. Len(log)
        BY <1>1, <1>2, <2>2
      <4> QED  BY <4>1 DEF Ends
    <3>4. all[j] = log[j]
      BY <1>3, <2>2
    <3>5. Len(all) = Len(log) + Len(ring) /\ j \in Int
      BY <1>2
    <3>6. lo - Len(log) + j = hi - Len(all) + j
      BY <1>1, <3>2, <3>5
    <3> QED  BY <3>3, <3>4, <3>6
  <2> QED  BY <1>1, <1>2, <2>1, <2>2
<1> DEFINE new == Logged(log, ring)
<1>7. new \in Seq(Nat) /\ Len(new) = n
  <2>1. \A i \in 1 .. n : all[Len(all) - n + i] \in Nat
    BY <1>2, <1>5
  <2> QED  BY <1>4, <1>5, <2>1
<1>8. \A i \in 1 .. n : new[i] = hi - n + i
  <2> SUFFICES ASSUME NEW i \in 1 .. n  PROVE new[i] = hi - n + i
    OBVIOUS
  <2>1. new[i] = all[Len(all) - n + i]
    BY <1>4
  <2>2. Len(all) - n + i \in 1 .. Len(all) /\ Len(all) - n < Len(all) - n + i
    BY <1>2, <1>5
  <2> QED  BY <1>2, <1>5, <1>6, <2>1, <2>2
<1>9. n <= hi
  BY <1>1, <1>2, <1>5, SizeFacts DEF Smaller
<1> QED  BY <1>7, <1>8, <1>9 DEF Ends, n

(* A log and a ring that hold the newest of k elements: the log those that *)
(* came before the last drain, the ring those that came since; whole if    *)
(* the log was never emptied.                                              *)
Drained(log, ring, k, whole) ==
  \E e \in 0 .. k :
    /\ Ends(log, e) /\ Len(log) <= LogSize
    /\ whole => Len(log) = Smaller(LogSize, e)
    /\ Ends(ring, k) /\ Len(ring) = Smaller(RingSize, k - e)

LEMMA DrainedEmpty ==
  ASSUME NEW k \in Nat, NEW whole \in BOOLEAN, whole => k = 0
  PROVE  Drained(<<>>, <<>>, k, whole)
<1>1. Ends(<<>>, k) /\ Len(<<>>) = 0
  BY DEF Ends
<1>2. Smaller(RingSize, k - k) = 0 /\ (whole => Smaller(LogSize, k) = 0)
  BY SizeFacts DEF Smaller
<1>3. k \in 0 .. k /\ 0 <= LogSize
  BY SizeFacts
<1> QED  BY <1>1, <1>2, <1>3 DEF Drained

LEMMA DrainedPush ==
  ASSUME NEW log, NEW ring, NEW k \in Nat, NEW whole \in BOOLEAN,
         Drained(log, ring, k, whole)
  PROVE  Drained(log, Pushed(ring, k + 1), k + 1, whole)
<1>1. PICK e \in 0 .. k :
        /\ Ends(log, e) /\ Len(log) <= LogSize
        /\ whole => Len(log) = Smaller(LogSize, e)
        /\ Ends(ring, k) /\ Len(ring) = Smaller(RingSize, k - e)
  BY DEF Drained
<1>2. e \in Nat /\ e <= k /\ e \in 0 .. (k + 1)
  OBVIOUS
<1>3. /\ Ends(Pushed(ring, k + 1), k + 1)
      /\ Len(Pushed(ring, k + 1)) = Smaller(RingSize, k + 1 - e)
  BY <1>1, <1>2, PushedRing
<1> QED  BY <1>1, <1>2, <1>3 DEF Drained

LEMMA DrainedPoll ==
  ASSUME NEW log, NEW ring, NEW k \in Nat, NEW whole \in BOOLEAN,
         Drained(log, ring, k, whole)
  PROVE  Drained(Logged(log, ring), <<>>, k, whole)
<1>1. PICK e \in 0 .. k :
        /\ Ends(log, e) /\ Len(log) <= LogSize
        /\ whole => Len(log) = Smaller(LogSize, e)
        /\ Ends(ring, k) /\ Len(ring) = Smaller(RingSize, k - e)
  BY DEF Drained
<1>2. e \in Nat /\ e <= k
  OBVIOUS
<1>3. /\ Ends(Logged(log, ring), k)
      /\ Len(Logged(log, ring)) = Smaller(LogSize, Len(log) + Len(ring))
  <2>1. /\ Ends(log, e) /\ Len(log) <= LogSize
        /\ Ends(ring, k) /\ Len(ring) = Smaller(RingSize, k - e)
    BY <1>1
  <2>2. log \in Seq(Nat) /\ ring \in Seq(Nat)
    BY <2>1 DEF Ends
  <2> QED  BY <2>1, <2>2, LoggedLog
<1>4. Len(log) \in Nat /\ Len(ring) \in Nat
  BY <1>1 DEF Ends
<1>5. Len(Logged(log, ring)) <= LogSize
  BY <1>3, <1>4, SizeFacts DEF Smaller
<1>6. whole => Len(Logged(log, ring)) = Smaller(LogSize, k)
  BY <1>1, <1>2, <1>3, <1>4, SizeFacts DEF Smaller
<1>7. Ends(<<>>, k) /\ Len(<<>>) = 0 /\ Smaller(RingSize, k - k) = 0
  BY SizeFacts DEF Ends, Smaller
<1>8. k \in 0 .. k
  OBVIOUS
<1> QED  BY <1>3, <1>5, <1>6, <1>7, <1>8 DEF Drained

ShownTypes ==
  /\ services \in SUBSET Node /\ \A n \in services : n <= created
  /\ DOMAIN samples = Node /\ readings \in [Node -> Nat]
  /\ DOMAIN sensorData = NodeId
  /\ tapped \in Nat

Fresh == \A n \in Node : n > created => samples[n] = <<>> /\ readings[n] = 0

(* A log of a node that has been freed.                                    *)
Whole(log) == \E ring : \E k \in Nat : Drained(log, ring, k, TRUE)

Samples ==
  \A id \in NodeId :
    IF handle[id] = NoNode THEN Whole(sensorData[id])
    ELSE Drained(sensorData[id], samples[handle[id]], readings[handle[id]], TRUE)

Taps == Drained(frames, events, tapped, FALSE)

ShownInv == ShownTypes /\ Fresh /\ Samples /\ Taps

LEMMA DrainedCleared ==
  ASSUME NEW log, NEW ring, NEW k \in Nat, Drained(log, ring, k, FALSE)
  PROVE  Drained(<<>>, ring, k, FALSE)
<1>1. PICK e \in 0 .. k : Ends(ring, k) /\ Len(ring) = Smaller(RingSize, k - e)
  BY DEF Drained
<1>2. Ends(<<>>, e) /\ Len(<<>>) <= LogSize
  BY SizeFacts DEF Ends
<1> QED  BY <1>1, <1>2 DEF Drained

LEMMA ShownInit == Init => ShownInv
<1> SUFFICES ASSUME Init  PROVE ShownInv
  OBVIOUS
<1>1. Drained(<<>>, <<>>, 0, FALSE) /\ Whole(<<>>)
  BY DrainedEmpty DEF Whole
<1> QED
  BY <1>1 DEF Init, ShownInv, ShownTypes, Fresh, Samples, Taps

(* Two canvas nodes have two nodes.                                        *)
LEMMA HandlesDiffer ==
  ASSUME WatchInv, NEW i \in NodeId, NEW j \in NodeId, i # j, handle[i] # NoNode
  PROVE  handle[i] # handle[j]
  BY DEF WatchInv, Handles

(* What goes with canvas nodes I leaves the rings of the others alone.     *)
LEMMA SamplesGone ==
  ASSUME WatchInv, ShownInv, NEW I \in SUBSET NodeId, NoSamples(I)
  PROVE  /\ DOMAIN samples' = Node /\ readings' \in [Node -> Nat]
         /\ DOMAIN sensorData' = NodeId
         /\ \A id \in I : sensorData'[id] = <<>>
         /\ \A id \in NodeId \ I :
              /\ sensorData'[id] = sensorData[id]
              /\ handle[id] # NoNode =>
                   /\ samples'[handle[id]] = samples[handle[id]]
                   /\ readings'[handle[id]] = readings[handle[id]]
         /\ \A n \in Node : n > created => samples'[n] = <<>> /\ readings'[n] = 0
<1> DEFINE N == {handle[id] : id \in I}
<1>1. /\ sensorData' = [id \in NodeId |-> IF id \in I THEN <<>> ELSE sensorData[id]]
      /\ samples' = [n \in Node |-> IF n \in N THEN <<>> ELSE samples[n]]
      /\ readings' = [n \in Node |-> IF n \in N THEN 0 ELSE readings[n]]
  BY DEF NoSamples
<1>2. \A id \in NodeId \ I : handle[id] # NoNode => handle[id] \notin N
  BY HandlesDiffer
<1>3. \A id \in NodeId : handle[id] # NoNode => handle[id] \in Node
  BY DEF WatchInv, WatchTypes
<1> HIDE DEF N
<1>4. DOMAIN samples' = Node /\ DOMAIN sensorData' = NodeId
  BY <1>1
<1>5. readings' \in [Node -> Nat]
  BY <1>1 DEF ShownInv, ShownTypes
<1>6. \A n \in Node : n > created => samples'[n] = <<>> /\ readings'[n] = 0
  BY <1>1 DEF ShownInv, Fresh
<1> QED  BY <1>1, <1>2, <1>3, <1>4, <1>5, <1>6

LEMMA ShownFreeing ==
  ASSUME WatchInv, ShownInv, NEW I \in SUBSET NodeId, Freeing(I),
         events' = events, tapped' = tapped, frames' \in {frames, <<>>}
  PROVE  ShownInv'
<1>1. /\ NoSamples(I) /\ UNCHANGED <<created, services>>
      /\ \A id \in NodeId : handle'[id] = IF id \in I THEN NoNode ELSE handle[id]
  BY DEF Freeing
<1>2. ShownTypes' /\ Fresh'
  BY <1>1, SamplesGone DEF ShownInv, ShownTypes, Fresh
<1>3. Samples'
  <2> SUFFICES ASSUME NEW id \in NodeId
               PROVE  IF handle'[id] = NoNode THEN Whole(sensorData'[id])
                      ELSE Drained(sensorData'[id], samples'[handle'[id]],
                                   readings'[handle'[id]], TRUE)
    BY DEF Samples
  <2>1. CASE id \in I
    <3>1. handle'[id] = NoNode /\ sensorData'[id] = <<>>
      BY <1>1, <2>1, SamplesGone
    <3>2. Whole(<<>>)
      BY DrainedEmpty DEF Whole
    <3> QED  BY <3>1, <3>2
  <2>2. CASE id \notin I
    BY <1>1, <2>2, SamplesGone DEF ShownInv, Samples
  <2> QED  BY <2>1, <2>2
<1>4. Taps'
  BY DrainedCleared DEF ShownInv, ShownTypes, Taps
<1> QED  BY <1>2, <1>3, <1>4 DEF ShownInv

(* dispose that throws leaves the logs of the nodes it has freed.          *)
LEMMA ShownRefused ==
  ASSUME WatchInv, ShownInv, NEW c \in NodeId, FreeRefused(c) \/ DisposeFails(c)
  PROVE  ShownInv'
<1>1. /\ UNCHANGED <<created, services, sensing, tapping>>
      /\ \A id \in NodeId : handle'[id] = handle[id] \/ handle'[id] = NoNode
  BY DEF FreeRefused, DisposeFails, WatchInv, WatchTypes
<1>2. ShownTypes' /\ Fresh' /\ Taps'
  BY <1>1 DEF ShownInv, ShownTypes, Fresh, Taps, sensing, tapping
<1>3. Samples'
  <2> SUFFICES ASSUME NEW id \in NodeId
               PROVE  IF handle'[id] = NoNode THEN Whole(sensorData'[id])
                      ELSE Drained(sensorData'[id], samples'[handle'[id]],
                                   readings'[handle'[id]], TRUE)
    BY DEF Samples
  <2>1. CASE handle'[id] = handle[id]
    BY <1>1, <2>1 DEF ShownInv, Samples, sensing
  <2>2. CASE handle'[id] = NoNode /\ handle[id] # NoNode
    <3>1. readings[handle[id]] \in Nat
      BY <2>2 DEF WatchInv, WatchTypes, ShownInv, ShownTypes
    <3>2. Drained(sensorData[id], samples[handle[id]], readings[handle[id]], TRUE)
      BY <2>2 DEF ShownInv, Samples
    <3> QED  BY <1>1, <2>2, <3>1, <3>2 DEF Whole, sensing
  <2> QED  BY <1>1, <2>1, <2>2
<1> QED  BY <1>2, <1>3 DEF ShownInv

LEMMA ShownCreate ==
  ASSUME WatchInv, ShownInv, NEW c \in NodeId, NEW s \in Status, CreateNode(c, s)
  PROVE  ShownInv'
<1> DEFINE n == created + 1
<1>1. /\ n \in Node /\ created' = n /\ NoSamples({c})
      /\ handle' = [handle EXCEPT ![c] = n] /\ services' = services \cup {n}
      /\ UNCHANGED tapping
  BY DEF CreateNode
<1>2. n > created /\ created \in Nat
  BY NodeFacts DEF WatchInv, WatchTypes
<1> HIDE DEF n
<1>3. \A m \in Node : m > n => m > created
  BY <1>1, <1>2, NodeFacts
<1>4. \A m \in Node : m <= created => m <= n
  BY <1>1, <1>2, NodeFacts
<1>5. n <= n
  BY <1>1, NodeFacts
<1>6. ShownTypes' /\ Fresh'
  BY <1>1, <1>3, <1>4, <1>5, SamplesGone DEF ShownInv, ShownTypes, Fresh, tapping
<1>7. Samples'
  <2> SUFFICES ASSUME NEW id \in NodeId
               PROVE  IF handle'[id] = NoNode THEN Whole(sensorData'[id])
                      ELSE Drained(sensorData'[id], samples'[handle'[id]],
                                   readings'[handle'[id]], TRUE)
    BY DEF Samples
  <2>1. CASE id = c
    <3>1. handle'[id] = n
      BY <1>1, <2>1 DEF WatchInv, WatchTypes
    <3>2. sensorData'[id] = <<>> /\ samples'[n] = <<>> /\ readings'[n] = 0
      BY <1>1, <1>2, <2>1, SamplesGone
    <3>3. Drained(<<>>, <<>>, 0, TRUE)
      BY DrainedEmpty
    <3>4. n # NoNode
      BY <1>1, NodeFacts
    <3> QED  BY <3>1, <3>2, <3>3, <3>4
  <2>2. CASE id # c
    <3>1. handle'[id] = handle[id]
      BY <1>1, <2>2 DEF WatchInv, WatchTypes
    <3>2. /\ sensorData'[id] = sensorData[id]
          /\ handle[id] # NoNode =>
               /\ samples'[handle[id]] = samples[handle[id]]
               /\ readings'[handle[id]] = readings[handle[id]]
      BY <1>1, <2>2, SamplesGone
    <3> QED  BY <3>1, <3>2 DEF ShownInv, Samples
  <2> QED  BY <2>1, <2>2
<1>8. Taps'
  BY <1>1 DEF tapping, ShownInv, Taps
<1> QED  BY <1>6, <1>7, <1>8 DEF ShownInv

LEMMA ShownPush ==
  ASSUME WatchInv, ShownInv, NEW n \in Node, PushSample(n)
  PROVE  ShownInv'
<1>1. /\ n \in services
      /\ readings' = [readings EXCEPT ![n] = @ + 1]
      /\ samples' = [samples EXCEPT ![n] = Pushed(@, readings[n] + 1)]
      /\ UNCHANGED <<handle, created, services, sensorData, tapping>>
  BY DEF PushSample
<1>2. n <= created /\ readings[n] \in Nat
  BY <1>1 DEF ShownInv, ShownTypes
<1>3. ShownTypes'
  BY <1>1, <1>2 DEF ShownInv, ShownTypes, tapping
<1>4. Fresh'
  <2>1. \A m \in Node : m > created => m # n
    BY <1>2, NodeFacts DEF WatchInv, WatchTypes
  <2> QED  BY <1>1, <2>1 DEF ShownInv, ShownTypes, Fresh
<1>5. Samples'
  <2> SUFFICES ASSUME NEW id \in NodeId, handle[id] # NoNode
               PROVE  Drained(sensorData[id], samples'[handle[id]],
                              readings'[handle[id]], TRUE)
    BY <1>1 DEF ShownInv, Samples
  <2>1. Drained(sensorData[id], samples[handle[id]], readings[handle[id]], TRUE)
    BY DEF ShownInv, Samples
  <2>2. CASE handle[id] = n
    <3>1. samples'[n] = Pushed(samples[n], readings[n] + 1) /\ readings'[n] = readings[n] + 1
      BY <1>1 DEF ShownInv, ShownTypes
    <3> QED  BY <1>2, <2>1, <2>2, <3>1, DrainedPush
  <2>3. CASE handle[id] # n
    BY <1>1, <2>1, <2>3 DEF ShownInv, ShownTypes, WatchInv, WatchTypes
  <2> QED  BY <2>2, <2>3
<1>6. Taps'
  BY <1>1 DEF tapping, ShownInv, Taps
<1> QED  BY <1>3, <1>4, <1>5, <1>6 DEF ShownInv

LEMMA ShownPoll ==
  ASSUME WatchInv, ShownInv, PollSamples
  PROVE  ShownInv'
<1>1. /\ sensorData' = [id \in NodeId |->
           IF Polled(id) THEN Logged(sensorData[id], samples[handle[id]])
           ELSE sensorData[id]]
      /\ samples' = [n \in Node |-> IF handle[owner[n]] = n /\ Polled(owner[n])
                                   THEN <<>> ELSE samples[n]]
      /\ UNCHANGED <<handle, created, services, readings, tapping>>
  BY DEF PollSamples
<1>2. ShownTypes' /\ Fresh'
  BY <1>1 DEF ShownInv, ShownTypes, Fresh, tapping
<1>3. Samples'
  <2> SUFFICES ASSUME NEW id \in NodeId
               PROVE  IF handle[id] = NoNode THEN Whole(sensorData'[id])
                      ELSE Drained(sensorData'[id], samples'[handle[id]],
                                   readings[handle[id]], TRUE)
    BY <1>1 DEF Samples
  <2>1. CASE handle[id] = NoNode
    <3>1. ~Polled(id)
      BY <2>1 DEF Polled, Usable
    <3> QED  BY <1>1, <2>1, <3>1 DEF ShownInv, Samples
  <2>2. CASE handle[id] # NoNode
    <3>1. /\ handle[id] \in Node /\ readings[handle[id]] \in Nat
          /\ owner[handle[id]] = id
      BY <2>2 DEF WatchInv, WatchTypes, Handles, ShownInv, ShownTypes
    <3>2. Drained(sensorData[id], samples[handle[id]], readings[handle[id]], TRUE)
      BY <2>2 DEF ShownInv, Samples
    <3>3. CASE Polled(id)
      <4>1. /\ sensorData'[id] = Logged(sensorData[id], samples[handle[id]])
            /\ samples'[handle[id]] = <<>>
        BY <1>1, <2>2, <3>1, <3>3
      <4> QED  BY <2>2, <3>1, <3>2, <4>1, DrainedPoll
    <3>4. CASE ~Polled(id)
      <4>1. /\ sensorData'[id] = sensorData[id]
            /\ samples'[handle[id]] = samples[handle[id]]
        BY <1>1, <2>2, <3>1, <3>4
      <4> QED  BY <2>2, <3>2, <4>1
    <3> QED  BY <3>3, <3>4
  <2> QED  BY <2>1, <2>2
<1>4. Taps'
  BY <1>1 DEF tapping, ShownInv, Taps
<1> QED  BY <1>2, <1>3, <1>4 DEF ShownInv

LEMMA ShownStep == WatchInv /\ ShownInv /\ [Next]_vars => ShownInv'
<1> SUFFICES ASSUME WatchInv, ShownInv, [Next]_vars  PROVE ShownInv'
  OBVIOUS
<1> USE DEF sensing, tapping
<1>1. ASSUME NEW id \in NodeId, NEW s \in Status, CreateNode(id, s)  PROVE ShownInv'
  BY <1>1, ShownCreate
<1>2. ASSUME NEW id \in NodeId, DestroyNode(id)  PROVE ShownInv'
  BY <1>2, ShownFreeing DEF DestroyNode
<1>3. CASE Dispose
  BY <1>3, ShownFreeing DEF Dispose
<1>4. ASSUME NEW n \in Node, PushSample(n)  PROVE ShownInv'
  BY <1>4, ShownPush
<1>5. CASE PollSamples
  BY <1>5, ShownPoll
<1>6. CASE Record
  <2>1. /\ UNCHANGED <<handle, created, services, sensing>> /\ frames' = frames
        /\ tapped' = tapped + 1 /\ events' = Pushed(events, tapped + 1)
    BY <1>6 DEF Record
  <2>2. Taps'
    BY <2>1, DrainedPush DEF ShownInv, ShownTypes, Taps
  <2>3. ShownTypes'
    BY <2>1 DEF ShownInv, ShownTypes
  <2> QED  BY <2>1, <2>2, <2>3 DEF ShownInv, Fresh, Samples
<1>7. CASE PollFrames
  <2>1. /\ UNCHANGED <<handle, created, services, sensing, tapped>>
        /\ frames' = Logged(frames, events) /\ events' = <<>>
    BY <1>7 DEF PollFrames
  <2>2. Taps'
    BY <2>1, DrainedPoll DEF ShownInv, ShownTypes, Taps
  <2> QED  BY <2>1, <2>2 DEF ShownInv, ShownTypes, Fresh, Samples
<1>8. CASE /\ UNCHANGED <<handle, created, sensing, tapping>>
           /\ services' \in SUBSET services
  BY <1>8 DEF ShownInv, ShownTypes, Fresh, Samples, Taps
<1>9. ASSUME NEW id \in NodeId, Refresh(id) \/ StartPublisher(id) \/ StopPublisher(id)
      PROVE  ShownInv'
  BY <1>8, <1>9 DEF Refresh, StartPublisher, StopPublisher
<1>10. ASSUME NEW n \in Node, \/ WaitResolves(n) \/ LoopTurns(n) \/ ServicesEnd(n)
                              \/ \E s \in Status : StatusChanges(n, s)
       PROVE  ShownInv'
  BY <1>8, <1>10 DEF WaitResolves, LoopTurns, ServicesEnd, StatusChanges
<1>11. ASSUME NEW p \in Publisher, PublisherEnds(p)  PROVE ShownInv'
  BY <1>8, <1>11 DEF PublisherEnds
<1>12. ASSUME NEW id \in NodeId, FreeRefused(id) \/ DisposeFails(id)  PROVE ShownInv'
  BY <1>12, ShownRefused
<1>13. CASE UNCHANGED vars
  BY <1>8, <1>13 DEF vars
<1> QED
  BY <1>1, <1>2, <1>3, <1>4, <1>5, <1>6, <1>7, <1>9, <1>10, <1>11, <1>12, <1>13
     DEF Next, TaskTurn

(* What is shown of a node's readings and of the tapped frames has no gap  *)
(* (takeSamples, takeFrameEvents and their polling), for every size of the *)
(* rings that is not below that of the logs.                               *)
THEOREM ShownIsWhole == Spec => []ShownWhole
<1>1. WatchInv /\ ShownInv => ShownWhole
  <2> SUFFICES ASSUME WatchInv, ShownInv  PROVE ShownWhole
    OBVIOUS
  <2>1. ASSUME NEW id \in NodeId, sensorData[id] # <<>>
        PROVE  /\ \A i \in DOMAIN sensorData[id] :
                    sensorData[id][i] = sensorData[id][1] + i - 1
               /\ sensorData[id][1] = 1 \/ Len(sensorData[id]) = LogSize
    <3> DEFINE s == sensorData[id]
    <3>1. PICK e \in Nat : Ends(s, e) /\ Len(s) = Smaller(LogSize, e)
      <4>1. Whole(s)
        <5>1. CASE handle[id] = NoNode
          BY <5>1 DEF ShownInv, Samples
        <5>2. CASE handle[id] # NoNode
          <6>1. readings[handle[id]] \in Nat
            BY <5>2 DEF WatchInv, WatchTypes, ShownInv, ShownTypes
          <6> QED  BY <5>2, <6>1 DEF ShownInv, Samples, Whole
        <5> QED  BY <5>1, <5>2
      <4> HIDE DEF s
      <4> QED  BY <4>1 DEF Whole, Drained
    <3> HIDE DEF s
    <3>2. s \in Seq(Nat) /\ s # <<>>
      BY <2>1, <3>1 DEF s, Ends
    <3>3. Len(s) \in Nat /\ Len(s) > 0 /\ DOMAIN s = 1 .. Len(s)
      BY <3>2
    <3>4. \A i \in 1 .. Len(s) : s[i] = e - Len(s) + i
      BY <3>1 DEF Ends
    <3>5. s[1] = e - Len(s) + 1
      BY <3>3, <3>4
    <3>6. s[1] = 1 \/ Len(s) = LogSize
      BY <3>1, <3>3, <3>5, SizeFacts DEF Smaller
    <3>7. \A i \in DOMAIN s : s[i] = s[1] + i - 1
      BY <3>1, <3>3, <3>4, <3>5
    <3> QED  BY <3>6, <3>7 DEF s
  <2>2. ASSUME frames # <<>>
        PROVE  \A i \in DOMAIN frames : frames[i] = frames[1] + i - 1
    <3>1. PICK e \in Nat : Ends(frames, e)
      BY DEF ShownInv, ShownTypes, Taps, Drained
    <3>2. Len(frames) \in Nat /\ Len(frames) > 0 /\ DOMAIN frames = 1 .. Len(frames)
      BY <2>2, <3>1 DEF Ends
    <3> QED  BY <3>1, <3>2 DEF Ends
  <2> QED  BY <2>1, <2>2 DEF ShownWhole, NoGap
<1> QED  BY <1>1, ShownInit, ShownStep, WatchHolds, PTL DEF Spec
-----------------------------------------------------------------------------
(* The publishers.                                                         *)

PublisherTypes ==
  /\ started \in 0 .. MaxItems
  /\ publisher \in [Node -> Publisher \cup {NoPublisher}]
  /\ open \in SUBSET Publisher
  /\ publishing \in [NodeId -> BOOLEAN]

(* Each publisher is one node's; a node that is not created has none.      *)
Publishers ==
  /\ \A n \in Node : publisher[n] <= started
  /\ \A n \in Node : n > created => publisher[n] = NoPublisher
  /\ \A m, n \in Node : publisher[m] = publisher[n] => m = n \/ publisher[m] = NoPublisher

PubInv == PublisherTypes /\ Publishers /\ PublisherAgrees

LEMMA PublisherFacts ==
  /\ MaxItems \in Nat /\ NoPublisher \notin Publisher /\ Publisher \subseteq Nat
  /\ NoPublisher = 0
  BY MaxAssumption DEF Publisher, NoPublisher

LEMMA PubInit == Init => PubInv
<1> SUFFICES ASSUME Init  PROVE PubInv
  OBVIOUS
<1>1. PublisherTypes /\ Publishers
  BY PublisherFacts DEF Init, PublisherTypes, Publishers
<1>2. PublisherAgrees
  BY DEF Init, PublisherAgrees
<1> QED  BY <1>1, <1>2 DEF PubInv

(* What PublisherAgrees says of one canvas node and of one publisher.      *)
LEMMA AgreesPointwise ==
  PublisherAgrees <=>
    /\ mounted => \A id \in NodeId :
         publishing[id] = (handle[id] # NoNode /\ publisher[handle[id]] \in open)
    /\ \A p \in open : \E id \in NodeId : handle[id] # NoNode /\ p = publisher[handle[id]]
  BY DEF PublisherAgrees

(* The Drop of the nodes of canvas nodes I closes their publishers only.   *)
LEMMA PubFreeing ==
  ASSUME WatchInv, PubInv, NEW I \in SUBSET NodeId, Freeing(I), mounted
  PROVE  PubInv'
<1> DEFINE N == {handle[id] : id \in I} \ {NoNode}
<1>1. /\ \A id \in NodeId : handle'[id] = IF id \in I THEN NoNode ELSE handle[id]
      /\ publishing' = [id \in NodeId |-> publishing[id] /\ id \notin I]
      /\ open' = open \ PublishersOf(N)
      /\ UNCHANGED <<created, started, publisher>>
  BY DEF Freeing
<1>2. PublisherTypes' /\ Publishers'
  BY <1>1 DEF PubInv, PublisherTypes, Publishers
<1>3. \A id \in NodeId : handle[id] # NoNode => handle[id] \in Node
  BY DEF WatchInv, WatchTypes
<1>4. \A id \in I : handle[id] # NoNode => publisher[handle[id]] \notin open'
  <2> SUFFICES ASSUME NEW id \in I, handle[id] # NoNode,
                      publisher[handle[id]] \in open
               PROVE  publisher[handle[id]] \in PublishersOf(N)
    BY <1>1
  <2>1. handle[id] \in N /\ publisher[handle[id]] # NoPublisher
    BY PublisherFacts DEF PubInv, PublisherTypes
  <2> HIDE DEF N
  <2> QED  BY <2>1 DEF PublishersOf
<1>5. \A id \in NodeId \ I : handle[id] # NoNode =>
        publisher[handle[id]] \notin PublishersOf(N)
  <2> SUFFICES ASSUME NEW id \in NodeId \ I, handle[id] # NoNode, NEW i \in I,
                      handle[i] # NoNode, publisher[handle[i]] # NoPublisher,
                      publisher[handle[i]] = publisher[handle[id]]
               PROVE  FALSE
    BY DEF PublishersOf
  <2>1. handle[i] = handle[id]
    BY <1>3 DEF PubInv, Publishers
  <2> QED  BY <2>1, HandlesDiffer
<1> HIDE DEF N
<1>6. \A id \in NodeId :
        publishing'[id] = (handle'[id] # NoNode /\ publisher[handle'[id]] \in open')
  <2> SUFFICES ASSUME NEW id \in NodeId
               PROVE  publishing'[id]
                        = (handle'[id] # NoNode /\ publisher[handle'[id]] \in open')
    OBVIOUS
  <2>1. CASE id \in I
    BY <1>1, <2>1
  <2>2. CASE id \notin I
    <3>1. publishing'[id] = publishing[id] /\ handle'[id] = handle[id]
      BY <1>1, <2>2 DEF PubInv, PublisherTypes
    <3>2. handle[id] # NoNode =>
            (publisher[handle[id]] \in open' <=> publisher[handle[id]] \in open)
      BY <1>1, <1>5, <2>2
    <3> QED  BY <3>1, <3>2, AgreesPointwise DEF PubInv
  <2> QED  BY <2>1, <2>2
<1>7. \A p \in open' : \E id \in NodeId : handle'[id] # NoNode /\ p = publisher[handle'[id]]
  <2> SUFFICES ASSUME NEW p \in open'
               PROVE  \E id \in NodeId : handle'[id] # NoNode /\ p = publisher[handle'[id]]
    OBVIOUS
  <2>1. PICK id \in NodeId : handle[id] # NoNode /\ p = publisher[handle[id]]
    BY <1>1, AgreesPointwise DEF PubInv
  <2>2. id \notin I
    BY <1>4, <2>1
  <2> QED  BY <1>1, <2>1, <2>2
<1>8. PublisherAgrees'
  BY <1>1, <1>6, <1>7 DEF PublisherAgrees
<1> QED  BY <1>2, <1>8 DEF PubInv

LEMMA PubCreate ==
  ASSUME WatchInv, PubInv, NEW c \in NodeId, NEW s \in Status, CreateNode(c, s)
  PROVE  PubInv'
<1> DEFINE n == created + 1
           N == {handle[c]} \ {NoNode}
<1>1. /\ n \in Node /\ created' = n /\ mounted
      /\ handle' = [handle EXCEPT ![c] = n]
      /\ publishing' = [publishing EXCEPT ![c] = FALSE]
      /\ open' = open \ PublishersOf(N)
      /\ UNCHANGED <<started, publisher>>
  BY DEF CreateNode
<1>2. n > created /\ created \in Nat
  BY NodeFacts DEF WatchInv, WatchTypes
<1>3. publisher[n] = NoPublisher /\ NoPublisher \notin open /\ n # NoNode
  BY <1>1, <1>2, NodeFacts, PublisherFacts DEF PubInv, Publishers, PublisherTypes
<1>4. \A id \in NodeId : handle[id] # NoNode => handle[id] \in Node
  BY DEF WatchInv, WatchTypes
<1>5. handle[c] # NoNode => publisher[handle[c]] \notin open'
  <2> SUFFICES ASSUME handle[c] # NoNode, publisher[handle[c]] \in open
               PROVE  publisher[handle[c]] \in PublishersOf(N)
    BY <1>1
  <2>1. handle[c] \in N /\ publisher[handle[c]] # NoPublisher
    BY <1>3
  <2> HIDE DEF N
  <2> QED  BY <2>1 DEF PublishersOf
<1>6. \A id \in NodeId \ {c} : handle[id] # NoNode =>
        publisher[handle[id]] \notin PublishersOf(N)
  <2> SUFFICES ASSUME NEW id \in NodeId \ {c}, handle[id] # NoNode,
                      handle[c] # NoNode, publisher[handle[c]] # NoPublisher,
                      publisher[handle[c]] = publisher[handle[id]]
               PROVE  FALSE
    BY DEF PublishersOf
  <2>1. handle[c] = handle[id]
    BY <1>4 DEF PubInv, Publishers
  <2> QED  BY <2>1, HandlesDiffer
<1> HIDE DEF N, n
<1>7. PublisherTypes'
  BY <1>1 DEF PubInv, PublisherTypes
<1>8. Publishers'
  <2>1. \A m \in Node : m > n => m > created
    BY <1>1, <1>2, NodeFacts
  <2> QED  BY <1>1, <2>1 DEF PubInv, Publishers
<1>9. \A id \in NodeId : handle'[id] = IF id = c THEN n ELSE handle[id]
  BY <1>1 DEF WatchInv, WatchTypes
<1>10. \A id \in NodeId :
         publishing'[id] = (handle'[id] # NoNode /\ publisher[handle'[id]] \in open')
  <2> SUFFICES ASSUME NEW id \in NodeId
               PROVE  publishing'[id]
                        = (handle'[id] # NoNode /\ publisher[handle'[id]] \in open')
    OBVIOUS
  <2>1. CASE id = c
    <3>1. publishing'[id] = FALSE
      BY <1>1, <2>1 DEF PubInv, PublisherTypes
    <3>2. publisher[handle'[id]] \notin open'
      BY <1>1, <1>3, <1>9, <2>1
    <3> QED  BY <3>1, <3>2
  <2>2. CASE id # c
    <3>1. publishing'[id] = publishing[id] /\ handle'[id] = handle[id]
      BY <1>1, <1>9, <2>2 DEF PubInv, PublisherTypes
    <3>2. handle[id] # NoNode =>
            (publisher[handle[id]] \in open' <=> publisher[handle[id]] \in open)
      BY <1>1, <1>6, <2>2
    <3> QED  BY <1>1, <3>1, <3>2, AgreesPointwise DEF PubInv
  <2> QED  BY <2>1, <2>2
<1>11. \A p \in open' : \E id \in NodeId : handle'[id] # NoNode /\ p = publisher[handle'[id]]
  <2> SUFFICES ASSUME NEW p \in open'
               PROVE  \E id \in NodeId : handle'[id] # NoNode /\ p = publisher[handle'[id]]
    OBVIOUS
  <2>1. PICK id \in NodeId : handle[id] # NoNode /\ p = publisher[handle[id]]
    BY <1>1, AgreesPointwise DEF PubInv
  <2>2. id # c
    BY <1>5, <2>1
  <2> QED  BY <1>9, <2>1, <2>2
<1>12. PublisherAgrees'
  <2>1. publisher' = publisher
    BY <1>1
  <2> QED  BY <1>10, <1>11, <2>1 DEF PublisherAgrees
<1> QED  BY <1>7, <1>8, <1>12 DEF PubInv

(* Starting replaces the node's publisher by a new one; stopping closes it.*)
LEMMA PubStart ==
  ASSUME WatchInv, ShownInv, PubInv, NEW c \in NodeId, StartPublisher(c)
  PROVE  PubInv'
<1> DEFINE n == handle[c]
           p == started + 1
<1>1. /\ n # NoNode /\ Items(n) < MaxItems /\ started' = p
      /\ publisher' = [publisher EXCEPT ![n] = p]
      /\ open' = (open \ {publisher[n]}) \cup {p}
      /\ publishing' = [publishing EXCEPT ![c] = TRUE]
      /\ mounted /\ UNCHANGED <<mounted, handle, created>>
  <2>1. n # NoNode /\ n \in Node
    BY DEF StartPublisher, Usable, WatchInv, WatchTypes
  <2> QED  BY <2>1 DEF StartPublisher, Replaced, Usable
<1>2. n \in Node /\ n <= created
  BY <1>1 DEF WatchInv, WatchTypes, Handles
<1>3. started \in Nat /\ readings[n] \in Nat /\ tapped \in Nat
  BY <1>2, PublisherFacts DEF PubInv, PublisherTypes, ShownInv, ShownTypes
<1>4. p \in Publisher /\ p \in 0 .. MaxItems
  BY <1>1, <1>3, PublisherFacts DEF Items, Publisher
<1>5. ASSUME NEW m \in Node  PROVE publisher[m] # p /\ publisher[m] <= p
  <2>1. publisher[m] \in Nat /\ publisher[m] <= started
    <3>1. publisher[m] \in Publisher \cup {NoPublisher}
      BY DEF PubInv, PublisherTypes
    <3>2. publisher[m] \in Nat
      BY <3>1, MaxAssumption DEF Publisher, NoPublisher
    <3> QED  BY <3>2 DEF PubInv, Publishers
  <2> QED  BY <1>3, <2>1
<1>6. p \notin open
  BY <1>5, AgreesPointwise DEF PubInv, WatchInv, WatchTypes
<1>7. p <= p /\ p # NoPublisher
  BY <1>3, <1>4, PublisherFacts
<1> HIDE DEF n, p
<1>8. \A m \in Node : publisher'[m] = IF m = n THEN p ELSE publisher[m]
  BY <1>1 DEF PubInv, PublisherTypes
<1>9. PublisherTypes'
  BY <1>1, <1>2, <1>4 DEF PubInv, PublisherTypes
<1>10. Publishers'
  <2>1. \A m \in Node : m > created => m # n
    BY <1>2, NodeFacts DEF WatchInv, WatchTypes
  <2>2. \A m \in Node : m > created' => publisher'[m] = NoPublisher
    BY <1>1, <1>8, <2>1 DEF PubInv, Publishers
  <2>3. \A l, m \in Node :
          publisher'[l] = publisher'[m] => l = m \/ publisher'[l] = NoPublisher
    BY <1>5, <1>8 DEF PubInv, Publishers
  <2>4. \A m \in Node : publisher'[m] <= started'
    BY <1>1, <1>5, <1>7, <1>8
  <2> QED  BY <2>2, <2>3, <2>4 DEF Publishers
<1>11. \A id \in NodeId : handle[id] # NoNode => handle[id] \in Node
  BY DEF WatchInv, WatchTypes
<1>12. \A id \in NodeId : id # c => handle[id] # n
  BY <1>1, HandlesDiffer DEF n
<1>13. \A id \in NodeId :
         publishing'[id] = (handle[id] # NoNode /\ publisher'[handle[id]] \in open')
  <2> SUFFICES ASSUME NEW id \in NodeId
               PROVE  publishing'[id]
                        = (handle[id] # NoNode /\ publisher'[handle[id]] \in open')
    OBVIOUS
  <2>1. CASE id = c
    BY <1>1, <1>2, <1>8, <2>1 DEF n, PubInv, PublisherTypes
  <2>2. CASE id # c
    <3>1. publishing'[id] = publishing[id]
      BY <1>1, <2>2 DEF PubInv, PublisherTypes
    <3>2. handle[id] # NoNode =>
            /\ publisher'[handle[id]] = publisher[handle[id]]
            /\ publisher[handle[id]] # p
      BY <1>5, <1>8, <1>11, <1>12, <2>2
    <3>3. handle[id] # NoNode /\ publisher[handle[id]] \in open =>
            publisher[handle[id]] # publisher[n]
      BY <1>2, <1>11, <1>12, <2>2, PublisherFacts DEF PubInv, Publishers, PublisherTypes
    <3>4. publishing[id] = (handle[id] # NoNode /\ publisher[handle[id]] \in open)
      BY <1>1, AgreesPointwise DEF PubInv
    <3>5. open' = (open \ {publisher[n]}) \cup {p}
      BY <1>1
    <3> QED  BY <3>1, <3>2, <3>3, <3>4, <3>5
  <2> QED  BY <2>1, <2>2
<1>14. \A q \in open' : \E id \in NodeId : handle[id] # NoNode /\ q = publisher'[handle[id]]
  <2> SUFFICES ASSUME NEW q \in open'
               PROVE  \E id \in NodeId : handle[id] # NoNode /\ q = publisher'[handle[id]]
    OBVIOUS
  <2>1. CASE q = p
    BY <1>1, <1>2, <1>8, <2>1 DEF n
  <2>2. CASE q # p
    <3>1. q \in open /\ q # publisher[n]
      BY <1>1, <2>2
    <3>2. PICK id \in NodeId : handle[id] # NoNode /\ q = publisher[handle[id]]
      BY <3>1, AgreesPointwise DEF PubInv
    <3> QED  BY <1>8, <1>11, <3>1, <3>2
  <2> QED  BY <2>1, <2>2
<1>15. PublisherAgrees'
  <2>1. handle' = handle
    BY <1>1
  <2> QED  BY <1>13, <1>14, <2>1 DEF PublisherAgrees
<1> QED  BY <1>9, <1>10, <1>15 DEF PubInv

LEMMA PubStop ==
  ASSUME WatchInv, PubInv, NEW c \in NodeId, StopPublisher(c)
  PROVE  PubInv'
<1> DEFINE n == handle[c]
<1>1. /\ n # NoNode /\ mounted /\ UNCHANGED <<mounted, handle, created, started>>
      /\ publisher' = [publisher EXCEPT ![n] = NoPublisher]
      /\ open' = open \ {publisher[n]}
      /\ publishing' = [publishing EXCEPT ![c] = FALSE]
  BY DEF StopPublisher, Usable, Taken
<1>2. n \in Node /\ \A id \in NodeId : handle[id] # NoNode => handle[id] \in Node
  BY <1>1 DEF WatchInv, WatchTypes
<1>3. \A id \in NodeId : id # c => handle[id] # n
  BY <1>1, HandlesDiffer
<1> HIDE DEF n
<1>4. \A m \in Node : publisher'[m] = IF m = n THEN NoPublisher ELSE publisher[m]
  BY <1>1 DEF PubInv, PublisherTypes
<1>5. PublisherTypes'
  BY <1>1 DEF PubInv, PublisherTypes
<1>6. Publishers'
  <2>1. \A m \in Node : publisher'[m] <= started
    BY <1>4, PublisherFacts DEF PubInv, PublisherTypes, Publishers
  <2> QED  BY <1>1, <1>4, <2>1 DEF PubInv, Publishers
<1>7. \A id \in NodeId :
        publishing'[id] = (handle[id] # NoNode /\ publisher'[handle[id]] \in open')
  <2> SUFFICES ASSUME NEW id \in NodeId
               PROVE  publishing'[id]
                        = (handle[id] # NoNode /\ publisher'[handle[id]] \in open')
    OBVIOUS
  <2>1. CASE id = c
    <3>1. publishing'[id] = FALSE
      BY <1>1, <2>1 DEF PubInv, PublisherTypes
    <3>2. publisher'[handle[id]] = NoPublisher
      BY <1>2, <1>4, <2>1 DEF n
    <3>3. NoPublisher \notin open'
      BY <1>1, PublisherFacts DEF PubInv, PublisherTypes
    <3> QED  BY <3>1, <3>2, <3>3
  <2>2. CASE id # c
    <3>1. publishing'[id] = publishing[id]
      BY <1>1, <2>2 DEF PubInv, PublisherTypes
    <3>2. handle[id] # NoNode => publisher'[handle[id]] = publisher[handle[id]]
      BY <1>2, <1>3, <1>4, <2>2
    <3>3. handle[id] # NoNode /\ publisher[handle[id]] \in open =>
            publisher[handle[id]] # publisher[n]
      BY <1>2, <1>3, <2>2, PublisherFacts DEF PubInv, Publishers, PublisherTypes
    <3>4. publishing[id] = (handle[id] # NoNode /\ publisher[handle[id]] \in open)
      BY <1>1, AgreesPointwise DEF PubInv
    <3>5. open' = open \ {publisher[n]}
      BY <1>1
    <3> QED  BY <3>1, <3>2, <3>3, <3>4, <3>5
  <2> QED  BY <2>1, <2>2
<1>8. \A q \in open' : \E id \in NodeId : handle[id] # NoNode /\ q = publisher'[handle[id]]
  <2> SUFFICES ASSUME NEW q \in open'
               PROVE  \E id \in NodeId : handle[id] # NoNode /\ q = publisher'[handle[id]]
    OBVIOUS
  <2>1. q \in open /\ q # publisher[n]
    BY <1>1
  <2>2. PICK id \in NodeId : handle[id] # NoNode /\ q = publisher[handle[id]]
    BY <2>1, AgreesPointwise DEF PubInv
  <2> QED  BY <1>2, <1>4, <2>1, <2>2
<1>9. PublisherAgrees'
  <2>1. handle' = handle
    BY <1>1
  <2> QED  BY <1>7, <1>8, <2>1 DEF PublisherAgrees
<1> QED  BY <1>5, <1>6, <1>9 DEF PubInv

(* dispose that throws closes the publishers of the nodes it has freed.    *)
LEMMA PubDisposeFails ==
  ASSUME WatchInv, PubInv, NEW c \in NodeId, DisposeFails(c)
  PROVE  PubInv'
<1> DEFINE N == {handle[i] : i \in Before(c)}
<1>1. /\ mounted' = FALSE
      /\ handle' = [i \in NodeId |-> IF i \in Before(c) THEN NoNode ELSE handle[i]]
      /\ open' = open \ PublishersOf(N)
      /\ UNCHANGED <<created, started, publisher, publishing>>
  BY DEF DisposeFails
<1>2. PublisherTypes' /\ Publishers'
  BY <1>1 DEF PubInv, PublisherTypes, Publishers
<1>3. \A p \in open' : \E id \in NodeId : handle'[id] # NoNode /\ p = publisher[handle'[id]]
  <2> SUFFICES ASSUME NEW p \in open'
               PROVE  \E id \in NodeId : handle'[id] # NoNode /\ p = publisher[handle'[id]]
    OBVIOUS
  <2>1. PICK id \in NodeId : handle[id] # NoNode /\ p = publisher[handle[id]]
    BY <1>1, AgreesPointwise DEF PubInv
  <2>2. id \notin Before(c)
    <3> SUFFICES ASSUME id \in Before(c)  PROVE FALSE
      OBVIOUS
    <3>1. handle[id] \in N /\ p # NoPublisher
      BY <1>1, PublisherFacts DEF PubInv, PublisherTypes
    <3> HIDE DEF N
    <3> QED  BY <1>1, <2>1, <3>1 DEF PublishersOf
  <2> QED  BY <1>1, <2>1, <2>2
<1> HIDE DEF N
<1>4. PublisherAgrees'
  BY <1>1, <1>3 DEF PublisherAgrees
<1> QED  BY <1>2, <1>4 DEF PubInv

LEMMA PubStep == WatchInv /\ ShownInv /\ PubInv /\ [Next]_vars => PubInv'
<1> SUFFICES ASSUME WatchInv, ShownInv, PubInv, [Next]_vars  PROVE PubInv'
  OBVIOUS
<1>1. ASSUME NEW id \in NodeId, NEW s \in Status, CreateNode(id, s)  PROVE PubInv'
  BY <1>1, PubCreate
<1>2. ASSUME NEW id \in NodeId, DestroyNode(id)  PROVE PubInv'
  BY <1>2, PubFreeing DEF DestroyNode, Usable
<1>3. CASE Dispose
  BY <1>3, PubFreeing DEF Dispose
<1>4. ASSUME NEW id \in NodeId, StartPublisher(id)  PROVE PubInv'
  BY <1>4, PubStart
<1>5. ASSUME NEW id \in NodeId, StopPublisher(id)  PROVE PubInv'
  BY <1>5, PubStop
<1>6. CASE UNCHANGED <<mounted, handle, created, started, publisher, open, publishing>>
  BY <1>6 DEF PubInv, PublisherTypes, Publishers, PublisherAgrees
<1> USE DEF publishers
<1>7. CASE PollSamples \/ PollFrames \/ Record
  BY <1>6, <1>7 DEF PollSamples, PollFrames, Record
<1>8. ASSUME NEW n \in Node, \/ WaitResolves(n) \/ LoopTurns(n) \/ ServicesEnd(n)
                             \/ PushSample(n) \/ \E s \in Status : StatusChanges(n, s)
      PROVE  PubInv'
  BY <1>6, <1>8 DEF WaitResolves, LoopTurns, ServicesEnd, PushSample, StatusChanges
<1>9. ASSUME NEW p \in Publisher, PublisherEnds(p)  PROVE PubInv'
  BY <1>6, <1>9 DEF PublisherEnds
<1>10. ASSUME NEW id \in NodeId, Refresh(id)  PROVE PubInv'
  BY <1>6, <1>10 DEF Refresh
<1>11. ASSUME NEW id \in NodeId, FreeRefused(id)  PROVE PubInv'
  BY <1>6, <1>11 DEF FreeRefused
<1>12. ASSUME NEW id \in NodeId, DisposeFails(id)  PROVE PubInv'
  BY <1>12, PubDisposeFails
<1>13. CASE UNCHANGED vars
  BY <1>6, <1>13 DEF vars
<1> QED
  BY <1>1, <1>2, <1>3, <1>4, <1>5, <1>7, <1>8, <1>9, <1>10, <1>11, <1>12, <1>13
     DEF Next, TaskTurn

(* The canvas shows a node as publishing exactly while it has an open      *)
(* publisher, and no other publisher is open (start_publisher,             *)
(* stop_publisher, the Drop of WasmNode).                                  *)
THEOREM PublishersAgree == Spec => []PublisherAgrees
<1>1. PubInv => PublisherAgrees
  BY DEF PubInv
<1> QED
  BY <1>1, PubInit, PubStep, ShownInit, ShownStep, WatchHolds, PTL DEF Spec
=============================================================================
