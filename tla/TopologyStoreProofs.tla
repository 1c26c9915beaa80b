------------------------ MODULE TopologyStoreProofs ------------------------
(***************************************************************************)
(* For any number of nodes, buses and edges no link outlives its ends, the *)
(* live links are legal and form no ring, wouldLoop comes to an end, and   *)
(* no device outlives its bus's router, whatever is selected and replaced. *)
(*                                                                         *)
(* The invariant adds to those properties what they rest on: a live link's *)
(* child has a busy uplink, ids are not reused, a live link is the newest  *)
(* edge into its child (so that wouldLoop, which follows the newest edge,  *)
(* follows the live one), and ranks that grow along every live link.       *)
(***************************************************************************)
EXTENDS TopologyStore, FiniteSetTheorems, TLAPS

(* The canvas shows the data of a node's own type for every node on it.    *)
DataShown == \A n \in NodeId : n \in canvasNodes => data[n] \in Data

(* No edge joins two buses.                                                *)
NotBusToBus == \A e \in canvasEdges : e.source \in BusId => e.target \in NodeId

LegalLink(e) ==
  \/ /\ HasHandle(e.source) /\ handle[e.source].profile # "edge"
     /\ HasHandle(e.target) /\ handle[e.target].profile # "router"
  \/ /\ HasHandle(e.source) /\ handle[e.source].profile = "router"
     /\ e.target \in buses
  \/ /\ e.source \in buses
     /\ HasHandle(e.target)
     /\ handle[e.target] = [profile |-> "edge", kind |-> "packet"]

LegalLinks == \A e \in live : LegalLink(e)

OneFromAbove == \A e, f \in live : e.target = f.target => e = f

ChildBusy == \A e \in live : e.target \in NodeId => e.target \in uplinkBusy

FreshIds == \A e, f \in canvasEdges : e.id = f.id => e = f

LiveIsNewest ==
  \A e \in live, f \in canvasEdges : f.target = e.target => f.id <= e.id

Ranks(rank) ==
  /\ rank \in [Id -> Nat]
  /\ \A e \in live : rank[e.source] < rank[e.target]

Ranked == \E rank : Ranks(rank)

StoreInv ==
  /\ TypeOK /\ DataShown /\ NotBusToBus
  /\ NothingLeaks
  /\ LegalLinks /\ OneFromAbove /\ ChildBusy
  /\ BusSegmentWhole
  /\ FreshIds /\ LiveIsNewest
  /\ Ranked

-----------------------------------------------------------------------------
(* A set of numbers that is not empty has a least one.                     *)
LEMMA LeastOf ==
  ASSUME NEW T \in SUBSET Nat, T # {}
  PROVE  \E m \in T : \A k \in T : m <= k
<1>1. PICK m \in T : \A k \in T : ~ (<<k, m>> \in OpToRel(<, Nat))
  BY WFMin, NatLessThanWellFounded, Zenon
<1>2. \A k \in T : ~ (k < m)
  BY <1>1, Zenon DEF OpToRel
<1>3. \A k \in T : m <= k
  BY <1>2
<1> QED  BY <1>3

(* The id of a new edge is above every id in use.                          *)
LEMMA NewIdIsGreatest ==
  ASSUME TypeOK
  PROVE  /\ NextEdgeId \in 1 .. MaxEdges + 1
         /\ \A e \in canvasEdges \cup stored : e.id < NextEdgeId
<1> DEFINE S == canvasEdges \cup stored
           Above0 == {k \in Nat : \A e \in S : e.id < k}
           Good(k) == (\A e \in S : e.id < k) /\ (k = 1 \/ \E e \in S : e.id = k - 1)
<1>1. \A e \in S : e.id \in 1 .. MaxEdges
  BY DEF TypeOK, Edge
<1>2. MaxEdges + 1 \in Above0
  BY <1>1, MaxAssumption
<1>3. PICK m \in Above0 : \A k \in Above0 : m <= k
  <2>1. Above0 \in SUBSET Nat /\ Above0 # {}
    BY <1>2
  <2> QED  BY <2>1, LeastOf
<1>4. \E k \in 1 .. MaxEdges + 1 : Good(k)
  <2>1. CASE S = {}
    <3>1. 1 \in 1 .. MaxEdges + 1 /\ Good(1)
      BY <2>1, MaxAssumption
    <3> QED  BY <3>1
  <2>2. CASE S # {}
    <3>1. m \in 1 .. MaxEdges + 1 /\ m - 1 \in Nat /\ \A e \in S : e.id < m
      BY <1>1, <1>2, <1>3, <2>2, MaxAssumption
    <3>2. m - 1 \notin Above0
      BY <1>3, <3>1
    <3>3. PICK e \in S : ~(e.id < m - 1)
      BY <3>1, <3>2
    <3>4. e.id = m - 1
      BY <1>1, <3>1, <3>3
    <3> QED  BY <3>1, <3>4
  <2> QED  BY <2>1, <2>2
<1>5. NextEdgeId = CHOOSE k \in 1 .. MaxEdges + 1 : Good(k)
  BY Zenon DEF NextEdgeId
<1> HIDE DEF Good
<1>6. NextEdgeId \in 1 .. MaxEdges + 1 /\ Good(NextEdgeId)
  BY <1>4, <1>5, Zenon
<1> QED  BY <1>6 DEF Good

-----------------------------------------------------------------------------
(* What an edge on the canvas joins.                                       *)
LEMMA EdgeFacts ==
  ASSUME StoreInv
  PROVE  /\ live \subseteq stored /\ stored \subseteq canvasEdges
         /\ \A e \in canvasEdges :
              /\ e \in Edge /\ e.source \in canvasNodes /\ e.target \in canvasNodes
              /\ e.source \in Id /\ e.target \in Id
  BY DEF StoreInv, NothingLeaks, TypeOK, Edge

(* Segments.  Whatever is torn down contains what was asked for ...        *)
LEMMA TornHolds ==
  ASSUME StoreInv, NEW E \in SUBSET canvasEdges
  PROVE  E \subseteq Torn(E)
<1> SUFFICES ASSUME NEW e \in E  PROVE e \in Segment(e)
  BY DEF Torn
<1>1. CASE e \in stored /\ e.target \in buses
  <2>1. e.target \in BusId /\ e.target \notin NodeId
    BY <1>1, IdAssumption DEF StoreInv, TypeOK
  <2>2. e.source \notin BusId
    BY <2>1 DEF StoreInv, NotBusToBus
  <2>3. BusOf(e) = e.target
    BY <2>1, <2>2 DEF BusOf
  <2> QED  BY <1>1, <2>3 DEF Segment
<1>2. CASE ~(e \in stored /\ e.target \in buses)
  BY <1>2 DEF Segment
<1> QED  BY <1>1, <1>2

(* ... and takes no router away from a device that stays.                  *)
LEMMA TornLeavesWhole ==
  ASSUME StoreInv, NEW E \in SUBSET canvasEdges,
         NEW e \in stored \ Torn(E), e.source \in BusId
  PROVE  \E r \in stored \ Torn(E) : r.target = e.source
<1>1. PICK r \in stored : r.target = e.source
  BY DEF StoreInv, BusSegmentWhole
<1>2. r \in canvasEdges /\ r.target \in buses /\ r.target \in BusId
  <2>1. Present(r.target) /\ r.target \notin NodeId
    BY <1>1, IdAssumption DEF StoreInv, NothingLeaks
  <2> QED  BY <1>1, <2>1, EdgeFacts DEF Present, HasHandle
<1>3. r.source \notin BusId
  BY <1>2, IdAssumption DEF StoreInv, NotBusToBus
<1>4. BusOf(r) = e.source /\ BusOf(e) = e.source
  BY <1>1, <1>2, <1>3 DEF BusOf
<1>5. ASSUME r \in Torn(E)  PROVE FALSE
  <2>1. PICK x \in E : r \in Segment(x)
    BY <1>5 DEF Torn
  <2>2. CASE x \in stored /\ x.target \in buses
    <3>1. Segment(x) = {f \in stored : BusOf(f) = x.target}
      BY <2>2 DEF Segment
    <3>2. BusOf(r) = x.target
      BY <2>1, <3>1
    <3>3. e \in Segment(x)
      BY <1>4, <3>1, <3>2
    <3> QED  BY <3>3 DEF Torn
  <2>3. CASE ~(x \in stored /\ x.target \in buses)
    <3>1. r = x
      BY <2>1, <2>3 DEF Segment
    <3> QED  BY <1>2, <2>3, <3>1
  <2> QED  BY <2>2, <2>3
<1> QED  BY <1>1, <1>5

(* deleteSelected tears down every edge at a deleted node, so nothing is   *)
(* left for destroyNode and destroyBus to tear down.                       *)
LEMMA DroppedHolds ==
  ASSUME StoreInv, NEW E \in SUBSET canvasEdges, NEW N
  PROVE  /\ At(canvasEdges, N) \subseteq Dropped(E, N)
         /\ \A D \in SUBSET N : Torn(At(stored \ Dropped(E, N), D)) = {}
<1>1. E \cup At(canvasEdges, N) \in SUBSET canvasEdges
  BY DEF At
<1>2. At(canvasEdges, N) \subseteq Dropped(E, N)
  BY <1>1, TornHolds DEF Dropped
<1>3. \A D \in SUBSET N : At(stored \ Dropped(E, N), D) = {}
  BY <1>2, EdgeFacts DEF At
<1> QED  BY <1>2, <1>3 DEF Torn

(* A device that stays on a bus keeps its router, whatever is torn down.   *)
LEMMA WholeAfterTorn ==
  ASSUME StoreInv, NEW E \in SUBSET canvasEdges, stored' = stored \ Torn(E)
  PROVE  BusSegmentWhole'
<1> SUFFICES ASSUME NEW e \in stored', e.source \in BusId
             PROVE  \E r \in stored' : r.target = e.source
  BY DEF BusSegmentWhole
<1> QED  BY TornLeavesWhole

-----------------------------------------------------------------------------
LEMMA StoreInit == Init => StoreInv
<1> SUFFICES ASSUME Init  PROVE StoreInv
  OBVIOUS
<1>1. TypeOK
  BY DEF Init, TypeOK
<1>2. DataShown /\ NotBusToBus /\ LegalLinks /\ OneFromAbove /\ ChildBusy
  BY DEF Init, DataShown, NotBusToBus, LegalLinks, OneFromAbove, ChildBusy
<1>3. NothingLeaks
  BY DEF Init, NothingLeaks
<1>4. BusSegmentWhole /\ FreshIds /\ LiveIsNewest
  BY DEF Init, BusSegmentWhole, FreshIds, LiveIsNewest
<1>5. Ranked
  <2>1. Ranks([i \in Id |-> 0])
    BY DEF Init, Ranks
  <2> QED  BY <2>1 DEF Ranked
<1> QED  BY <1>1, <1>2, <1>3, <1>4, <1>5 DEF StoreInv

(* Ranks last as long as no link is added.                                 *)
LEMMA RankedStays ==
  ASSUME Ranked, live' \subseteq live
  PROVE  Ranked'
<1>1. PICK rank : Ranks(rank)
  BY DEF Ranked
<1>2. Ranks(rank)'
  BY <1>1 DEF Ranks
<1> QED  BY <1>2 DEF Ranked

(* Ids and the order of the edges last as long as none is added.           *)
LEMMA EdgesStay ==
  ASSUME StoreInv, live' \subseteq live, canvasEdges' \subseteq canvasEdges
  PROVE  /\ NotBusToBus' /\ OneFromAbove' /\ FreshIds' /\ LiveIsNewest' /\ Ranked'
<1>1. Ranked'
  BY RankedStays DEF StoreInv
<1> QED
  BY <1>1 DEF StoreInv, NotBusToBus, OneFromAbove, FreshIds, LiveIsNewest

LEMMA KindFacts ==
  /\ Addable \subseteq Data /\ NoData \notin Data
  /\ Dead \notin Data /\ Dead # NoData
  /\ \A p \in Profile, k \in Kind : [profile |-> p, kind |-> k] \in Data
  BY DEF Addable, NoData, Dead, Data, Profile, Kind

(* The store leaks nothing as long as its handles and what the canvas      *)
(* shows change alike.                                                     *)
LEMMA LeaksNothingAfter ==
  ASSUME live' \subseteq stored', stored' \subseteq canvasEdges',
         \A e \in canvasEdges' : {e.source, e.target} \subseteq canvasNodes',
         \A e \in stored' : Present(e.source)' /\ Present(e.target)',
         buses' \subseteq canvasNodes',
         \A m \in NodeId : handle'[m] # NoData => m \in canvasNodes',
         NoneDead' => canvasNodes' \cap BusId \subseteq buses'
  PROVE  NothingLeaks'
  BY DEF NothingLeaks

(* A link stays legal as long as both its ends stay what they are.         *)
LEMMA LegalStays ==
  ASSUME NEW e, LegalLink(e),
         \A n \in NodeId \cap {e.source, e.target} : handle'[n] = handle[n],
         buses \cap {e.source, e.target} \subseteq buses'
  PROVE  LegalLink(e)'
  BY DEF LegalLink, HasHandle

(* addNode, addBus: an id that is not on the canvas has no edges.          *)
LEMMA AddNodeInv ==
  ASSUME StoreInv, NEW n \in NodeId, NEW d \in Addable, AddNode(n, d)
  PROVE  StoreInv'
<1>1. /\ n \notin canvasNodes /\ handle' = [handle EXCEPT ![n] = d]
      /\ canvasNodes' = canvasNodes \cup {n} /\ data' = [data EXCEPT ![n] = d]
      /\ mounted
      /\ UNCHANGED <<mounted, canvasEdges, buses, stored, live, uplinkBusy, pinging>>
  BY DEF AddNode, NewNode
<1>2. d \in Data /\ n \in Id /\ n \notin BusId
  BY KindFacts, IdAssumption DEF Id
<1>3. TypeOK'
  <2>1. /\ canvasNodes' \in SUBSET Id
        /\ data' \in [NodeId -> Data \cup {NoData}]
        /\ handle' \in [NodeId -> Data \cup {NoData, Dead}]
    BY <1>1, <1>2 DEF StoreInv, TypeOK
  <2> QED  BY <1>1, <2>1 DEF StoreInv, TypeOK
<1>4. DataShown'
  BY <1>1, <1>2 DEF StoreInv, TypeOK, DataShown
<1>5. NothingLeaks'
  <2>1. live' \subseteq stored' /\ stored' \subseteq canvasEdges'
    BY <1>1 DEF StoreInv, NothingLeaks
  <2>2. \A e \in canvasEdges' : {e.source, e.target} \subseteq canvasNodes'
    BY <1>1 DEF StoreInv, NothingLeaks
  <2>3. \A e \in stored' : Present(e.source)' /\ Present(e.target)'
    <3>1. \A e \in stored : Present(e.source) /\ Present(e.target)
      BY DEF StoreInv, NothingLeaks
    <3>2. \A i : HasHandle(i) => HasHandle(i)'
      BY <1>1, <1>2, KindFacts DEF StoreInv, TypeOK, HasHandle
    <3> QED  BY <1>1, <3>1, <3>2 DEF Present
  <2>4. \A m \in NodeId : handle'[m] # NoData => m \in canvasNodes'
    BY <1>1 DEF StoreInv, NothingLeaks, TypeOK
  <2>5. buses' \subseteq canvasNodes'
    BY <1>1 DEF StoreInv, NothingLeaks
  <2>6. NoneDead' => canvasNodes' \cap BusId \subseteq buses'
    <3>1. handle[n] = NoData
      BY <1>1 DEF StoreInv, NothingLeaks
    <3>2. NoneDead' => NoneDead
      BY <1>1, <3>1, KindFacts DEF StoreInv, TypeOK, NoneDead
    <3> QED  BY <1>1, <1>2, <3>2 DEF StoreInv, NothingLeaks
  <2> QED  BY <2>1, <2>2, <2>3, <2>4, <2>5, <2>6, LeaksNothingAfter
<1>6. LegalLinks'
  <2> SUFFICES ASSUME NEW e \in live  PROVE LegalLink(e)'
    BY <1>1 DEF LegalLinks
  <2>1. e.source # n /\ e.target # n
    BY <1>1, EdgeFacts
  <2>2. \A m \in NodeId \cap {e.source, e.target} : handle'[m] = handle[m]
    BY <1>1, <2>1 DEF StoreInv, TypeOK
  <2> QED  BY <1>1, <2>2, LegalStays DEF StoreInv, LegalLinks
<1>7. ChildBusy' /\ BusSegmentWhole'
  BY <1>1 DEF StoreInv, ChildBusy, BusSegmentWhole
<1>8. NotBusToBus' /\ OneFromAbove' /\ FreshIds' /\ LiveIsNewest' /\ Ranked'
  BY <1>1, EdgesStay
<1> QED  BY <1>3, <1>4, <1>5, <1>6, <1>7, <1>8 DEF StoreInv

LEMMA AddBusInv ==
  ASSUME StoreInv, NEW b \in BusId, AddBus(b)
  PROVE  StoreInv'
<1>1. /\ buses' = buses \cup {b} /\ canvasNodes' = canvasNodes \cup {b}
      /\ mounted
      /\ UNCHANGED <<mounted, data, canvasEdges, handle, stored, live, uplinkBusy, pinging>>
  BY DEF AddBus
<1>2. b \in Id /\ b \notin NodeId
  BY IdAssumption DEF Id
<1>3. TypeOK'
  BY <1>1, <1>2 DEF StoreInv, TypeOK
<1>4. DataShown'
  BY <1>1, <1>2 DEF StoreInv, DataShown
<1>5. NothingLeaks'
  <2>1. live' \subseteq stored' /\ stored' \subseteq canvasEdges'
    BY <1>1 DEF StoreInv, NothingLeaks
  <2>2. \A e \in canvasEdges' : {e.source, e.target} \subseteq canvasNodes'
    BY <1>1 DEF StoreInv, NothingLeaks
  <2>3. \A e \in stored' : Present(e.source)' /\ Present(e.target)'
    BY <1>1 DEF StoreInv, NothingLeaks, Present, HasHandle
  <2>4. \A m \in NodeId : handle'[m] # NoData => m \in canvasNodes'
    BY <1>1 DEF StoreInv, NothingLeaks
  <2>5. buses' \subseteq canvasNodes'
    BY <1>1 DEF StoreInv, NothingLeaks
  <2>6. NoneDead' => canvasNodes' \cap BusId \subseteq buses'
    BY <1>1 DEF StoreInv, NothingLeaks, NoneDead
  <2> QED  BY <2>1, <2>2, <2>3, <2>4, <2>5, <2>6, LeaksNothingAfter
<1>6. LegalLinks'
  <2> SUFFICES ASSUME NEW e \in live  PROVE LegalLink(e)'
    BY <1>1 DEF LegalLinks
  <2> QED  BY <1>1, LegalStays DEF StoreInv, LegalLinks
<1>7. ChildBusy' /\ BusSegmentWhole'
  BY <1>1 DEF StoreInv, ChildBusy, BusSegmentWhole
<1>8. NotBusToBus' /\ OneFromAbove' /\ FreshIds' /\ LiveIsNewest' /\ Ranked'
  BY <1>1, EdgesStay
<1> QED  BY <1>3, <1>4, <1>5, <1>6, <1>7, <1>8 DEF StoreInv

-----------------------------------------------------------------------------
(* Freeing N gets rid of a part of N, and of all of it if none refuses.    *)
LEMMA OutcomeFacts ==
  ASSUME NEW N, NEW o \in Outcomes(N)
  PROVE  /\ o.freed \subseteq N /\ o.refused \subseteq N
         /\ o.refused = {} => o.freed = N
         /\ \A i \in o.freed : ~Refuses(i)
         /\ \A i \in o.refused : Refuses(i)
         /\ o.refused \cap o.freed = {}
<1> DEFINE refusing == {i \in N : Refuses(i)}
<1>1. CASE refusing = {}
  <2>1. o = [freed |-> N, refused |-> {}]
    BY <1>1 DEF Outcomes
  <2> QED  BY <1>1, <2>1
<1>2. CASE refusing # {}
  <2>1. o \in [freed : SUBSET (N \ refusing), refused : {{i} : i \in refusing}]
    BY <1>2 DEF Outcomes
  <2>2. o.freed \subseteq N \ refusing /\ \E i \in refusing : o.refused = {i}
    BY <2>1
  <2> HIDE DEF refusing
  <2>3. o.refused # {} /\ o.refused \subseteq refusing
    BY <2>2
  <2> QED  BY <2>2, <2>3 DEF refusing
<1> QED  BY <1>1, <1>2

(* What freeing leaves: a dead handle goes away for none but itself.       *)
LEMMA FreeNodesFacts ==
  ASSUME StoreInv, NEW D, NEW R, FreeNodes(D, R)
  PROVE  /\ handle' \in [NodeId -> Data \cup {NoData, Dead}]
         /\ uplinkBusy' \in SUBSET NodeId /\ pinging' \in SUBSET NodeId
         /\ \A m \in NodeId : m \notin D \cup R => handle'[m] = handle[m]
         /\ \A m \in NodeId : m \in D => handle'[m] = NoData
         /\ \A m \in NodeId : m \in R \ D => handle'[m] = Dead
  BY DEF FreeNodes, StoreInv, TypeOK

(* deleteSelected: what stays has none of its ends deleted or refused.     *)
LEMMA DeleteSelectedInv ==
  ASSUME StoreInv, NEW E \in SUBSET canvasEdges, NEW N \in SUBSET canvasNodes,
         DeleteSelected(E, N)
  PROVE  StoreInv'
<1> DEFINE gone == Dropped(E, N)
           atNodes(o) == Torn(At(stored \ gone, o.freed \cup o.refused))
           removed(o) == IF o.refused = {} THEN N ELSE {}
<1>1. PICK o \in Outcomes(N) :
        /\ mounted /\ mounted' = mounted
        /\ stored' = stored \ (gone \cup atNodes(o))
        /\ live' = live \ (gone \cup atNodes(o))
        /\ FreeNodes(o.freed, o.refused)
        /\ buses' = buses \ o.freed
        /\ canvasEdges' = canvasEdges \ gone /\ canvasNodes' = canvasNodes \ removed(o)
        /\ data' = [n \in NodeId |-> IF n \in removed(o) THEN NoData ELSE data[n]]
  BY DEF DeleteSelected
<1>2. /\ o.freed \subseteq N /\ o.refused \subseteq N
      /\ o.refused = {} => o.freed = N
      /\ \A i \in o.freed : ~Refuses(i)
      /\ \A i \in o.refused : Refuses(i)
      /\ o.refused \cap o.freed = {}
  BY OutcomeFacts
<1>3. atNodes(o) = {} /\ At(canvasEdges, N) \subseteq gone
  <2>1. o.freed \cup o.refused \in SUBSET N
    BY <1>2
  <2> QED  BY <2>1, DroppedHolds
<1>4. stored' = stored \ gone /\ live' = live \ gone
  BY <1>1, <1>3
<1>5. /\ handle' \in [NodeId -> Data \cup {NoData, Dead}]
      /\ uplinkBusy' \in SUBSET NodeId /\ pinging' \in SUBSET NodeId
      /\ \A m \in NodeId : m \notin o.freed \cup o.refused => handle'[m] = handle[m]
      /\ \A m \in NodeId : m \in o.freed => handle'[m] = NoData
      /\ \A m \in NodeId : m \in o.refused \ o.freed => handle'[m] = Dead
  BY <1>1, FreeNodesFacts
<1>6. removed(o) \subseteq N /\ (removed(o) = {} \/ (o.refused = {} /\ removed(o) = N))
  OBVIOUS
<1>7. \E F \in SUBSET canvasEdges : gone = Torn(F)
  <2>1. E \cup At(canvasEdges, N) \in SUBSET canvasEdges
    BY DEF At
  <2> QED  BY <2>1 DEF Dropped
<1>8. uplinkBusy' = uplinkBusy \ o.freed
  BY <1>1 DEF FreeNodes
<1> HIDE DEF gone, removed
<1>9. \A e \in canvasEdges' : e.source \notin N /\ e.target \notin N
  BY <1>1, <1>3 DEF At
<1>10. \A i : i \notin N => (Present(i) => Present(i)') /\ (HasHandle(i) => HasHandle(i)')
  BY <1>1, <1>2, <1>5 DEF Present, HasHandle
<1>11. \A e \in live' : e \in live /\ e \in canvasEdges'
  BY <1>1, <1>4, EdgeFacts
<1>12. \A e \in stored' : e \in stored /\ e \in canvasEdges'
  BY <1>1, <1>4, EdgeFacts
<1>13. TypeOK'
  <2>1. data' \in [NodeId -> Data \cup {NoData}]
    BY <1>1 DEF StoreInv, TypeOK
  <2> QED  BY <1>1, <1>4, <1>5, <2>1 DEF StoreInv, TypeOK
<1>14. DataShown'
  BY <1>1 DEF StoreInv, DataShown
<1>15. NothingLeaks'
  <2>1. live' \subseteq stored' /\ stored' \subseteq canvasEdges'
    BY <1>1, <1>4, EdgeFacts
  <2>2. \A e \in canvasEdges' : {e.source, e.target} \subseteq canvasNodes'
    BY <1>1, <1>6, <1>9, EdgeFacts
  <2>3. \A e \in stored' : Present(e.source)' /\ Present(e.target)'
    BY <1>9, <1>10, <1>12 DEF StoreInv, NothingLeaks
  <2>4. \A m \in NodeId : handle'[m] # NoData => m \in canvasNodes'
    <3> SUFFICES ASSUME NEW m \in NodeId, handle'[m] # NoData  PROVE m \in canvasNodes'
      OBVIOUS
    <3>1. m \notin o.freed
      BY <1>5
    <3>2. m \in canvasNodes
      <4>1. CASE m \in o.refused
        BY <1>2, <4>1
      <4>2. CASE m \notin o.refused
        BY <1>1, <1>5, <3>1, <4>2 DEF StoreInv, NothingLeaks
      <4> QED  BY <4>1, <4>2
    <3> QED  BY <1>1, <1>2, <1>6, <3>1, <3>2
  <2>5. buses' \subseteq canvasNodes'
    BY <1>1, <1>2, <1>6 DEF StoreInv, NothingLeaks
  <2>6. ASSUME NoneDead'  PROVE canvasNodes' \cap BusId \subseteq buses'
    <3>1. o.refused = {}
      <4>1. \A i \in o.refused : i \in NodeId
        BY <1>2 DEF Refuses
      <4> QED  BY <1>2, <1>5, <2>6, <4>1 DEF NoneDead
    <3>2. NoneDead
      <4> SUFFICES ASSUME NEW m \in NodeId, handle[m] = Dead  PROVE FALSE
        BY DEF NoneDead
      <4>1. m \notin o.freed
        BY <1>2 DEF Refuses
      <4> QED  BY <1>5, <2>6, <3>1, <4>1 DEF NoneDead
    <3>3. canvasNodes \cap BusId \subseteq buses
      BY <3>2 DEF StoreInv, NothingLeaks
    <3>4. removed(o) = N /\ o.freed = N
      BY <1>2, <3>1 DEF removed
    <3> QED  BY <1>1, <3>3, <3>4
  <2> QED  BY <2>1, <2>2, <2>3, <2>4, <2>5, <2>6, LeaksNothingAfter
<1>16. LegalLinks'
  <2> SUFFICES ASSUME NEW e \in live'  PROVE LegalLink(e)'
    BY DEF LegalLinks
  <2>1. e \in live /\ e.source \notin N /\ e.target \notin N
    BY <1>9, <1>11
  <2> QED  BY <1>1, <1>2, <1>5, <2>1, LegalStays DEF StoreInv, LegalLinks
<1>17. ChildBusy'
  BY <1>2, <1>8, <1>9, <1>11 DEF StoreInv, ChildBusy
<1>18. BusSegmentWhole'
  BY <1>4, <1>7, WholeAfterTorn
<1>19. NotBusToBus' /\ OneFromAbove' /\ FreshIds' /\ LiveIsNewest' /\ Ranked'
  BY <1>1, <1>4, EdgesStay
<1> QED  BY <1>13, <1>14, <1>15, <1>16, <1>17, <1>18, <1>19 DEF StoreInv

-----------------------------------------------------------------------------
(* destroyNode of a node without a live link: only dead links go away, so  *)
(* every live link keeps both its ends.                                    *)
LEMMA ReplacedInv ==
  ASSUME StoreInv, NEW n \in NodeId, Replaceable(n), DestroyLinks(n),
         handle' \in [NodeId -> Data \cup {NoData, Dead}],
         \A m \in NodeId : m # n => handle'[m] = handle[m],
         uplinkBusy \subseteq uplinkBusy' \cup {n},
         UNCHANGED <<mounted, canvasNodes, canvasEdges, buses>>
  PROVE  /\ NothingLeaks' /\ LegalLinks' /\ ChildBusy' /\ BusSegmentWhole'
         /\ NotBusToBus' /\ OneFromAbove' /\ FreshIds' /\ LiveIsNewest' /\ Ranked'
         /\ stored' \subseteq stored /\ live' \subseteq live
<1> DEFINE F == At(stored, {n})
<1>1. /\ stored' = stored \ Torn(F) /\ live' = live \ Torn(F)
      /\ mounted /\ n \in canvasNodes /\ Unlinked(n) /\ HasHandle(n)
  BY DEF DestroyLinks, Replaceable
<1>2. F \in SUBSET canvasEdges
  BY EdgeFacts DEF At
<1>3. \A e \in stored' : e \in stored /\ e.source # n /\ e.target # n
  <2>1. F \subseteq Torn(F)
    BY <1>2, TornHolds
  <2> QED  BY <1>1, <2>1 DEF At
<1> HIDE DEF F
<1>4. \A e \in live : e.source # n /\ e.target # n
  BY <1>1 DEF Unlinked, At
<1>5. NothingLeaks'
  <2>1. live' \subseteq stored' /\ stored' \subseteq canvasEdges'
    BY <1>1, EdgeFacts
  <2>2. \A e \in canvasEdges' : {e.source, e.target} \subseteq canvasNodes'
    BY EdgeFacts
  <2>3. \A e \in stored' : Present(e.source)' /\ Present(e.target)'
    <3>1. \A i : i # n /\ Present(i) => Present(i)'
      BY DEF Present, HasHandle
    <3> QED  BY <1>3, <3>1 DEF StoreInv, NothingLeaks
  <2>4. \A m \in NodeId : handle'[m] # NoData => m \in canvasNodes'
    BY <1>1 DEF StoreInv, NothingLeaks
  <2>5. buses' \subseteq canvasNodes'
    BY <1>1 DEF StoreInv, NothingLeaks
  <2>6. NoneDead' => canvasNodes' \cap BusId \subseteq buses'
    <3>1. NoneDead' => NoneDead
      BY <1>1 DEF NoneDead, HasHandle
    <3> QED  BY <3>1 DEF StoreInv, NothingLeaks
  <2> QED  BY <2>1, <2>2, <2>3, <2>4, <2>5, <2>6, LeaksNothingAfter
<1>6. LegalLinks'
  <2> SUFFICES ASSUME NEW e \in live'  PROVE LegalLink(e)'
    BY DEF LegalLinks
  <2>1. e \in live /\ e.source # n /\ e.target # n
    BY <1>1, <1>4
  <2> QED  BY <2>1, LegalStays DEF StoreInv, LegalLinks
<1>7. ChildBusy'
  BY <1>1, <1>4 DEF StoreInv, ChildBusy
<1>8. BusSegmentWhole'
  BY <1>1, <1>2, WholeAfterTorn
<1>9. NotBusToBus' /\ OneFromAbove' /\ FreshIds' /\ LiveIsNewest' /\ Ranked'
  BY <1>1, EdgesStay
<1> QED  BY <1>1, <1>5, <1>6, <1>7, <1>8, <1>9

(* Whatever else is unchanged.                                             *)
LEMMA StoreUnchanged ==
  ASSUME StoreInv,
         UNCHANGED <<mounted, canvasNodes, canvasEdges, handle, buses, stored, live,
                     uplinkBusy>>
  PROVE  /\ NothingLeaks' /\ LegalLinks' /\ ChildBusy' /\ BusSegmentWhole'
         /\ NotBusToBus' /\ OneFromAbove' /\ FreshIds' /\ LiveIsNewest' /\ Ranked'
<1>1. NothingLeaks'
  BY DEF StoreInv, NothingLeaks, Present, NoneDead, HasHandle
<1>2. LegalLinks' /\ ChildBusy' /\ BusSegmentWhole'
  BY DEF StoreInv, LegalLinks, LegalLink, HasHandle, ChildBusy, BusSegmentWhole
<1>3. NotBusToBus' /\ OneFromAbove' /\ FreshIds' /\ LiveIsNewest' /\ Ranked'
  BY EdgesStay
<1> QED  BY <1>1, <1>2, <1>3

(* A node on the canvas takes another profile, or another kind.            *)
LEMMA DataChanges ==
  ASSUME StoreInv, NEW n \in NodeId, n \in canvasNodes, NEW d \in Data,
         data' = [data EXCEPT ![n] = d], canvasNodes' = canvasNodes
  PROVE  data' \in [NodeId -> Data \cup {NoData}] /\ DataShown'
  BY DEF StoreInv, TypeOK, DataShown

LEMMA ShownData ==
  ASSUME StoreInv, NEW n \in NodeId, n \in canvasNodes
  PROVE  /\ data[n] \in Data
         /\ \A p \in Profile : [data[n] EXCEPT !.profile = p] \in Data
         /\ \A k \in Kind : [data[n] EXCEPT !.kind = k] \in Data
         /\ \A p \in Profile : [profile |-> p, kind |-> data[n].kind] \in Data
<1>1. data[n] \in Data
  BY DEF StoreInv, DataShown
<1> QED  BY <1>1 DEF Data

(* onProfileChange                                                         *)
LEMMA ChangeProfileInv ==
  ASSUME StoreInv, NEW n \in NodeId, NEW p \in Profile, ChangeProfile(n, p)
  PROVE  StoreInv'
<1> DEFINE d == [profile |-> p, kind |-> data[n].kind]
<1>1. /\ Replaceable(n) /\ DestroyLinks(n)
      /\ handle' = [handle EXCEPT ![n] = d]
      /\ data' = [data EXCEPT ![n] = [data[n] EXCEPT !.profile = p]]
      /\ uplinkBusy' = uplinkBusy \ {n}
      /\ UNCHANGED <<mounted, canvasNodes, canvasEdges, buses, pinging>>
  BY DEF ChangeProfile, NewNode
<1>2. n \in canvasNodes
  BY <1>1 DEF Replaceable
<1>3. d \in Data /\ [data[n] EXCEPT !.profile = p] \in Data
  BY <1>2, ShownData
<1> HIDE DEF d
<1>4. data' \in [NodeId -> Data \cup {NoData}] /\ DataShown'
  BY <1>1, <1>2, <1>3, DataChanges
<1>5. /\ handle' \in [NodeId -> Data \cup {NoData, Dead}]
      /\ \A m \in NodeId : m # n => handle'[m] = handle[m]
  BY <1>1, <1>3 DEF StoreInv, TypeOK
<1>6. /\ NothingLeaks' /\ LegalLinks' /\ ChildBusy' /\ BusSegmentWhole'
      /\ NotBusToBus' /\ OneFromAbove' /\ FreshIds' /\ LiveIsNewest' /\ Ranked'
      /\ stored' \subseteq stored /\ live' \subseteq live
  BY <1>1, <1>5, ReplacedInv
<1>7. TypeOK'
  BY <1>1, <1>4, <1>5, <1>6 DEF StoreInv, TypeOK
<1> QED  BY <1>4, <1>6, <1>7 DEF StoreInv

(* onKindChange of a node the store has, and both when free() throws.      *)
LEMMA FreedInv ==
  ASSUME StoreInv, NEW n \in NodeId, Replaceable(n), DestroyLinks(n),
         NEW D \in SUBSET {n}, NEW R \in SUBSET {n}, FreeNodes(D, R),
         UNCHANGED <<mounted, canvas, buses>>
  PROVE  StoreInv'
<1>1. UNCHANGED <<mounted, canvasNodes, data, canvasEdges, buses>>
  BY DEF canvas
<1>2. /\ handle' \in [NodeId -> Data \cup {NoData, Dead}]
      /\ uplinkBusy' \in SUBSET NodeId /\ pinging' \in SUBSET NodeId
      /\ \A m \in NodeId : m \notin D \cup R => handle'[m] = handle[m]
  BY FreeNodesFacts
<1>3. uplinkBusy \subseteq uplinkBusy' \cup {n}
  BY DEF FreeNodes
<1>4. /\ NothingLeaks' /\ LegalLinks' /\ ChildBusy' /\ BusSegmentWhole'
      /\ NotBusToBus' /\ OneFromAbove' /\ FreshIds' /\ LiveIsNewest' /\ Ranked'
      /\ stored' \subseteq stored /\ live' \subseteq live
  BY <1>1, <1>2, <1>3, ReplacedInv
<1>5. TypeOK' /\ DataShown'
  BY <1>1, <1>2, <1>4 DEF StoreInv, TypeOK, DataShown
<1> QED  BY <1>4, <1>5 DEF StoreInv

(* onProfileChange and onKindChange when the store returns.                *)
LEMMA ShownInv ==
  ASSUME StoreInv, NEW n \in NodeId, n \in canvasNodes, NEW d \in Data,
         data' = [data EXCEPT ![n] = d],
         UNCHANGED <<mounted, canvasNodes, canvasEdges, store>>
  PROVE  StoreInv'
<1>1. data' \in [NodeId -> Data \cup {NoData}] /\ DataShown'
  BY DataChanges
<1>2. UNCHANGED <<handle, buses, stored, live, uplinkBusy, pinging>>
  BY DEF store
<1>3. TypeOK'
  BY <1>1, <1>2 DEF StoreInv, TypeOK
<1> QED  BY <1>1, <1>2, <1>3, StoreUnchanged DEF StoreInv

LEMMA ChangeShownInv ==
  ASSUME StoreInv, NEW n \in NodeId,
         \/ \E p \in Profile : ChangeShownProfile(n, p)
         \/ \E k \in Kind : ChangeShownKind(n, k)
  PROVE  StoreInv'
<1>1. PICK d : /\ \/ \E p \in Profile : d = [data[n] EXCEPT !.profile = p]
                  \/ \E k \in Kind : d = [data[n] EXCEPT !.kind = k]
               /\ n \in canvasNodes /\ data' = [data EXCEPT ![n] = d]
               /\ UNCHANGED <<mounted, canvasNodes, canvasEdges, store>>
  <2>1. CASE \E p \in Profile : ChangeShownProfile(n, p)
    BY <2>1 DEF ChangeShownProfile
  <2>2. CASE \E k \in Kind : ChangeShownKind(n, k)
    BY <2>2 DEF ChangeShownKind
  <2> QED  BY <2>1, <2>2
<1>2. d \in Data
  BY <1>1, ShownData
<1> QED  BY <1>1, <1>2, ShownInv

-----------------------------------------------------------------------------
(* The uplink worker of a link that is gone, a link that fails, dispose.   *)
LEMMA UplinkReturnsInv ==
  ASSUME StoreInv, NEW n \in NodeId, UplinkReturns(n)
  PROVE  StoreInv'
<1>1. /\ \A e \in live : e.target # n
      /\ uplinkBusy' = uplinkBusy \ {n}
      /\ UNCHANGED <<mounted, canvasNodes, data, canvasEdges, handle, buses, stored, live,
                     pinging>>
  BY DEF UplinkReturns, canvas
<1>2. TypeOK' /\ DataShown' /\ ChildBusy'
  BY <1>1 DEF StoreInv, TypeOK, DataShown, ChildBusy
<1>3. NothingLeaks' /\ LegalLinks' /\ BusSegmentWhole'
  BY <1>1 DEF StoreInv, NothingLeaks, Present, NoneDead, LegalLinks, LegalLink,
              HasHandle, BusSegmentWhole
<1>4. NotBusToBus' /\ OneFromAbove' /\ FreshIds' /\ LiveIsNewest' /\ Ranked'
  BY <1>1, EdgesStay
<1> QED  BY <1>2, <1>3, <1>4 DEF StoreInv

LEMMA LinkFailsInv ==
  ASSUME StoreInv, NEW e \in live, LinkFails(e)
  PROVE  StoreInv'
<1>1. /\ live' = live \ {e}
      /\ UNCHANGED <<mounted, canvasNodes, data, canvasEdges, handle, buses, stored,
                     uplinkBusy, pinging>>
  BY DEF LinkFails, canvas
<1>2. TypeOK' /\ DataShown' /\ ChildBusy'
  BY <1>1 DEF StoreInv, TypeOK, DataShown, ChildBusy
<1>3. NothingLeaks' /\ LegalLinks' /\ BusSegmentWhole'
  BY <1>1 DEF StoreInv, NothingLeaks, Present, NoneDead, LegalLinks, LegalLink,
              HasHandle, BusSegmentWhole
<1>4. NotBusToBus' /\ OneFromAbove' /\ FreshIds' /\ LiveIsNewest' /\ Ranked'
  BY <1>1, EdgesStay
<1> QED  BY <1>2, <1>3, <1>4 DEF StoreInv

LEMMA PingInv ==
  ASSUME StoreInv, NEW n \in NodeId, Ping(n) \/ PingEnds(n)
  PROVE  StoreInv'
<1>1. /\ UNCHANGED <<mounted, canvasNodes, data, canvasEdges, handle, buses, stored, live,
                     uplinkBusy>>
      /\ pinging' \subseteq pinging \cup {n}
  BY DEF Ping, PingEnds, canvas
<1>2. TypeOK' /\ DataShown'
  BY <1>1 DEF StoreInv, TypeOK, DataShown
<1> QED  BY <1>1, <1>2, StoreUnchanged DEF StoreInv

(* dispose: when a node refuses, it stays behind a dead handle.            *)
LEMMA DisposeInv ==
  ASSUME StoreInv, Dispose
  PROVE  StoreInv'
<1> DEFINE Handles == {n \in NodeId : handle[n] # NoData}
<1>1. PICK o \in Outcomes(Handles) :
        /\ mounted' = FALSE /\ canvasNodes' = {} /\ canvasEdges' = {}
        /\ data' = [n \in NodeId |-> NoData]
        /\ stored' = {} /\ live' = {}
        /\ IF o.refused = {}
           THEN handle' = [n \in NodeId |-> NoData] /\ buses' = {}
           ELSE /\ handle' = [n \in NodeId |->
                                IF n \in o.freed \cup o.refused THEN Dead ELSE handle[n]]
                /\ buses' = buses
        /\ uplinkBusy' = uplinkBusy \ o.freed
        /\ pinging' = pinging \ o.refused
  BY DEF Dispose
<1>2. o.refused \subseteq Handles
  BY OutcomeFacts
<1>3. TypeOK'
  <2>1. handle' \in [NodeId -> Data \cup {NoData, Dead}] /\ buses' \in SUBSET BusId
    BY <1>1 DEF StoreInv, TypeOK
  <2> QED  BY <1>1, <2>1 DEF StoreInv, TypeOK
<1>4. DataShown' /\ ChildBusy' /\ LegalLinks' /\ BusSegmentWhole'
  BY <1>1 DEF DataShown, ChildBusy, LegalLinks, BusSegmentWhole
<1>5. NothingLeaks'
  <2>1. NoneDead' => buses' = {} /\ \A n \in NodeId : handle'[n] = NoData
    <3>1. CASE o.refused = {}
      BY <1>1, <3>1
    <3>2. CASE o.refused # {}
      <4>1. PICK r \in o.refused : r \in NodeId
        BY <1>2, <3>2
      <4>2. handle'[r] = Dead
        BY <1>1, <3>2, <4>1
      <4> QED  BY <4>1, <4>2 DEF NoneDead
    <3> QED  BY <3>1, <3>2
  <2> QED  BY <1>1, <2>1 DEF NothingLeaks
<1>6. NotBusToBus' /\ OneFromAbove' /\ FreshIds' /\ LiveIsNewest' /\ Ranked'
  BY <1>1, EdgesStay
<1> QED  BY <1>3, <1>4, <1>5, <1>6 DEF StoreInv

-----------------------------------------------------------------------------
(* The walk of wouldLoop.  The theorems on induction take an operator; in  *)
(* their place stands the least number for which the claim fails.          *)
IsWalk(E, s, g, n) ==
  g = [k \in 0 .. n |-> IF k = 0 THEN s ELSE ParentIn(E, g[k - 1])]

LEMMA IdIsFinite == IsFiniteSet(Id) /\ Steps \in Nat
<1>1. IsFiniteSet(Id)
  BY FiniteAssumption, FS_Union DEF Id
<1> QED  BY <1>1, FS_CardinalityType DEF Steps

LEMMA WalkExists ==
  ASSUME NEW E, NEW s
  PROVE  \A n \in Nat : \E g : IsWalk(E, s, g, n)
<1> DEFINE Bad == {n \in Nat : ~ \E g : IsWalk(E, s, g, n)}
<1> SUFFICES ASSUME Bad # {}  PROVE FALSE
  OBVIOUS
<1>1. PICK m \in Bad : \A k \in Bad : m <= k
  <2>1. Bad \in SUBSET Nat
    OBVIOUS
  <2> HIDE DEF Bad
  <2> QED  BY <2>1, LeastOf
<1>2. m # 0
  <2>1. IsWalk(E, s, [k \in 0 .. 0 |-> s], 0)
    BY DEF IsWalk
  <2> QED  BY <1>1, <2>1
<1>3. m - 1 \in Nat /\ m - 1 \notin Bad
  BY <1>1, <1>2
<1>4. PICK g : IsWalk(E, s, g, m - 1)
  BY <1>3
<1> DEFINE h == [k \in 0 .. m |-> IF k = m THEN ParentIn(E, g[m - 1]) ELSE g[k]]
<1>5. IsWalk(E, s, h, m)
  <2>1. \A k \in 0 .. m - 1 : g[k] = IF k = 0 THEN s ELSE ParentIn(E, g[k - 1])
    BY <1>4 DEF IsWalk
  <2>2. \A k \in 0 .. m : h[k] = IF k = 0 THEN s ELSE ParentIn(E, h[k - 1])
    <3> SUFFICES ASSUME NEW k \in 0 .. m
                 PROVE  h[k] = IF k = 0 THEN s ELSE ParentIn(E, h[k - 1])
      OBVIOUS
    <3>1. CASE k = m
      <4>1. h[k] = ParentIn(E, g[m - 1]) /\ h[k - 1] = g[m - 1]
        BY <1>2, <1>3, <3>1
      <4> QED  BY <1>2, <3>1, <4>1
    <3>2. CASE k # m
      <4>1. k \in 0 .. m - 1 /\ h[k] = g[k]
        BY <1>3, <3>2
      <4>2. CASE k = 0
        BY <2>1, <4>1, <4>2
      <4>3. CASE k # 0
        <5>1. k - 1 \in 0 .. m /\ k - 1 # m /\ h[k - 1] = g[k - 1]
          BY <1>3, <4>1, <4>3
        <5> QED  BY <2>1, <4>1, <4>3, <5>1
      <4> QED  BY <4>2, <4>3
    <3> QED  BY <3>1, <3>2
  <2>3. h = [k \in 0 .. m |-> h[k]]
    OBVIOUS
  <2> HIDE DEF h
  <2> QED  BY <2>2, <2>3 DEF IsWalk
<1> QED  BY <1>1, <1>5

(* The walk starts at s and goes from each node to its parent.             *)
LEMMA WalkSteps ==
  ASSUME NEW E, NEW s
  PROVE  /\ Walk(E, s)[0] = s
         /\ \A k \in 1 .. Steps : Walk(E, s)[k] = ParentIn(E, Walk(E, s)[k - 1])
<1>1. Walk(E, s) = CHOOSE g : IsWalk(E, s, g, Steps)
  BY DEF Walk, IsWalk
<1>2. IsWalk(E, s, Walk(E, s), Steps)
  <2>1. \E g : IsWalk(E, s, g, Steps)
    BY IdIsFinite, WalkExists
  <2> QED  BY <1>1, <2>1
<1>3. Walk(E, s) = [k \in 0 .. Steps |-> IF k = 0 THEN s ELSE ParentIn(E, Walk(E, s)[k - 1])]
  BY <1>2 DEF IsWalk
<1> QED  BY <1>3, IdIsFinite

(* A parent is the source of an edge into the node, or there is none.      *)
LEMMA ParentFacts ==
  ASSUME NEW E \in SUBSET Edge, NEW x
  PROVE  \/ ParentIn(E, x) = NoId /\ Into(E, x) = {}
         \/ \E e \in E : e.target = x /\ ParentIn(E, x) = e.source
                         /\ \A f \in E : f.target = x => f.id <= e.id
<1>1. CASE Into(E, x) = {}
  BY <1>1 DEF ParentIn
<1>2. CASE Into(E, x) # {}
  <2>1. \E e \in Into(E, x) : \A f \in Into(E, x) : f.id <= e.id
    <3> DEFINE T == {k \in 0 .. MaxEdges : \E e \in Into(E, x) : k = MaxEdges - e.id}
    <3>1. \A e \in Into(E, x) : e.id \in 1 .. MaxEdges
      BY DEF Into, Edge
    <3>2. T \in SUBSET Nat
      BY MaxAssumption
    <3>3. \A e \in Into(E, x) : MaxEdges - e.id \in T
      BY <3>1, MaxAssumption
    <3>4. PICK m \in T : \A k \in T : m <= k
      <4>1. T # {}
        BY <1>2, <3>3
      <4> HIDE DEF T
      <4> QED  BY <3>2, <4>1, LeastOf
    <3>5. PICK e \in Into(E, x) : m = MaxEdges - e.id
      BY <3>4
    <3>6. \A f \in Into(E, x) : f.id <= e.id
      BY <3>1, <3>3, <3>4, <3>5, MaxAssumption
    <3> QED  BY <3>6
  <2>2. /\ Newest(Into(E, x)) \in Into(E, x)
        /\ \A f \in Into(E, x) : f.id <= Newest(Into(E, x)).id
    BY <2>1 DEF Newest
  <2> QED  BY <1>2, <2>2 DEF ParentIn, Into
<1> QED  BY <1>1, <1>2

-----------------------------------------------------------------------------
(* Where wouldLoop's walk comes by a live link's child, it goes on to the  *)
(* parent: the newest edge into the child is the live one, though edges of *)
(* links that died may lead there too.                                     *)
LEMMA AboveFollowsLive ==
  ASSUME StoreInv, NEW s, WalkEnds(canvasEdges, s),
         NEW e \in live, e.target \in Above(canvasEdges, s)
  PROVE  e.source \in Above(canvasEdges, s)
<1> DEFINE w == Walk(canvasEdges, s)
<1>1. PICK k \in 0 .. Steps : e.target = w[k]
  BY DEF Above
<1>2. e \in canvasEdges /\ e.target \in Id
  BY EdgeFacts
<1>3. k # Steps
  BY <1>1, <1>2, IdAssumption DEF WalkEnds, Id
<1>4. k + 1 \in 1 .. Steps /\ k + 1 \in 0 .. Steps /\ (k + 1) - 1 = k
  BY <1>3, IdIsFinite
<1>5. w[k + 1] = ParentIn(canvasEdges, e.target)
  <2>1. w[k + 1] = ParentIn(canvasEdges, w[(k + 1) - 1])
    BY <1>4, WalkSteps
  <2> QED  BY <1>1, <1>4, <2>1
<1>6. ParentIn(canvasEdges, e.target) = e.source
  <2>1. canvasEdges \in SUBSET Edge
    BY DEF StoreInv, TypeOK
  <2>2. Into(canvasEdges, e.target) # {}
    BY <1>2 DEF Into
  <2>3. PICK f \in canvasEdges :
          /\ f.target = e.target /\ ParentIn(canvasEdges, e.target) = f.source
          /\ \A g \in canvasEdges : g.target = e.target => g.id <= f.id
    BY <2>1, <2>2, ParentFacts
  <2>4. f.id <= e.id /\ e.id <= f.id /\ e.id \in Int /\ f.id \in Int
    BY <1>2, <2>1, <2>3 DEF StoreInv, LiveIsNewest, Edge
  <2>5. f = e
    BY <1>2, <2>3, <2>4 DEF StoreInv, FreshIds
  <2> QED  BY <2>3, <2>5
<1>7. w[k + 1] \in Above(canvasEdges, s)
  BY <1>4 DEF Above
<1> QED  BY <1>5, <1>6, <1>7

(* A link to a node that is not above its parent keeps the ranks: all that *)
(* is not above the parent moves up by more than the parent's rank.        *)
LEMMA RanksGrow ==
  ASSUME StoreInv, NEW s \in Id, NEW t \in Id, NoLoop(s, t),
         NEW new, new.source = s, new.target = t, live' = live \cup {new}
  PROVE  Ranked'
<1> DEFINE A == Above(canvasEdges, s)
<1>1. PICK rank : Ranks(rank)
  BY DEF StoreInv, Ranked
<1> DEFINE up == [x \in Id |-> IF x \in A THEN rank[x] ELSE rank[x] + rank[s] + 1]
<1>2. s \in A /\ t \notin A
  <2>1. 0 \in 0 .. Steps
    BY IdIsFinite
  <2> QED  BY <2>1, WalkSteps DEF Above, NoLoop
<1>3. \A e \in live : e.target \in A => e.source \in A
  BY AboveFollowsLive DEF NoLoop
<1>4. rank \in [Id -> Nat] /\ \A e \in live : rank[e.source] < rank[e.target]
  BY <1>1 DEF Ranks
<1> HIDE DEF A
<1>5. up \in [Id -> Nat]
  BY <1>4
<1>6. \A e \in live : up[e.source] < up[e.target]
  <2> SUFFICES ASSUME NEW e \in live  PROVE up[e.source] < up[e.target]
    OBVIOUS
  <2>1. e.source \in Id /\ e.target \in Id
    BY EdgeFacts
  <2>2. /\ rank[e.source] \in Nat /\ rank[e.target] \in Nat /\ rank[s] \in Nat
        /\ rank[e.source] < rank[e.target]
    BY <1>4, <2>1
  <2>3. CASE e.target \in A
    BY <1>3, <2>1, <2>2, <2>3
  <2>4. CASE e.target \notin A
    BY <2>1, <2>2, <2>4
  <2> QED  BY <2>3, <2>4
<1>7. up[s] < up[t]
  <2>1. rank[s] \in Nat /\ rank[t] \in Nat
    BY <1>4
  <2> QED  BY <1>2, <2>1
<1> HIDE DEF up
<1>8. PICK r : r = up
  OBVIOUS
<1>9. Ranks(r)'
  BY <1>5, <1>6, <1>7, <1>8 DEF Ranks
<1> QED  BY <1>9 DEF Ranked

(* What connectionError allows.                                            *)
LEMMA ConnectionFacts ==
  ASSUME StoreInv, NEW s, NEW t, ConnectionOK(s, t)
  PROVE  /\ LegalLink([id |-> NextEdgeId, source |-> s, target |-> t])
         /\ \A e \in live : e.target # t
         /\ s \in BusId => t \in NodeId /\ \E r \in live : r.target = s
<1> DEFINE new == [id |-> NextEdgeId, source |-> s, target |-> t]
<1>1. /\ new.source = s /\ new.target = t
      /\ buses \subseteq BusId /\ NodeId \cap BusId = {}
  BY IdAssumption DEF StoreInv, TypeOK
<1> HIDE DEF new
<1>2. t \in NodeId /\ UplinkFree(t) => \A e \in live : e.target # t
  BY DEF StoreInv, ChildBusy, UplinkFree
<1>3. CASE /\ HasHandle(s) /\ HasHandle(t) /\ handle[s].profile # "edge"
           /\ UplinkFree(t)
  BY <1>1, <1>2, <1>3 DEF LegalLink, UplinkFree, HasHandle, new
<1>4. CASE /\ HasHandle(s) /\ t \in buses /\ handle[s].profile = "router"
           /\ ~RouterAttached(t)
  BY <1>1, <1>4 DEF LegalLink, RouterAttached, HasHandle, new
<1>5. CASE s \in buses /\ HasHandle(t) /\ BusJoinOK(s, t)
  BY <1>1, <1>2, <1>5 DEF LegalLink, BusJoinOK, RouterAttached, HasHandle, new
<1> QED  BY <1>3, <1>4, <1>5 DEF ConnectionOK

(* onConnect                                                               *)
LEMMA OnConnectInv ==
  ASSUME StoreInv, NEW s \in canvasNodes, NEW t \in canvasNodes, OnConnect(s, t)
  PROVE  StoreInv'
<1> DEFINE new == [id |-> NextEdgeId, source |-> s, target |-> t]
<1>1. /\ NextEdgeId <= MaxEdges /\ NoLoop(s, t) /\ ConnectionOK(s, t)
      /\ stored' = stored \cup {new} /\ live' = live \cup {new}
      /\ canvasEdges' = canvasEdges \cup {new}
      /\ uplinkBusy' = uplinkBusy \cup ({t} \cap NodeId)
      /\ mounted /\ pinging' = pinging \cup Warming(s, t)
      /\ UNCHANGED <<mounted, canvasNodes, data, handle, buses>>
  BY DEF OnConnect
<1>2. /\ new.id = NextEdgeId /\ new.source = s /\ new.target = t
      /\ s \in Id /\ t \in Id
  BY DEF StoreInv, TypeOK
<1>3. /\ NextEdgeId \in 1 .. MaxEdges /\ \A e \in canvasEdges : e.id < NextEdgeId
  BY <1>1, NewIdIsGreatest, MaxAssumption DEF StoreInv
<1>4. new \in Edge
  BY <1>2, <1>3 DEF Edge
<1>5. /\ LegalLink(new) /\ \A e \in live : e.target # t
      /\ s \in BusId => t \in NodeId /\ \E r \in live : r.target = s
  BY <1>1, ConnectionFacts
<1> HIDE DEF new
<1>6. \A e \in canvasEdges : e \in Edge /\ e.id \in Int
  BY EdgeFacts DEF Edge
<1>7. TypeOK'
  <2>1. uplinkBusy' \in SUBSET NodeId
    BY <1>1 DEF StoreInv, TypeOK
  <2>2. pinging' \in SUBSET NodeId
    BY <1>1 DEF StoreInv, TypeOK, Warming
  <2>3. canvasEdges' \in SUBSET Edge /\ stored' \in SUBSET Edge /\ live' \in SUBSET Edge
    BY <1>1, <1>4 DEF StoreInv, TypeOK
  <2> QED  BY <1>1, <2>1, <2>2, <2>3 DEF StoreInv, TypeOK
<1>8. DataShown' /\ NotBusToBus'
  BY <1>1, <1>2, <1>5 DEF StoreInv, DataShown, NotBusToBus
<1>9. NothingLeaks'
  <2>1. live' \subseteq stored' /\ stored' \subseteq canvasEdges'
    BY <1>1, EdgeFacts
  <2>2. \A e \in canvasEdges' : {e.source, e.target} \subseteq canvasNodes'
    BY <1>1, <1>2, EdgeFacts
  <2>3. \A e \in stored' : Present(e.source)' /\ Present(e.target)'
    <3>1. Present(s) /\ Present(t)
      BY <1>1 DEF ConnectionOK, Present
    <3> QED  BY <1>1, <1>2, <3>1 DEF StoreInv, NothingLeaks, Present, HasHandle
  <2>4. \A m \in NodeId : handle'[m] # NoData => m \in canvasNodes'
    BY <1>1 DEF StoreInv, NothingLeaks
  <2>5. buses' \subseteq canvasNodes'
    BY <1>1 DEF StoreInv, NothingLeaks
  <2>6. NoneDead' => canvasNodes' \cap BusId \subseteq buses'
    BY <1>1 DEF StoreInv, NothingLeaks, NoneDead
  <2> QED  BY <2>1, <2>2, <2>3, <2>4, <2>5, <2>6, LeaksNothingAfter
<1>10. LegalLinks'
  <2>1. \A e \in live' : LegalLink(e)
    BY <1>1, <1>5 DEF StoreInv, LegalLinks
  <2>2. \A e \in live' : LegalLink(e)'
    BY <1>1, <2>1, LegalStays
  <2> QED  BY <2>2 DEF LegalLinks
<1>11. OneFromAbove' /\ ChildBusy'
  BY <1>1, <1>2, <1>5 DEF StoreInv, OneFromAbove, ChildBusy
<1>12. BusSegmentWhole'
  BY <1>1, <1>2, <1>5, EdgeFacts DEF StoreInv, BusSegmentWhole
<1>13. FreshIds'
  BY <1>1, <1>2, <1>3, <1>6 DEF StoreInv, FreshIds
<1>14. LiveIsNewest'
  <2> SUFFICES ASSUME NEW e \in live', NEW f \in canvasEdges', f.target = e.target
               PROVE  f.id <= e.id
    BY DEF LiveIsNewest
  <2>1. CASE e \in live /\ f \in canvasEdges
    BY <2>1 DEF StoreInv, LiveIsNewest
  <2>2. CASE e = new
    BY <1>1, <1>2, <1>3, <1>6, <2>2
  <2>3. CASE e \in live /\ f = new
    BY <1>2, <1>5, <2>3
  <2> QED  BY <1>1, <2>1, <2>2, <2>3
<1>15. Ranked'
  BY <1>1, <1>2, RanksGrow
<1> QED
  BY <1>7, <1>8, <1>9, <1>10, <1>11, <1>12, <1>13, <1>14, <1>15 DEF StoreInv

-----------------------------------------------------------------------------
LEMMA StoreStep == StoreInv /\ [Next]_vars => StoreInv'
<1> SUFFICES ASSUME StoreInv, [Next]_vars  PROVE StoreInv'
  OBVIOUS
<1>1. ASSUME NEW n \in NodeId, NEW d \in Addable, AddNode(n, d)  PROVE StoreInv'
  BY <1>1, AddNodeInv
<1>2. ASSUME NEW b \in BusId, AddBus(b)  PROVE StoreInv'
  BY <1>2, AddBusInv
<1>3. ASSUME NEW s \in canvasNodes, NEW t \in canvasNodes, OnConnect(s, t)  PROVE StoreInv'
  BY <1>3, OnConnectInv
<1>4. ASSUME NEW E \in SUBSET canvasEdges, NEW N \in SUBSET canvasNodes, DeleteSelected(E, N)
      PROVE  StoreInv'
  BY <1>4, DeleteSelectedInv
<1>5. ASSUME NEW n \in NodeId, NEW p \in Profile, ChangeProfile(n, p)  PROVE StoreInv'
  BY <1>5, ChangeProfileInv
<1>6. ASSUME NEW n \in NodeId, ChangeKind(n) \/ ReplaceThrows(n)  PROVE StoreInv'
  <2>1. CASE ChangeKind(n)
    BY <2>1, FreedInv DEF ChangeKind
  <2>2. CASE ReplaceThrows(n)
    BY <2>2, FreedInv DEF ReplaceThrows
  <2> QED  BY <1>6, <2>1, <2>2
<1>7. ASSUME NEW n \in NodeId,
             \/ \E p \in Profile : ChangeShownProfile(n, p)
             \/ \E k \in Kind : ChangeShownKind(n, k)
      PROVE  StoreInv'
  BY <1>7, ChangeShownInv
<1>8. ASSUME NEW n \in NodeId, UplinkReturns(n)  PROVE StoreInv'
  BY <1>8, UplinkReturnsInv
<1>9. ASSUME NEW e \in live, LinkFails(e)  PROVE StoreInv'
  BY <1>9, LinkFailsInv
<1>10. CASE Dispose
  BY <1>10, DisposeInv
<1>11. ASSUME NEW n \in NodeId, Ping(n) \/ PingEnds(n)  PROVE StoreInv'
  BY <1>11, PingInv
<1>12. CASE UNCHANGED vars
  <2>1. UNCHANGED <<mounted, canvasNodes, data, canvasEdges, handle, buses, stored, live,
                    uplinkBusy, pinging>>
    BY <1>12 DEF vars, canvas, store
  <2>2. TypeOK' /\ DataShown'
    BY <2>1 DEF StoreInv, TypeOK, DataShown
  <2> QED  BY <2>1, <2>2, StoreUnchanged DEF StoreInv
<1> QED
  BY <1>1, <1>2, <1>3, <1>4, <1>5, <1>6, <1>7, <1>8, <1>9, <1>10, <1>11, <1>12 DEF Next

LEMMA StoreHolds == Spec => []StoreInv
  BY StoreInit, StoreStep, PTL DEF Spec

(* Every variable of the store and the canvas keeps its type; a node's     *)
(* data never mixes with the data of a node that is not there.             *)
THEOREM StoreTypes == Spec => []TypeOK
<1>1. StoreInv => TypeOK
  BY DEF StoreInv
<1> QED  BY <1>1, StoreHolds, PTL

(* Whatever free() throws and whatever handler stops half way, a link      *)
(* handle never outlives an end of its link, and a mounted canvas shows    *)
(* all the store holds; until a free() has thrown, the buses are the same  *)
(* and unmounting leaves nothing.                                          *)
THEOREM StoreLeaksNothing == Spec => []NothingLeaks
<1>1. StoreInv => NothingLeaks
  BY DEF StoreInv
<1> QED  BY <1>1, StoreHolds, PTL

(* A live link joins what may be linked, and each node and bus has at most *)
(* one live link from above, however nodes are replaced.                   *)
THEOREM LinksAreLegal == Spec => []LiveLinksLegal
<1>1. StoreInv => LiveLinksLegal
  BY DEF StoreInv, LegalLinks, LegalLink, OneFromAbove, LiveLinksLegal
<1> QED  BY <1>1, StoreHolds, PTL

(* disconnect leaves no link handle of a device on a bus without one of a  *)
(* router on the same bus.                                                 *)
THEOREM BusSegmentsAreWhole == Spec => []BusSegmentWhole
<1>1. StoreInv => BusSegmentWhole
  BY DEF StoreInv
<1> QED  BY <1>1, StoreHolds, PTL

-----------------------------------------------------------------------------
(* A walk along edges on which ranks grow gets lower with every step ...   *)
LEMMA WalkFalls ==
  ASSUME NEW E \in SUBSET Edge, NEW s \in Id, NEW rank \in [Id -> Nat],
         \A e \in E : rank[e.source] < rank[e.target],
         Walk(E, s)[Steps] # NoId
  PROVE  /\ \A k \in 0 .. Steps : Walk(E, s)[k] \in Id
         /\ \A i, j \in 0 .. Steps :
              i < j => rank[Walk(E, s)[j]] < rank[Walk(E, s)[i]]
<1> DEFINE w == Walk(E, s)
<1>1. Steps \in Nat /\ NoId \notin Id
  BY IdIsFinite, IdAssumption DEF Id
<1>2. w[0] = s /\ \A k \in 1 .. Steps : w[k] = ParentIn(E, w[k - 1])
  BY WalkSteps
<1>3. ASSUME NEW x
      PROVE  /\ ParentIn(E, x) \in Id \cup {NoId}
             /\ ParentIn(E, x) # NoId => x \in Id /\ rank[ParentIn(E, x)] < rank[x]
  <2>1. \A e \in E : e.source \in Id /\ e.target \in Id
    BY DEF Edge
  <2>2. CASE ParentIn(E, x) = NoId
    BY <2>2
  <2>3. CASE \E e \in E : e.target = x /\ ParentIn(E, x) = e.source
    BY <2>1, <2>3
  <2> QED  BY <2>2, <2>3, ParentFacts
<1>4. \A k \in 0 .. Steps : w[k] \in Id \cup {NoId}
  <2> SUFFICES ASSUME NEW k \in 0 .. Steps  PROVE w[k] \in Id \cup {NoId}
    OBVIOUS
  <2>1. k = 0 \/ k \in 1 .. Steps
    BY <1>1
  <2> QED  BY <1>2, <1>3, <2>1
<1> HIDE DEF w
(* No step before the last one leads out of the canvas.                    *)
<1>5. \A k \in 0 .. Steps : w[k] # NoId
  <2> DEFINE T == {n \in 0 .. Steps : w[Steps - n] = NoId}
  <2> SUFFICES ASSUME T # {}  PROVE FALSE
    <3> SUFFICES ASSUME NEW k \in 0 .. Steps, w[k] = NoId  PROVE FALSE
      OBVIOUS
    <3>1. Steps - k \in 0 .. Steps /\ Steps - (Steps - k) = k
      BY <1>1
    <3> QED  BY <3>1
  <2>1. PICK m \in T : \A n \in T : m <= n
    <3>1. T \in SUBSET Nat
      BY <1>1
    <3> HIDE DEF T
    <3> QED  BY <3>1, LeastOf
  <2>2. m \in 0 .. Steps /\ w[Steps - m] = NoId
    BY <2>1
  <2>3. m # 0
    BY <1>1, <2>2 DEF w
  <2>4. /\ m - 1 \in 0 .. Steps /\ Steps - m + 1 \in 1 .. Steps
        /\ Steps - (m - 1) = Steps - m + 1 /\ (Steps - m + 1) - 1 = Steps - m
    BY <1>1, <2>2, <2>3
  <2>5. w[Steps - m + 1] = ParentIn(E, NoId)
    <3>1. w[Steps - m + 1] = ParentIn(E, w[(Steps - m + 1) - 1])
      BY <1>2, <2>4
    <3> QED  BY <2>2, <2>4, <3>1
  <2>6. w[Steps - m + 1] = NoId
    BY <1>1, <1>3, <2>5
  <2>7. m - 1 \in T
    BY <2>4, <2>6
  <2> QED  BY <2>1, <2>2, <2>7
<1>6. \A k \in 0 .. Steps : w[k] \in Id /\ rank[w[k]] \in Nat
  BY <1>4, <1>5
<1>7. \A k \in 1 .. Steps : rank[w[k]] < rank[w[k - 1]]
  <2> SUFFICES ASSUME NEW k \in 1 .. Steps  PROVE rank[w[k]] < rank[w[k - 1]]
    OBVIOUS
  <2>1. k \in 0 .. Steps
    BY <1>1
  <2> QED  BY <1>2, <1>3, <1>5, <2>1
<1>8. \A i, j \in 0 .. Steps : i < j => rank[w[j]] < rank[w[i]]
  <2> SUFFICES ASSUME NEW i \in 0 .. Steps
               PROVE  \A j \in 0 .. Steps : i < j => rank[w[j]] < rank[w[i]]
    OBVIOUS
  <2> DEFINE T == {j \in 0 .. Steps : i < j /\ ~(rank[w[j]] < rank[w[i]])}
  <2> SUFFICES ASSUME T # {}  PROVE FALSE
    OBVIOUS
  <2>1. PICK m \in T : \A n \in T : m <= n
    <3>1. T \in SUBSET Nat
      BY <1>1
    <3> HIDE DEF T
    <3> QED  BY <3>1, LeastOf
  <2>2. m \in 0 .. Steps /\ i < m /\ ~(rank[w[m]] < rank[w[i]])
    BY <2>1
  <2>3. m \in 1 .. Steps /\ m - 1 \in 0 .. Steps /\ m - 1 < m
    BY <1>1, <2>2
  <2>4. rank[w[m]] < rank[w[m - 1]]
    BY <1>7, <2>3
  <2>5. m - 1 \notin T
    BY <2>1, <2>2, <2>3
  <2>6. CASE m - 1 = i
    BY <2>2, <2>4, <2>6
  <2>7. CASE i < m - 1
    <3>1. rank[w[m - 1]] < rank[w[i]]
      BY <2>3, <2>5, <2>7
    <3>2. rank[w[m]] \in Nat /\ rank[w[m - 1]] \in Nat /\ rank[w[i]] \in Nat
      BY <1>6, <2>2, <2>3
    <3> QED  BY <2>2, <2>4, <3>1, <3>2
  <2> QED  BY <1>1, <2>2, <2>6, <2>7
<1> QED  BY <1>6, <1>8 DEF w

(* ... and so it ends: as many steps as there are ids would need one id    *)
(* more.                                                                   *)
LEMMA RankedWalkEnds ==
  ASSUME NEW E \in SUBSET Edge, NEW s \in Id, NEW rank \in [Id -> Nat],
         \A e \in E : rank[e.source] < rank[e.target]
  PROVE  WalkEnds(E, s)
<1> SUFFICES ASSUME Walk(E, s)[Steps] # NoId  PROVE FALSE
  BY DEF WalkEnds
<1> DEFINE f == [k \in 0 .. Steps |-> Walk(E, s)[k]]
<1>1. /\ \A k \in 0 .. Steps : Walk(E, s)[k] \in Id
      /\ \A i, j \in 0 .. Steps :
           i < j => rank[Walk(E, s)[j]] < rank[Walk(E, s)[i]]
  BY WalkFalls
<1>2. f \in [0 .. Steps -> Id]
  BY <1>1
<1>3. IsFiniteSet(0 .. Steps) /\ Cardinality(0 .. Steps) = Steps + 1
  BY IdIsFinite, FS_Interval
<1>4. IsFiniteSet(Id) /\ Cardinality(Id) < Cardinality(0 .. Steps)
  BY <1>3, IdIsFinite DEF Steps
<1>5. \A i, j \in 0 .. Steps : i < j => f[i] # f[j]
  BY <1>1
<1> HIDE DEF f
<1>6. PICK i \in 0 .. Steps, j \in 0 .. Steps : i # j /\ f[i] = f[j]
  BY <1>2, <1>3, <1>4, FS_PigeonHole
<1> QED  BY <1>5, <1>6, IdIsFinite

(* The live links form no ring.                                            *)
LEMMA LiveWalksEnd == StoreInv => NoRing
<1> SUFFICES ASSUME StoreInv, NEW s \in canvasNodes  PROVE WalkEnds(live, s)
  BY DEF NoRing
<1>1. PICK rank : Ranks(rank)
  BY DEF StoreInv, Ranked
<1>2. live \in SUBSET Edge /\ s \in Id
  BY DEF StoreInv, TypeOK
<1> QED  BY <1>1, <1>2, RankedWalkEnds DEF Ranks

(* The tree of every node has a root, although wouldLoop walks the edges   *)
(* on the canvas, dead ones among them, and not the live links.            *)
THEOREM LiveLinksFormNoRing == Spec => []NoRing
  BY StoreHolds, LiveWalksEnd, PTL

-----------------------------------------------------------------------------
(* As long as no link fails by itself.                                     *)
LEMMA SyncStep ==
  ~LinksFail /\ StoreInv /\ CanvasInSync /\ [Next]_vars => CanvasInSync'
<1> SUFFICES ASSUME ~LinksFail, StoreInv, CanvasInSync, [Next]_vars
             PROVE  CanvasInSync'
  OBVIOUS
<1>1. ASSUME NEW n \in NodeId, NEW d \in Addable, AddNode(n, d)  PROVE CanvasInSync'
  BY <1>1 DEF AddNode, CanvasInSync
<1>2. ASSUME NEW b \in BusId, AddBus(b)  PROVE CanvasInSync'
  BY <1>2 DEF AddBus, CanvasInSync
<1>3. ASSUME NEW s \in canvasNodes, NEW t \in canvasNodes, OnConnect(s, t)
      PROVE  CanvasInSync'
  BY <1>3 DEF OnConnect, CanvasInSync
<1>4. ASSUME NEW E \in SUBSET canvasEdges, NEW N \in SUBSET canvasNodes, DeleteSelected(E, N)
      PROVE  CanvasInSync'
  <2>1. PICK o \in Outcomes(N) :
          LET rest == Torn(At(stored \ Dropped(E, N), o.freed \cup o.refused)) IN
          /\ stored' = stored \ (Dropped(E, N) \cup rest)
          /\ live' = live \ (Dropped(E, N) \cup rest)
          /\ canvasEdges' = canvasEdges \ Dropped(E, N)
    BY <1>4 DEF DeleteSelected
  <2>2. Torn(At(stored \ Dropped(E, N), o.freed \cup o.refused)) = {}
    <3>1. o.freed \cup o.refused \in SUBSET N
      BY OutcomeFacts
    <3> QED  BY <3>1, DroppedHolds
  <2> QED  BY <2>1, <2>2 DEF CanvasInSync
<1>5. ASSUME NEW n \in NodeId, Unlinked(n), DestroyLinks(n)
      PROVE  stored' = stored /\ live' = live
  <2>1. At(stored, {n}) = {}
    BY <1>5 DEF Unlinked, CanvasInSync
  <2>2. Torn(At(stored, {n})) = {}
    BY <2>1 DEF Torn
  <2> QED  BY <1>5, <2>2 DEF DestroyLinks
<1>6. ASSUME NEW n \in NodeId, NEW p \in Profile, ChangeProfile(n, p)  PROVE CanvasInSync'
  <2>1. Unlinked(n) /\ DestroyLinks(n) /\ canvasEdges' = canvasEdges
    BY <1>6 DEF ChangeProfile, Replaceable
  <2> QED  BY <1>5, <2>1 DEF CanvasInSync
<1>7. ASSUME NEW n \in NodeId, ChangeKind(n) \/ ReplaceThrows(n)  PROVE CanvasInSync'
  <2>1. Unlinked(n) /\ DestroyLinks(n) /\ canvasEdges' = canvasEdges
    BY <1>7 DEF ChangeKind, ReplaceThrows, Replaceable, canvas
  <2> QED  BY <1>5, <2>1 DEF CanvasInSync
<1>8. ASSUME NEW n \in NodeId,
             \/ \E p \in Profile : ChangeShownProfile(n, p)
             \/ \E k \in Kind : ChangeShownKind(n, k)
      PROVE  CanvasInSync'
  BY <1>8 DEF ChangeShownProfile, ChangeShownKind, store, CanvasInSync
<1>9. ASSUME NEW n \in NodeId, UplinkReturns(n)  PROVE CanvasInSync'
  BY <1>9 DEF UplinkReturns, canvas, CanvasInSync
<1>10. ASSUME NEW e \in live, LinkFails(e)  PROVE CanvasInSync'
  BY <1>10 DEF LinkFails
<1>11. CASE Dispose
  BY <1>11 DEF Dispose, CanvasInSync
<1>12. ASSUME NEW n \in NodeId, Ping(n) \/ PingEnds(n)  PROVE CanvasInSync'
  BY <1>12 DEF Ping, PingEnds, canvas, CanvasInSync
<1>13. CASE UNCHANGED vars
  BY <1>13 DEF vars, canvas, store, CanvasInSync
<1> QED
  BY <1>1, <1>2, <1>3, <1>4, <1>6, <1>7, <1>8, <1>9, <1>10, <1>11, <1>12, <1>13 DEF Next

(* "The canvas is the source of truth for topology; this store keeps the   *)
(* WASM network in sync": the edges shown, the links stored and the live   *)
(* ones are the same.                                                      *)
THEOREM CanvasStaysInSync == ~LinksFail /\ Spec => []CanvasInSync
<1> SUFFICES ASSUME ~LinksFail  PROVE Spec => []CanvasInSync
  OBVIOUS
<1>1. Init => CanvasInSync
  BY DEF Init, CanvasInSync
<1>2. StoreInv /\ CanvasInSync /\ [Next]_vars => CanvasInSync'
  BY SyncStep
<1> QED  BY <1>1, <1>2, StoreHolds, PTL DEF Spec

(* wouldLoop returns, from every node.                                     *)
THEOREM LoopCheckReturns == ~LinksFail /\ Spec => []WalkTerminates
<1>1. StoreInv /\ CanvasInSync => WalkTerminates
  BY LiveWalksEnd DEF CanvasInSync, NoRing, WalkTerminates
<1> QED  BY <1>1, StoreHolds, CanvasStaysInSync, PTL

=============================================================================
