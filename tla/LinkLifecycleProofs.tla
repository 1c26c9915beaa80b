------------------------ MODULE LinkLifecycleProofs ------------------------
(***************************************************************************)
(* Proofs about LinkLifecycle for any set of nodes, any number of links    *)
(* and any number of interface slots: the safety invariants, the action    *)
(* property on tap labels, and the safety part of the refinement of        *)
(* LinkContract.                                                           *)
(***************************************************************************)
EXTENDS LinkLifecycle, FiniteSetTheorems, TLAPS

(* A link is created whole and takes a generation below the next one; the *)
(* generations that no link took have no state.                            *)
LinksWellFormed ==
  /\ \A g \in Link : Created(g) =>
       /\ g < nextGen
       /\ child[g] \in Node
       /\ ident[g] \in Ident
       /\ tasks[g] \subseteq TasksOf(Kind[child[g]])
  /\ \A g \in Link : ~Created(g) =>
       /\ child[g] = NoNode
       /\ tasks[g] = {}
       /\ g \notin held \cup closed \cup disconnected \cup downTap

(* The inductive invariant: the invariants need one another.  A worker     *)
(* frees the right slot because slots have one owner; a label is replaced  *)
(* safely because an uplink that is Down has no worker left.               *)
IInv ==
  /\ TypeOK
  /\ LinksWellFormed
  /\ UplinkExclusive
  /\ SlotOwnership
  /\ RegistryMutual
  /\ TapOwnership
  /\ ShutTogether

USE NodeAssumption, ProfileAssumption, KindAssumption, BoundAssumption
    DEF Link, NoLink, Ident

(* The first state satisfies the inductive invariant. *)
LEMMA InitInv == Init => IInv
<1> SUFFICES ASSUME Init PROVE IInv
  OBVIOUS
<1> USE DEF Init, Created, FirstGeneration
<1>1. TypeOK
  BY DEF TypeOK
<1>2. LinksWellFormed
  BY DEF LinksWellFormed
<1>3. UplinkExclusive
  BY DEF UplinkExclusive
<1>4. SlotOwnership
  BY DEF SlotOwnership
<1>5. RegistryMutual
  BY DEF RegistryMutual
<1>6. TapOwnership
  BY DEF TapOwnership
<1>7. ShutTogether
  BY DEF ShutTogether
<1> QED
  BY <1>1, <1>2, <1>3, <1>4, <1>5, <1>6, <1>7 DEF IInv

(* A new link preserves the inductive invariant. *)
LEMMA ConnectInv ==
  ASSUME IInv, NEW p \in Node, NEW c \in Node, NEW i \in Ident,
         NEW labelled \in BOOLEAN, Connect(p, c, i, labelled)
  PROVE  IInv'
<1> DEFINE g0 == nextGen
<1> USE DEF Connect, ConnectBegins, Created, ends
<1>0. /\ g0 \in Link
      /\ ~Created(g0)
      /\ tasks[g0] = {}
      /\ g0 \notin held \cup closed \cup disconnected \cup downTap
      /\ child[g0] = NoNode
      /\ TasksOf(Kind[c]) \in SUBSET TaskName
      /\ {"parent", "child", "watch"} \subseteq TasksOf(Kind[c])
  BY DEF IInv, LinksWellFormed, TypeOK, TasksOf, TaskName, TxTask
<1>1. TypeOK'
  BY <1>0 DEF IInv, TypeOK
<1>2. LinksWellFormed'
  BY <1>0, <1>1 DEF IInv, TypeOK, LinksWellFormed
<1>3. UplinkExclusive'
  <2>1. /\ \A g \in Link : "child" \in tasks'[g] <=> "child" \in tasks[g] \/ g = g0
        /\ \A g \in Link : g # g0 => child'[g] = child[g]
        /\ child'[g0] = c
    BY <1>0 DEF IInv, TypeOK
  <2>2. \A g \in Link : "child" \in tasks[g] => child[g] # c
    BY DEF IInv, UplinkExclusive, UplinkFree
  <2>3. uplinkUp' = uplinkUp \cup {c}
    OBVIOUS
  <2> QED
    BY <1>0, <2>1, <2>2, <2>3 DEF IInv, UplinkExclusive
<1>4. SlotOwnership'
  <2>1. \A g \in Link :
          /\ g # g0 => parent'[g] = parent[g] /\ ident'[g] = ident[g]
          /\ "parent" \in tasks'[g] <=> "parent" \in tasks[g] \/ g = g0
    BY <1>0 DEF IInv, TypeOK
  <2>2. parent'[g0] = p /\ ident'[g0] = i
    BY <1>0 DEF IInv, TypeOK
  <2>3. \A n \in Node, j \in Ident :
          slot'[n][j] = IF n = p /\ j = i THEN g0 ELSE slot[n][j]
    BY DEF IInv, TypeOK
  <2>4. \A n \in Node, j \in Ident : slot[n][j] # g0
    BY <1>0 DEF IInv, SlotOwnership
  <2> QED
    BY <1>0, <2>1, <2>2, <2>3, <2>4 DEF IInv, SlotOwnership
<1>5. RegistryMutual'
  BY <1>0 DEF IInv, TypeOK, RegistryMutual, Ends
<1>6. TapOwnership'
  BY <1>0 DEF IInv, TypeOK, TapOwnership, UplinkExclusive, UplinkFree
<1>7. ShutTogether'
  <2>1. \A g \in Link : g # g0 =>
          /\ parent'[g] = parent[g]
          /\ child'[g] = child[g]
          /\ tasks'[g] = tasks[g]
    BY <1>0 DEF IInv, TypeOK
  <2>2. parent'[g0] = p /\ child'[g0] = c /\ tasks'[g0] = TasksOf(Kind[c])
    BY <1>0 DEF IInv, TypeOK
  <2> QED
    BY <1>0, <2>1, <2>2 DEF IInv, ShutTogether, Ends
<1> QED
  BY <1>1, <1>2, <1>3, <1>4, <1>5, <1>6, <1>7 DEF IInv

(* A connect_to that fails after it took a generation. *)
LEMMA ConnectFailsInv ==
  ASSUME IInv, NEW p \in Node, NEW c \in Node,
         ConnectNoSlot(p, c) \/ ConnectRollback(p, c)
  PROVE  IInv'
<1> USE DEF ConnectNoSlot, ConnectRollback, ConnectBegins, ends
<1>0. /\ nextGen' = nextGen + 1
      /\ nextGen \in Link
      /\ uplinkTap' = uplinkTap \/ uplinkTap' = [uplinkTap EXCEPT ![c] = NoLink]
      /\ UNCHANGED <<alive, parent, child, ident, slot, uplinkUp, registry, held,
                     closed, disconnected, tasks, downTap>>
  OBVIOUS
<1> HIDE DEF ConnectNoSlot, ConnectRollback, ConnectBegins
<1>1. TypeOK'
  <2>1. uplinkTap' \in [Node -> Link \cup {NoLink}]
    BY <1>0 DEF IInv, TypeOK
  <2> QED
    BY <1>0, <2>1 DEF IInv, TypeOK
<1>2. LinksWellFormed'
  BY <1>0 DEF IInv, TypeOK, LinksWellFormed, Created
<1>3. UplinkExclusive'
  BY <1>0 DEF IInv, UplinkExclusive
<1>4. SlotOwnership'
  BY <1>0 DEF IInv, SlotOwnership
<1>5. RegistryMutual'
  BY <1>0 DEF IInv, RegistryMutual, Created, Ends
<1>6. TapOwnership'
  <2>1. \A g \in Link : "child" \in tasks[g] => child[g] # c
    BY DEF IInv, UplinkExclusive, UplinkFree, ConnectNoSlot, ConnectRollback,
           ConnectBegins
  <2>2. \A n \in Node : \/ uplinkTap'[n] = uplinkTap[n]
                         \/ (n = c /\ uplinkTap'[n] = NoLink)
    <3>1. CASE uplinkTap' = uplinkTap
      BY <3>1
    <3>2. CASE uplinkTap' = [uplinkTap EXCEPT ![c] = NoLink]
      BY <3>2 DEF IInv, TypeOK
    <3> QED
      BY <1>0, <3>1, <3>2
  <2>3. \A n \in Node : n # c => uplinkTap'[n] = uplinkTap[n]
    BY <2>2
  <2>4. \A g \in downTap : "child" \in tasks[g] => uplinkTap'[child[g]] = g
    BY <2>1, <2>3 DEF IInv, TypeOK, TapOwnership, LinksWellFormed, Created
  <2> QED
    BY <1>0, <2>2, <2>4 DEF IInv, TapOwnership
<1>7. ShutTogether'
  BY <1>0 DEF IInv, ShutTogether, Created, Ends
<1> QED
  BY <1>1, <1>2, <1>3, <1>4, <1>5, <1>6, <1>7 DEF IInv

(* The return of a worker or helper preserves the inductive invariant. *)
LEMMA WorkerInv ==
  ASSUME IInv, NEW g \in Link,
         \/ ParentEnds(g)
         \/ ChildEnds(g)
         \/ \E t \in TxTask : TxEnds(g, t)
         \/ HelpersEnd(g)
  PROVE  IInv'
<1> USE DEF TaskReturns, ends, Created, Ends
<1>1. PICK t \in TaskName :
        /\ t # "watch"
        /\ t \in tasks[g]
        /\ tasks' = [tasks EXCEPT ![g] = @ \ {t}]
        /\ closed' = closed \cup {g}
        /\ slot' = IF t = "parent" THEN Deregistered(g) ELSE slot
        /\ uplinkUp' = IF t = "child" THEN uplinkUp \ {child[g]} ELSE uplinkUp
        /\ UNCHANGED <<alive, nextGen, parent, child, ident, registry, held,
                       disconnected, uplinkTap, downTap>>
  BY DEF ParentEnds, ChildEnds, TxEnds, HelpersEnd, TaskName, TxTask, IInv, TypeOK
<1>2. \A h \in Link : tasks'[h] = IF h = g THEN tasks[g] \ {t} ELSE tasks[h]
  BY <1>1 DEF IInv, TypeOK
<1>3. Created(g)
  BY <1>1 DEF IInv, LinksWellFormed
<1>4. TypeOK'
  BY <1>1 DEF IInv, TypeOK, Deregistered
<1>5. LinksWellFormed'
  BY <1>1, <1>2, <1>3 DEF IInv, LinksWellFormed
<1>6. UplinkExclusive'
  BY <1>1, <1>2 DEF IInv, UplinkExclusive
<1>7. SlotOwnership'
  <2>1. CASE t = "parent"
    <3>1. parent[g] \in Node /\ ident[g] \in Ident /\ slot[parent[g]][ident[g]] = g
      BY <1>1, <1>3, <2>1 DEF IInv, TypeOK, SlotOwnership, LinksWellFormed
    <3>2. \A n \in Node, i \in Ident :
            slot'[n][i] = IF n = parent[g] /\ i = ident[g] THEN NoLink ELSE slot[n][i]
      BY <1>1, <2>1, <3>1 DEF IInv, TypeOK, Deregistered
    <3> QED
      BY <1>1, <1>2, <2>1, <3>1, <3>2 DEF IInv, SlotOwnership
  <2>2. CASE t # "parent"
    BY <1>1, <1>2, <2>2 DEF IInv, SlotOwnership
  <2> QED
    BY <2>1, <2>2
<1>8. RegistryMutual'
  BY <1>1 DEF IInv, RegistryMutual
<1>9. TapOwnership'
  BY <1>1, <1>2 DEF IInv, TypeOK, TapOwnership
<1>10. ShutTogether'
  BY <1>1, <1>2 DEF IInv, ShutTogether
<1> QED
  BY <1>4, <1>5, <1>6, <1>7, <1>8, <1>9, <1>10 DEF IInv

(* What Disconnect needs and does, whatever calls it: S is a set of links, *)
(* reg is the registries, those of nodes being freed already taken.        *)
LEMMA DisconnectTypes ==
  ASSUME IInv, NEW S \in SUBSET Link, NEW reg \in [Node -> SUBSET Link],
         Disconnect(S, reg)
  PROVE  /\ registry' \in [Node -> SUBSET Link]
         /\ closed' \in SUBSET Link
         /\ disconnected' \in SUBSET Link
         /\ uplinkTap' \in [Node -> Link \cup {NoLink}]
         /\ downTap' \in SUBSET Link
BY DEF IInv, TypeOK, Disconnect, LeftIn, ReleasedTap

(* Disconnecting takes away the labels of the links it disconnects and     *)
(* leaves the others alone.                                                *)
LEMMA DisconnectTaps ==
  ASSUME IInv, NEW S \in SUBSET Link, NEW reg, Disconnect(S, reg),
         UNCHANGED ends,
         \A g \in Link : "child" \in tasks'[g] => "child" \in tasks[g]
  PROVE  TapOwnership'
<1> DEFINE live == S \ disconnected
<1>1. /\ disconnected' = disconnected \cup live
      /\ downTap' = downTap \ live
      /\ child' = child
  BY DEF Disconnect, ends
<1>2. \A n \in Node :
        uplinkTap'[n] = IF \E g \in live : child[g] = n /\ uplinkTap[n] = g
                        THEN NoLink ELSE uplinkTap[n]
  BY DEF Disconnect, ReleasedTap
<1>3. \A n \in Node : uplinkTap'[n] # NoLink =>
        uplinkTap'[n] = uplinkTap[n] /\ uplinkTap[n] \notin live
  BY <1>2 DEF IInv, TapOwnership
<1>4. \A g \in downTap' : "child" \in tasks'[g] => uplinkTap'[child[g]] = g
  <2> SUFFICES ASSUME NEW g \in downTap', "child" \in tasks'[g]
               PROVE  uplinkTap'[child[g]] = g
    OBVIOUS
  <2>1. g \in downTap /\ g \notin live /\ g \in Link /\ "child" \in tasks[g]
    BY <1>1 DEF IInv, TypeOK
  <2>2. child[g] \in Node
    BY <2>1 DEF IInv, LinksWellFormed
  <2> QED
    BY <1>2, <2>1, <2>2 DEF IInv, TapOwnership
<1> QED
  BY <1>1, <1>3, <1>4 DEF IInv, TapOwnership

(* WasmLink::disconnect, its Drop and the watcher preserve the invariant. *)
LEMMA HandleInv ==
  ASSUME IInv, NEW g \in Link, JsDisconnect(g) \/ FreeLink(g) \/ Watch(g)
  PROVE  IInv'
<1> USE DEF ends, Created, Ends
<1>1. CASE Watch(g) /\ ~Retained(g)
  <2>1. g \in disconnected /\ Created(g)
    BY <1>1 DEF Watch, TaskReturns, Retained, IInv, TypeOK, LinksWellFormed,
                ShutTogether
  <2>2. /\ tasks' = [tasks EXCEPT ![g] = @ \ {"watch"}]
        /\ UNCHANGED <<alive, nextGen, parent, child, ident, slot, uplinkUp,
                       registry, held, closed, disconnected, uplinkTap, downTap>>
    BY <1>1 DEF Watch, TaskReturns
  <2>3. \A h \in Link : tasks'[h] = IF h = g THEN tasks[g] \ {"watch"} ELSE tasks[h]
    BY <2>2 DEF IInv, TypeOK
  <2>4. TypeOK'
    BY <2>2 DEF IInv, TypeOK
  <2>5. LinksWellFormed' /\ UplinkExclusive'
    BY <2>2, <2>3 DEF IInv, LinksWellFormed, UplinkExclusive
  <2>6. SlotOwnership' /\ RegistryMutual' /\ TapOwnership'
    BY <2>2, <2>3 DEF IInv, TypeOK, SlotOwnership, RegistryMutual, TapOwnership
  <2>7. ShutTogether'
    BY <2>1, <2>2, <2>3 DEF IInv, ShutTogether
  <2> QED
    BY <2>4, <2>5, <2>6, <2>7 DEF IInv
<1>2. CASE JsDisconnect(g) \/ FreeLink(g) \/ (Watch(g) /\ Retained(g))
  <2>1. /\ Disconnect({g}, registry)
        /\ held' = held \/ held' = held \ {g}
        /\ tasks' = tasks \/ tasks' = [tasks EXCEPT ![g] = @ \ {"watch"}]
        /\ UNCHANGED <<alive, nextGen, parent, child, ident, slot, uplinkUp>>
    BY <1>2 DEF JsDisconnect, FreeLink, Watch, TaskReturns
  <2>2. /\ disconnected' = disconnected \cup {g}
        /\ closed' = closed \cup ({g} \ disconnected)
        /\ \A n \in Node : registry'[n] =
             registry[n] \ {h \in {g} \ disconnected : n \in Ends(h)}
    BY <2>1 DEF Disconnect, LeftIn
  <2>3. Created(g)
    BY <1>2, <2>1 DEF JsDisconnect, FreeLink, Watch, TaskReturns, IInv, LinksWellFormed
  <2>4. \A h \in Link :
          /\ tasks'[h] \subseteq tasks[h]
          /\ tasks[h] \subseteq tasks'[h] \cup {"watch"}
          /\ h # g => tasks'[h] = tasks[h]
    BY <2>1 DEF IInv, TypeOK
  <2>5. TypeOK'
    <3>1. registry \in [Node -> SUBSET Link] /\ {g} \in SUBSET Link
      BY DEF IInv, TypeOK
    <3>2. /\ registry' \in [Node -> SUBSET Link]
          /\ closed' \in SUBSET Link
          /\ disconnected' \in SUBSET Link
          /\ uplinkTap' \in [Node -> Link \cup {NoLink}]
          /\ downTap' \in SUBSET Link
      BY <2>1, <3>1, DisconnectTypes
    <3>3. tasks' \in [Link -> SUBSET TaskName]
      <4>1. tasks \in [Link -> SUBSET TaskName]
        BY DEF IInv, TypeOK
      <4>2. [tasks EXCEPT ![g] = @ \ {"watch"}] \in [Link -> SUBSET TaskName]
        BY <4>1
      <4> QED
        BY <2>1, <4>1, <4>2
    <3>4. held' \in SUBSET Link
      BY <2>1 DEF IInv, TypeOK
    <3> QED
      BY <2>1, <3>2, <3>3, <3>4 DEF IInv, TypeOK
  <2>6. LinksWellFormed'
    BY <2>1, <2>2, <2>3, <2>4 DEF IInv, LinksWellFormed, Disconnect
  <2>7. UplinkExclusive' /\ SlotOwnership'
    BY <2>1, <2>4 DEF IInv, UplinkExclusive, SlotOwnership
  <2>8. RegistryMutual'
    BY <2>1, <2>2, <2>3 DEF IInv, TypeOK, RegistryMutual
  <2>9. TapOwnership'
    BY <2>1, <2>4, DisconnectTaps
  <2>10. ShutTogether'
    BY <2>1, <2>2, <2>4 DEF IInv, ShutTogether
  <2> QED
    BY <2>5, <2>6, <2>7, <2>8, <2>9, <2>10 DEF IInv
<1> QED
  BY <1>1, <1>2

(* Freeing a node preserves the invariant. *)
LEMMA FreeNodeInv ==
  ASSUME IInv, NEW n \in Node, FreeNode(n)
  PROVE  IInv'
<1> USE DEF ends, Created, Ends
<1> DEFINE S == registry[n]
           reg == [registry EXCEPT ![n] = {}]
<1>1. /\ n \in alive
      /\ alive' = alive \ {n}
      /\ Disconnect(S, reg)
      /\ UNCHANGED <<nextGen, parent, child, ident, slot, uplinkUp, held, tasks>>
  BY DEF FreeNode
<1>2. S \in SUBSET Link /\ reg \in [Node -> SUBSET Link]
  BY DEF IInv, TypeOK
<1>3. \A g \in S : Created(g) /\ n \in Ends(g) /\ g \notin disconnected
  BY <1>2 DEF IInv, RegistryMutual
<1>4. /\ disconnected' = disconnected \cup S
      /\ closed' = closed \cup S
      /\ downTap' = downTap \ S
      /\ \A m \in Node : registry'[m] = reg[m] \ {g \in S : m \in Ends(g)}
  BY <1>1, <1>3 DEF Disconnect, LeftIn
<1>5. TypeOK'
  <2>1. /\ registry' \in [Node -> SUBSET Link]
        /\ closed' \in SUBSET Link
        /\ disconnected' \in SUBSET Link
        /\ uplinkTap' \in [Node -> Link \cup {NoLink}]
        /\ downTap' \in SUBSET Link
    BY <1>1, <1>2, DisconnectTypes
  <2> QED
    BY <1>1, <2>1 DEF IInv, TypeOK
<1>6. LinksWellFormed'
  BY <1>1, <1>3, <1>4 DEF IInv, LinksWellFormed
<1>7. UplinkExclusive' /\ SlotOwnership'
  BY <1>1 DEF IInv, UplinkExclusive, SlotOwnership
<1>8. RegistryMutual'
  <2>1. \A m \in Node, g \in Link :
          g \in registry'[m] <=> g \in registry[m] /\ g \notin S
    <3> SUFFICES ASSUME NEW m \in Node, NEW g \in Link
                 PROVE  g \in registry'[m] <=> g \in registry[m] /\ g \notin S
      OBVIOUS
    <3>1. g \in registry[m] => m \in Ends(g)
      BY DEF IInv, RegistryMutual
    <3>2. reg[m] = IF m = n THEN {} ELSE registry[m]
      BY DEF IInv, TypeOK
    <3> QED
      BY <1>4, <3>1, <3>2
  <2> QED
    BY <1>1, <1>4, <2>1 DEF IInv, TypeOK, RegistryMutual
<1>9. TapOwnership'
  BY <1>1, <1>2, DisconnectTaps
<1>10. ShutTogether'
  <2> SUFFICES ASSUME NEW g \in Link, Created(g), n \in Ends(g)
               PROVE  g \in disconnected'
    BY <1>1, <1>4 DEF IInv, ShutTogether
  <2>1. g \in S \/ g \in disconnected
    BY DEF IInv, RegistryMutual
  <2> QED
    BY <1>4, <2>1
<1> QED
  BY <1>5, <1>6, <1>7, <1>8, <1>9, <1>10 DEF IInv

-----------------------------------------------------------------------------
(* Every step preserves the inductive invariant. *)
LEMMA NextInv == IInv /\ [Next]_vars => IInv'
<1> SUFFICES ASSUME IInv, [Next]_vars PROVE IInv'
  OBVIOUS
<1>1. ASSUME NEW p \in Node, NEW c \in Node, NEW i \in Ident,
             NEW labelled \in BOOLEAN, Connect(p, c, i, labelled)
      PROVE  IInv'
  BY <1>1, ConnectInv
<1>2. ASSUME NEW p \in Node, NEW c \in Node,
             ConnectNoSlot(p, c) \/ ConnectRollback(p, c)
      PROVE  IInv'
  BY <1>2, ConnectFailsInv
<1>3. ASSUME NEW g \in Link, JsDisconnect(g) \/ FreeLink(g) \/ Watch(g)
      PROVE  IInv'
  BY <1>3, HandleInv
<1>4. ASSUME NEW n \in Node, FreeNode(n)
      PROVE  IInv'
  BY <1>4, FreeNodeInv
<1>5. ASSUME NEW g \in Link,
             \/ ParentEnds(g)
             \/ ChildEnds(g)
             \/ \E t \in TxTask : TxEnds(g, t)
             \/ HelpersEnd(g)
      PROVE  IInv'
  BY <1>5, WorkerInv
<1>6. CASE UNCHANGED vars
  BY <1>6 DEF IInv, vars, ends, TypeOK, LinksWellFormed, UplinkExclusive,
              SlotOwnership, RegistryMutual, TapOwnership, ShutTogether,
              Created, Ends
<1> QED
  BY <1>1, <1>2, <1>3, <1>4, <1>5, <1>6 DEF Next, JsNext, TaskNext

(* The inductive invariant holds in every reachable state. *)
LEMMA Inductive == Spec => []IInv
BY InitInv, NextInv, PTL DEF Spec

(* Every variable keeps its type, for every number of nodes and links. *)
THEOREM TypeCorrect == Spec => []TypeOK
<1>1. IInv => TypeOK
  BY DEF IInv
<1> QED
  BY <1>1, Inductive, PTL

(* The uplink of a node is up while exactly one link's worker runs on it,  *)
(* and interface slots neither leak nor are freed by a link they no longer *)
(* belong to, however disconnects, frees, failures and connections overlap.*)
THEOREM InterfacesAreOwned == Spec => []InterfacesOwned
<1>1. IInv => InterfacesOwned
  BY DEF IInv, InterfacesOwned
<1> QED
  BY <1>1, Inductive, PTL

(* A node's label is the one of its live link, whatever stale handles do. *)
THEOREM TapsAreOwned == Spec => []TapOwnership
<1>1. IInv => TapOwnership
  BY DEF IInv
<1> QED
  BY <1>1, Inductive, PTL

(* The registries of both ends and the disconnected flags agree, and a     *)
(* link that lost its handle, an end or its watcher is disconnected and    *)
(* its closer closed.                                                      *)
THEOREM LinksAreWhole == Spec => []LinksLeaveWhole
<1>1. IInv => LinksLeaveWhole
  BY DEF IInv, LinksLeaveWhole
<1> QED
  BY <1>1, Inductive, PTL
-----------------------------------------------------------------------------
(* A label leaves a node only with the disconnect of its own link or with  *)
(* a newer connection.                                                     *)
THEOREM TapsLeaveWithOwner == Spec => TapsReleasedByOwner
<1>1. IInv /\ [Next]_vars => [TapStepOK]_vars
  <2> SUFFICES ASSUME IInv, Next, nextGen' = nextGen
               PROVE  TapStepOK
    BY DEF TapStepOK
  <2>1. nextGen \in Nat
    BY DEF IInv, TypeOK
  <2>2. ASSUME NEW S, NEW reg, Disconnect(S, reg)
        PROVE  TapStepOK
    BY <2>2 DEF Disconnect, ReleasedTap, TapStepOK
  <2>3. CASE uplinkTap' = uplinkTap
    BY <2>3 DEF TapStepOK
  <2>4. CASE JsNext
    <3>1. ~ \E p, c \in Node : ConnectBegins(p, c)
      BY <2>1 DEF ConnectBegins
    <3>2. ~ \E p, c \in Node : \/ ConnectNoSlot(p, c)
                              \/ ConnectRollback(p, c)
                              \/ \E i \in Ident, labelled \in BOOLEAN :
                                   Connect(p, c, i, labelled)
      BY <3>1 DEF Connect, ConnectNoSlot, ConnectRollback
    <3>3. ASSUME NEW g \in Link, JsDisconnect(g) \/ FreeLink(g)
          PROVE  TapStepOK
      BY <2>2, <3>3 DEF JsDisconnect, FreeLink
    <3>4. ASSUME NEW n \in Node, FreeNode(n)
          PROVE  TapStepOK
      BY <2>2, <3>4 DEF FreeNode
    <3> QED
      BY <2>4, <3>2, <3>3, <3>4 DEF JsNext
  <2>5. ASSUME NEW g \in Link, TaskNext(g)
        PROVE  TapStepOK
    <3>1. uplinkTap' = uplinkTap \/ Disconnect({g}, registry)
      BY <2>5 DEF TaskNext, ParentEnds, ChildEnds, TxEnds, HelpersEnd, Watch
    <3> QED
      BY <2>2, <2>3, <3>1
  <2> QED
    BY <2>4, <2>5 DEF Next
<1> QED
  BY <1>1, Inductive, PTL DEF Spec, TapsReleasedByOwner

-----------------------------------------------------------------------------
(* UplinkHolder names the link whose worker runs. *)
HolderRuns ==
  /\ UplinkHolder \in [Node -> Link \cup {NoLink}]
  /\ \A n \in Node, g \in Link : UplinkHolder[n] = g <=> RunsUplink(g, n)

(* The uplink of a node has the holder whose worker runs on it. *)
LEMMA HolderIsWorker == IInv => HolderRuns
<1> SUFFICES ASSUME IInv, NEW n \in Node
             PROVE  /\ UplinkHolder[n] \in Link \cup {NoLink}
                    /\ \A g \in Link : UplinkHolder[n] = g <=> RunsUplink(g, n)
  BY DEF UplinkHolder, HolderRuns
<1>1. \A g, h \in Link : RunsUplink(g, n) /\ RunsUplink(h, n) => g = h
  BY DEF IInv, UplinkExclusive, RunsUplink
<1>2. CASE \E g \in Link : RunsUplink(g, n)
  BY <1>1, <1>2 DEF UplinkHolder
<1>3. CASE ~ \E g \in Link : RunsUplink(g, n)
  BY <1>3 DEF UplinkHolder
<1> QED
  BY <1>2, <1>3

(* A parent with a free interface holds fewer links than it has slots. *)
LEMMA FreeSlotLeavesRoom ==
  ASSUME IInv, NEW p \in Node, NEW i \in Ident, slot[p][i] = NoLink
  PROVE  Cardinality(SlotHolders[p]) < MaxInterfaces
<1> DEFINE S == SlotHolders[p]
           T == Ident \ {i}
           f == [g \in S |-> ident[g]]
<1>1. \A g \in S : /\ g \in Link
                   /\ ident[g] \in Ident
                   /\ slot[p][ident[g]] = g
  BY DEF SlotHolders, IInv, SlotOwnership, LinksWellFormed
<1>2. f \in Injection(S, T)
  BY <1>1 DEF Injection, IsInjective
<1>3. IsFiniteSet(Ident) /\ Cardinality(Ident) = MaxInterfaces
  <2>1. IsFiniteSet(1 .. MaxInterfaces)
        /\ Cardinality(1 .. MaxInterfaces) = IF 1 > MaxInterfaces THEN 0
                                             ELSE MaxInterfaces - 1 + 1
    BY FS_Interval
  <2> QED
    BY <2>1
<1>4. IsFiniteSet(T) /\ Cardinality(T) = MaxInterfaces - 1
  BY <1>3, FS_RemoveElement
<1>5. Cardinality(S) <= Cardinality(T)
  BY <1>2, <1>4, FS_Injection
<1>6. IsFiniteSet(S)
  BY <1>2, <1>4, FS_Injection
<1>7. Cardinality(S) \in Nat
  BY <1>6, FS_CardinalityType
<1> QED
  BY <1>4, <1>5, <1>7

(* A step that leaves the workers and the links alone at most shuts links. *)
LEMMA ShutStep ==
  ASSUME IInv, parent' = parent, child' = child, closed \subseteq closed',
         \A g \in Link : /\ "parent" \in tasks'[g] <=> "parent" \in tasks[g]
                         /\ "child" \in tasks'[g] <=> "child" \in tasks[g]
  PROVE  Contract!Shut
<1>1. OpenedLinks' = OpenedLinks
  BY DEF OpenedLinks, Created
<1>2. SlotHolders' = SlotHolders
  BY DEF SlotHolders
<1>3. \A g \in Link, n \in Node : RunsUplink(g, n)' <=> RunsUplink(g, n)
  BY DEF RunsUplink
<1>4. UplinkHolder' = UplinkHolder
  <2>1. \A n \in Node : (CHOOSE g \in Link : RunsUplink(g, n)')
                        = (CHOOSE g \in Link : RunsUplink(g, n))
    BY <1>3
  <2> QED
    BY <1>3, <2>1 DEF UplinkHolder
<1>5. ShutLinks \subseteq ShutLinks' /\ ShutLinks' \in SUBSET OpenedLinks
  BY DEF ShutLinks, OpenedLinks, Created
<1> QED
  BY <1>1, <1>2, <1>4, <1>5 DEF Contract!Shut

(* A new link opens a contract. *)
LEMMA OpenStep ==
  ASSUME IInv, IInv', NEW p \in Node, NEW c \in Node, NEW i \in Ident,
         NEW labelled \in BOOLEAN, Connect(p, c, i, labelled)
  PROVE  Contract!Open(nextGen, p, c)
<1> DEFINE g0 == nextGen
<1> USE DEF Created, ends
<1>1. /\ g0 \in Link
      /\ ~Created(g0)
      /\ "parent" \notin tasks[g0]
      /\ g0 \notin closed
      /\ closed' = closed
      /\ slot[p][i] = NoLink
      /\ c \notin uplinkUp
  BY DEF Connect, ConnectBegins, IInv, LinksWellFormed, UplinkFree
<1>2. \A g \in Link : g # g0 =>
        /\ parent'[g] = parent[g]
        /\ child'[g] = child[g]
        /\ tasks'[g] = tasks[g]
  BY DEF Connect, IInv, TypeOK
<1>3. /\ parent'[g0] = p
      /\ child'[g0] = c
      /\ {"parent", "child"} \subseteq tasks'[g0]
  BY <1>1 DEF Connect, IInv, TypeOK, TasksOf, TaskName, TxTask
<1>4. g0 \notin OpenedLinks /\ OpenedLinks' = OpenedLinks \cup {g0}
  BY <1>1, <1>2, <1>3 DEF OpenedLinks
<1>5. ShutLinks' = ShutLinks
  BY <1>1, <1>2 DEF ShutLinks
<1>6. \A n \in Node : SlotHolders'[n] = IF n = p THEN SlotHolders[n] \cup {g0}
                                                ELSE SlotHolders[n]
  BY <1>1, <1>2, <1>3 DEF SlotHolders
<1>7. SlotHolders' = [SlotHolders EXCEPT ![p] = @ \cup {g0}]
  <2>1. /\ SlotHolders' = [n \in Node |-> SlotHolders'[n]]
        /\ SlotHolders = [n \in Node |-> SlotHolders[n]]
    BY DEF SlotHolders
  <2> QED
    BY <1>6, <2>1
<1>8. \A g \in Link, n \in Node :
        RunsUplink(g, n)' <=> RunsUplink(g, n) \/ (g = g0 /\ n = c)
  BY <1>1, <1>2, <1>3 DEF RunsUplink, IInv, LinksWellFormed
<1>9. \A g \in Link : ~RunsUplink(g, c)
  BY <1>1 DEF RunsUplink, IInv, UplinkExclusive
<1>10. UplinkHolder[c] = NoLink
  BY <1>9, HolderIsWorker DEF HolderRuns
<1>11. /\ UplinkHolder' \in [Node -> Link \cup {NoLink}]
       /\ \A n \in Node, g \in Link :
            UplinkHolder'[n] = g <=> RunsUplink(g, n)'
  <2>1. HolderRuns'
    BY HolderIsWorker, PTL
  <2> QED
    BY <2>1 DEF HolderRuns
<1>12. UplinkHolder' = [UplinkHolder EXCEPT ![c] = g0]
  <2>1. \A n \in Node : UplinkHolder'[n] = IF n = c THEN g0 ELSE UplinkHolder[n]
    BY <1>1, <1>8, <1>11, HolderIsWorker DEF HolderRuns
  <2> QED
    BY <1>11, <2>1, HolderIsWorker DEF HolderRuns
<1>13. Contract!Cardinality(SlotHolders[p]) < MaxInterfaces
  <2>1. Cardinality(SlotHolders[p]) < MaxInterfaces
    BY <1>1, FreeSlotLeavesRoom
  <2>2. Contract!Cardinality(SlotHolders[p]) = Cardinality(SlotHolders[p])
    BY DEF Cardinality, Contract!Cardinality
  <2> QED
    BY <2>1, <2>2
<1> QED
  BY <1>4, <1>5, <1>7, <1>10, <1>12, <1>13 DEF Contract!Open

(* The return of a worker gives one resource of the contract back. *)
LEMMA ReturnStep ==
  ASSUME IInv, IInv', NEW g \in Link, ParentEnds(g) \/ ChildEnds(g)
  PROVE  \E n \in Node : Contract!ReturnSlot(g, n) \/ Contract!ReturnUplink(g, n)
<1> USE DEF Created, ends, TaskReturns
<1>1. /\ Created(g)
      /\ parent[g] \in Node
      /\ child[g] \in Node
  BY DEF ParentEnds, ChildEnds, IInv, TypeOK, LinksWellFormed
<1>2. /\ OpenedLinks' = OpenedLinks
      /\ g \in OpenedLinks
      /\ ShutLinks' = ShutLinks \cup {g}
  BY <1>1 DEF ParentEnds, ChildEnds, OpenedLinks, ShutLinks
<1>3. CASE ParentEnds(g)
  <2>1. /\ \A h \in Link : "parent" \in tasks'[h] <=> "parent" \in tasks[h] /\ h # g
        /\ \A h \in Link : "child" \in tasks'[h] <=> "child" \in tasks[h]
        /\ "parent" \in tasks[g]
        /\ parent' = parent
        /\ child' = child
    BY <1>3 DEF ParentEnds, IInv, TypeOK
  <2>2. g \in SlotHolders[parent[g]]
    BY <1>1, <2>1 DEF SlotHolders
  <2>3. SlotHolders' = [SlotHolders EXCEPT ![parent[g]] = @ \ {g}]
    BY <2>1 DEF SlotHolders
  <2>4. UplinkHolder' = UplinkHolder
    <3>1. \A n \in Node :
            /\ \A h \in Link : RunsUplink(h, n)' <=> RunsUplink(h, n)
            /\ (CHOOSE h \in Link : RunsUplink(h, n)')
               = (CHOOSE h \in Link : RunsUplink(h, n))
      BY <2>1 DEF RunsUplink
    <3> QED
      BY <3>1 DEF UplinkHolder
  <2> QED
    BY <1>1, <1>2, <2>2, <2>3, <2>4 DEF Contract!ReturnSlot
<1>4. CASE ChildEnds(g)
  <2>1. /\ \A h \in Link : "child" \in tasks'[h] <=> "child" \in tasks[h] /\ h # g
        /\ \A h \in Link : "parent" \in tasks'[h] <=> "parent" \in tasks[h]
        /\ "child" \in tasks[g]
        /\ parent' = parent
        /\ child' = child
    BY <1>4 DEF ChildEnds, IInv, TypeOK
  <2>2. SlotHolders' = SlotHolders
    BY <2>1 DEF SlotHolders
  <2>3. UplinkHolder[child[g]] = g
    BY <1>1, <2>1, HolderIsWorker DEF RunsUplink, HolderRuns
  <2>4. \A h \in Link, n \in Node : RunsUplink(h, n)' <=> RunsUplink(h, n) /\ h # g
    BY <2>1 DEF RunsUplink
  <2>5. /\ UplinkHolder' \in [Node -> Link \cup {NoLink}]
        /\ \A n \in Node, h \in Link :
             UplinkHolder'[n] = h <=> RunsUplink(h, n)'
    <3>1. HolderRuns'
      BY HolderIsWorker, PTL
    <3> QED
      BY <3>1 DEF HolderRuns
  <2>6. \A n \in Node :
          UplinkHolder'[n] = IF n = child[g] THEN NoLink ELSE UplinkHolder[n]
    BY <1>1, <2>1, <2>3, <2>4, <2>5, HolderIsWorker DEF RunsUplink, HolderRuns
  <2>7. UplinkHolder' = [UplinkHolder EXCEPT ![child[g]] = NoLink]
    BY <1>1, <2>5, <2>6, HolderIsWorker DEF HolderRuns
  <2> QED
    BY <1>1, <1>2, <2>2, <2>3, <2>7 DEF Contract!ReturnUplink
<1> QED
  BY <1>3, <1>4

(* The first state maps to the contract's first state. *)
LEMMA ContractInit == Init => Contract!Init
<1> SUFFICES ASSUME Init PROVE Contract!Init
  OBVIOUS
<1>1. OpenedLinks = {} /\ ShutLinks = {}
  BY DEF Init, OpenedLinks, ShutLinks, Created
<1>2. SlotHolders = [n \in Node |-> {}]
  BY DEF Init, SlotHolders
<1>3. \A g \in Link, n \in Node : ~RunsUplink(g, n)
  BY DEF Init, RunsUplink
<1>4. UplinkHolder = [n \in Node |-> NoLink]
  BY <1>3 DEF UplinkHolder
<1> QED
  BY <1>1, <1>2, <1>4 DEF Contract!Init

(* Every step maps to a step of the contract or to none. *)
LEMMA ContractStep ==
  IInv /\ IInv' /\ [Next]_vars => [Contract!Next]_(Contract!vars)
<1> SUFFICES ASSUME IInv, IInv', [Next]_vars
             PROVE  Contract!Next
  OBVIOUS
<1> USE DEF ends
<1>1. ASSUME NEW p \in Node, NEW c \in Node, NEW i \in Ident,
             NEW labelled \in BOOLEAN, Connect(p, c, i, labelled)
      PROVE  Contract!Next
  <2>1. nextGen \in Link
    BY <1>1 DEF Connect, ConnectBegins
  <2> QED
    BY <1>1, <2>1, OpenStep DEF Contract!Next
<1>2. ASSUME NEW g \in Link, ParentEnds(g) \/ ChildEnds(g)
      PROVE  Contract!Next
  BY <1>2, ReturnStep DEF Contract!Next
<1>3. ASSUME parent' = parent, child' = child, closed \subseteq closed',
             \A g \in Link : /\ "parent" \in tasks'[g] <=> "parent" \in tasks[g]
                             /\ "child" \in tasks'[g] <=> "child" \in tasks[g]
      PROVE  Contract!Next
  BY <1>3, ShutStep DEF Contract!Next
<1>4. ASSUME NEW p \in Node, NEW c \in Node,
             ConnectNoSlot(p, c) \/ ConnectRollback(p, c)
      PROVE  Contract!Next
  BY <1>3, <1>4 DEF ConnectNoSlot, ConnectRollback
<1>5. ASSUME NEW g \in Link, JsDisconnect(g) \/ FreeLink(g)
      PROVE  Contract!Next
  BY <1>3, <1>5 DEF JsDisconnect, FreeLink, Disconnect
<1>6. ASSUME NEW n \in Node, FreeNode(n)
      PROVE  Contract!Next
  BY <1>3, <1>6 DEF FreeNode, Disconnect
<1>7. ASSUME NEW g \in Link,
             HelpersEnd(g) \/ Watch(g) \/ \E t \in TxTask : TxEnds(g, t)
      PROVE  Contract!Next
  <2>1. /\ parent' = parent
        /\ child' = child
        /\ closed \subseteq closed'
    BY <1>7 DEF HelpersEnd, Watch, TxEnds, Disconnect
  <2>2. PICK t \in TaskName \ {"parent", "child"} :
          tasks' = [tasks EXCEPT ![g] = @ \ {t}]
    BY <1>7 DEF HelpersEnd, Watch, TxEnds, TaskReturns, TaskName, TxTask
  <2>3. \A h \in Link : /\ "parent" \in tasks'[h] <=> "parent" \in tasks[h]
                        /\ "child" \in tasks'[h] <=> "child" \in tasks[h]
    BY <2>2 DEF IInv, TypeOK
  <2> QED
    BY <1>3, <2>1, <2>3
<1>8. CASE UNCHANGED vars
  BY <1>3, <1>8 DEF vars
<1> QED
  BY <1>1, <1>2, <1>4, <1>5, <1>6, <1>7, <1>8 DEF Next, JsNext, TaskNext

(* The safety part of the contract, for every number of nodes and links. *)
THEOREM KeepsContract == Spec => Contract!Init /\ [][Contract!Next]_(Contract!vars)
BY ContractInit, ContractStep, Inductive, PTL DEF Spec
=============================================================================
