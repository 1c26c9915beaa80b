---------------------------- MODULE LeaseProofs ----------------------------
(***************************************************************************)
(* For any number of devices and addresses and any times that satisfy the  *)
(* margin: a lease outlives the use of its address, so no two devices of a *)
(* bus use the same one.  The invariant that carries it adds to the bound  *)
(* LeaseOutlivesUse what a reply on its way still promises.                *)
(***************************************************************************)
EXTENDS Lease, TLAPS

Phase == {"off", "pause", "ask", "wait", "refresh"}
Holding == {"wait", "refresh"}

(* A task that is not refreshing or waiting to uses no address.            *)
NameOnlyLeased(t) == kind = "claim" /\ phase[t] \notin Holding => name[t] = NoName

(* A request is never older than its timeout, and what it was granted is   *)
(* as good as new but for the age of the request.                          *)
GrantFresh(t) ==
  phase[t] \in {"ask", "refresh"} =>
    /\ timer[t] <= RequestTime
    /\ phase[t] = "refresh" /\ mail[t] \in Name => mail[t] = name[t]
    /\ kind = "claim" /\ ~replaced /\ mail[t] \in Name =>
         /\ holder[mail[t]] = t
         /\ Expires - RequestTime + timer[t] <= left[mail[t]]

(* LeaseOutlivesUse for one task.                                          *)
Outlives(t) ==
  kind = "claim" /\ ~replaced /\ phase[t] \in Holding =>
    holder[name[t]] = t /\ Due(t) < left[name[t]]

Safe(t) == NameOnlyLeased(t) /\ GrantFresh(t) /\ Outlives(t)

LeaseInv == TypeOK /\ \A t \in Task : Safe(t)

-----------------------------------------------------------------------------
(* The time at risk falls by one refresh and one retry with each failure.  *)
LEMMA RiskSteps ==
  ASSUME NEW f \in 0..(MaxFailures - 1)
  PROVE  /\ Risk(f) \in Nat /\ RequestTime <= Risk(f)
         /\ Risk(0) \in Nat /\ RefreshDelay + Risk(0) < Expires - RequestTime
         /\ f + 1 < MaxFailures =>
              Risk(f + 1) \in Nat /\ RetryDelay + Risk(f + 1) = Risk(f) - RequestTime
<1> USE TimeAssumption DEF Risk
<1>1. DEFINE n == MaxFailures - 1 - f
<1>2. n \in Nat /\ MaxFailures - f = n + 1
  OBVIOUS
<1>3. (n + 1) * RequestTime = n * RequestTime + RequestTime
  BY <1>2
<1>4. n * RequestTime \in Nat /\ n * RetryDelay \in Nat
  BY <1>2
<1>5. Risk(f) = n * RequestTime + RequestTime + n * RetryDelay
  BY <1>2, <1>3
<1>6. Risk(f) \in Nat /\ RequestTime <= Risk(f)
  BY <1>4, <1>5
<1>7. Risk(0) \in Nat /\ RefreshDelay + Risk(0) < Expires - RequestTime
  <2>1. MaxFailures * RequestTime \in Nat /\ (MaxFailures - 1) * RetryDelay \in Nat
    OBVIOUS
  <2>2. Risk(0) = MaxFailures * RequestTime + (MaxFailures - 1) * RetryDelay
    OBVIOUS
  <2> QED  BY <2>1, <2>2, MarginAssumption
<1>8. ASSUME f + 1 < MaxFailures
      PROVE  Risk(f + 1) \in Nat /\ RetryDelay + Risk(f + 1) = Risk(f) - RequestTime
  <2>1. n - 1 \in Nat /\ MaxFailures - (f + 1) = n /\ MaxFailures - 1 - (f + 1) = n - 1
    BY <1>2, <1>8
  <2>2. Risk(f + 1) = n * RequestTime + (n - 1) * RetryDelay
    BY <2>1
  <2>3. n * RetryDelay = (n - 1) * RetryDelay + RetryDelay
    BY <2>1, <1>2
  <2>4. (n - 1) * RetryDelay \in Nat
    BY <2>1
  <2> QED  BY <1>4, <1>5, <2>2, <2>3, <2>4
<1> QED  BY <1>6, <1>7, <1>8
-----------------------------------------------------------------------------
(* The types: every action leaves the values where they belong, a task that *)
(* holds a lease with a name and a task without a request without mail.    *)

acts(t) ==
  \/ Start(t) \/ PauseOver(t) \/ AskGranted(t) \/ AskRefused(t)
  \/ AskTimesOut(t) \/ WaitOver(t) \/ RefreshGranted(t)
  \/ RefreshFails(t) \/ Ends(t)

LEMMA TypeInit == Init => TypeOK
<1> SUFFICES ASSUME Init  PROVE TypeOK
  OBVIOUS
<1>1. 0 \in 0..(MaxFailures - 1) /\ 0 \in 0..Expires
  BY TimeAssumption
<1>2. /\ failures \in [Task -> 0..(MaxFailures - 1)] /\ left \in [Name -> 0..Expires]
      /\ timer \in [Task -> Nat]
  BY <1>1 DEF Init
<1> QED  BY <1>2 DEF Init, TypeOK

LEMMA TypeTurn ==
  ASSUME TypeOK, NEW t \in Task, acts(t)
  PROVE  TypeOK'
<1> USE TimeAssumption, NameAssumption DEF TypeOK, table, uplink, Sleeps, Requests, Goes
<1>1. CASE Start(t)
  BY <1>1 DEF Start
<1>2. CASE PauseOver(t)
  BY <1>2 DEF PauseOver
<1>3. CASE AskGranted(t)
  BY <1>3 DEF AskGranted
<1>4. CASE AskRefused(t)
  BY <1>4 DEF AskRefused
<1>5. CASE AskTimesOut(t)
  BY <1>5 DEF AskTimesOut
<1>6. CASE WaitOver(t)
  BY <1>6 DEF WaitOver
<1>7. CASE RefreshGranted(t)
  BY <1>7 DEF RefreshGranted
<1>8. CASE RefreshFails(t)
  BY <1>8 DEF RefreshFails, GivenUp, NameWithout
<1>9. CASE Ends(t)
  BY <1>9 DEF Ends
<1> QED  BY <1>1, <1>2, <1>3, <1>4, <1>5, <1>6, <1>7, <1>8, <1>9 DEF acts

LEMMA TypeStep == TypeOK /\ [Next]_vars => TypeOK'
<1> SUFFICES ASSUME TypeOK, [Next]_vars  PROVE TypeOK'
  OBVIOUS
<1> USE TimeAssumption, NameAssumption DEF TypeOK, task, table, uplink
<1>1. ASSUME NEW t \in Task, acts(t)  PROVE TypeOK'
  BY <1>1, TypeTurn
<1>2. ASSUME NEW t \in Task, Close(t)  PROVE TypeOK'
  BY <1>2 DEF Close
<1>3. ASSUME NEW t \in Task, Answers(t)  PROVE TypeOK'
  BY <1>3, MarginAssumption DEF Answers, Lets, Free
<1>4. ASSUME NEW t \in Task, Loses(t)  PROVE TypeOK'
  BY <1>4 DEF Loses
<1>5. CASE RouterReplaced
  BY <1>5 DEF RouterReplaced
<1>6. CASE Stabilises
  BY <1>6 DEF Stabilises
<1>7. CASE Tick
  BY <1>7 DEF Tick, Later
<1>8. CASE UNCHANGED vars
  BY <1>8 DEF vars
<1> QED  BY <1>1, <1>2, <1>3, <1>4, <1>5, <1>6, <1>7, <1>8 DEF Next, acts

(* The values of the state have the right kind (module Lease, TypeOK).     *)
THEOREM LeaseTypes == Spec => []TypeOK
  BY TypeInit, TypeStep, PTL DEF Spec
-----------------------------------------------------------------------------
(* The bound.                                                              *)

LEMMA SafeInit == Init => \A t \in Task : Safe(t)
  BY DEF Init, Safe, NameOnlyLeased, GrantFresh, Outlives, Holding

(* A turn of one task leaves what is safe about another.                   *)
LEMMA SafeOther ==
  ASSUME LeaseInv, NEW u \in Task, acts(u), NEW t \in Task, t # u
  PROVE  Safe(t)'
<1>1. /\ UNCHANGED <<kind, replaced, holder, left>>
      /\ phase'[t] = phase[t] /\ timer'[t] = timer[t] /\ name'[t] = name[t]
      /\ failures'[t] = failures[t] /\ mail'[t] = mail[t]
  BY DEF acts, Start, PauseOver, AskGranted, AskRefused, AskTimesOut, WaitOver,
         RefreshGranted, RefreshFails, Ends, Requests, Sleeps, Goes, LeaseInv,
         TypeOK, table, uplink
<1> QED
  BY <1>1 DEF LeaseInv, Safe, NameOnlyLeased, GrantFresh, Outlives, Due, Risk, Holding

(* What a turn does to the task itself.                                    *)
LEMMA SafeTurn ==
  ASSUME LeaseInv, NEW t \in Task, acts(t), TypeOK'
  PROVE  Safe(t)'
<1> USE TimeAssumption, NameAssumption
    DEF Sleeps, Requests, Goes, table, uplink, Holding, Safe
<1>0. /\ TypeOK /\ Safe(t) /\ UNCHANGED <<kind, replaced, holder, left>>
      /\ failures[t] \in 0..(MaxFailures - 1) /\ timer[t] \in Nat
  BY DEF LeaseInv, TypeOK, acts, Start, PauseOver, AskGranted, AskRefused,
         AskTimesOut, WaitOver, RefreshGranted, RefreshFails, Ends
<1>1. CASE Start(t) \/ PauseOver(t) \/ AskTimesOut(t) \/ AskRefused(t)
  BY <1>0, <1>1 DEF Start, PauseOver, AskTimesOut, AskRefused, TypeOK,
     NameOnlyLeased, GrantFresh, Outlives
<1>2. CASE AskGranted(t)
  <2>1. /\ phase'[t] = "wait" /\ timer'[t] = RefreshDelay /\ failures'[t] = 0
        /\ name'[t] = mail[t] /\ mail[t] \in Name /\ phase[t] = "ask"
    BY <1>0, <1>2 DEF AskGranted, TypeOK
  <2>2. Due(t)' = RefreshDelay + Risk(0)
    BY <2>1 DEF Due, Risk
  <2>3. kind = "claim" /\ ~replaced =>
          holder[mail[t]] = t /\ Expires - RequestTime <= left[mail[t]]
    BY <1>0, <2>1 DEF GrantFresh, TypeOK
  <2>4. left[mail[t]] \in Nat
    BY <1>0, <2>1 DEF TypeOK
  <2> QED
    BY <1>0, <2>1, <2>2, <2>3, <2>4, RiskSteps DEF NameOnlyLeased, GrantFresh, Outlives
<1>3. CASE WaitOver(t)
  <2>1. /\ phase'[t] = "refresh" /\ timer'[t] = RequestTime /\ mail'[t] = "sent"
        /\ failures'[t] = failures[t] /\ name'[t] = name[t]
        /\ phase[t] = "wait" /\ timer[t] = 0
    BY <1>0, <1>3 DEF WaitOver, TypeOK
  <2>2. Due(t)' = Due(t)
    BY <1>0, <2>1, RiskSteps DEF Due, Risk
  <2> QED
    BY <1>0, <2>1, <2>2 DEF NameOnlyLeased, GrantFresh, Outlives
<1>4. CASE RefreshGranted(t)
  <2>1. /\ phase'[t] = "wait" /\ timer'[t] = RefreshDelay /\ failures'[t] = 0
        /\ name'[t] = name[t] /\ mail[t] \in Name /\ phase[t] = "refresh"
    BY <1>0, <1>4 DEF RefreshGranted, TypeOK
  <2>2. Due(t)' = RefreshDelay + Risk(0)
    BY <2>1 DEF Due, Risk
  <2>3. mail[t] = name[t] /\ left[name[t]] \in Nat
    BY <1>0, <2>1 DEF GrantFresh, TypeOK
  <2>4. kind = "claim" /\ ~replaced =>
          holder[name[t]] = t /\ Expires - RequestTime <= left[name[t]]
    BY <1>0, <2>1, <2>3 DEF GrantFresh, TypeOK
  <2> QED
    BY <1>0, <2>1, <2>2, <2>3, <2>4, RiskSteps DEF NameOnlyLeased, GrantFresh, Outlives
<1>5. CASE RefreshFails(t)
  <2>1. CASE GivenUp(failures[t] + 1)
    BY <1>0, <1>5, <2>1 DEF RefreshFails, NameWithout, TypeOK, NameOnlyLeased,
       GrantFresh, Outlives
  <2>2. CASE ~GivenUp(failures[t] + 1)
    <3>1. /\ phase'[t] = "wait" /\ timer'[t] = RetryDelay /\ name'[t] = name[t]
          /\ failures'[t] = failures[t] + 1 /\ failures[t] + 1 < MaxFailures
          /\ phase[t] = "refresh"
      BY <1>0, <1>5, <2>2 DEF RefreshFails, GivenUp, TypeOK
    <3>2. Due(t)' = RetryDelay + Risk(failures[t] + 1)
      BY <3>1 DEF Due, Risk
    <3>3. Due(t) = timer[t] + Risk(failures[t]) - RequestTime
      BY <3>1, <1>0, RiskSteps DEF Due
    <3>4. Due(t)' \in Int /\ Due(t) \in Int /\ Due(t)' <= Due(t)
      BY <1>0, <3>1, <3>2, <3>3, RiskSteps
    <3>5. left[name[t]] \in Nat
      BY <1>0, <3>1 DEF TypeOK
    <3> QED
      BY <1>0, <3>1, <3>4, <3>5 DEF NameOnlyLeased, GrantFresh, Outlives
  <2> QED  BY <2>1, <2>2
<1>6. CASE Ends(t)
  BY <1>0, <1>6 DEF Ends, TypeOK, NameOnlyLeased, GrantFresh, Outlives
<1> QED  BY <1>1, <1>2, <1>3, <1>4, <1>5, <1>6 DEF acts

(* The router gives out no name that is held for another.                  *)
LEMMA SafeAnswers ==
  ASSUME LeaseInv, NEW u \in Task, Answers(u), NEW t \in Task
  PROVE  Safe(t)'
<1> USE TimeAssumption, NameAssumption DEF Answers, Lets, Free, Holding, task, uplink
<1>0. /\ TypeOK /\ Safe(t)
      /\ UNCHANGED <<kind, replaced, phase, timer, name, failures>>
      /\ timer[t] \in Nat /\ failures[t] \in 0..(MaxFailures - 1)
  BY DEF LeaseInv, TypeOK
<1>1. NameOnlyLeased(t)'
  BY <1>0 DEF Safe, NameOnlyLeased
<1>2. Due(t)' = Due(t)
  BY <1>0 DEF Due, Risk
<1>3. ASSUME NEW a \in Name, holder[a] = t
      PROVE  holder'[a] = t /\ left[a] <= left'[a]
  BY <1>0, <1>3, MarginAssumption DEF TypeOK
<1>4. Outlives(t)'
  <2>1. SUFFICES ASSUME kind = "claim", ~replaced, phase[t] \in Holding
                 PROVE  holder'[name[t]] = t /\ Due(t) < left'[name[t]]
    BY <1>0, <1>2 DEF Outlives
  <2>2. name[t] \in Name /\ holder[name[t]] = t /\ Due(t) < left[name[t]]
    BY <1>0, <2>1 DEF Safe, Outlives, TypeOK
  <2>3. left[name[t]] \in Nat /\ Due(t) \in Int
    BY <1>0, <2>2, RiskSteps DEF TypeOK, Due
  <2>4. left'[name[t]] \in Nat
    BY <1>0, <2>2, <2>3 DEF TypeOK
  <2> QED  BY <1>3, <2>2, <2>3, <2>4
<1>5. GrantFresh(t)'
  <2>1. SUFFICES ASSUME phase[t] \in {"ask", "refresh"}
                 PROVE  GrantFresh(t)'
    BY <1>0 DEF GrantFresh
  <2>2. timer[t] <= RequestTime
    BY <1>0, <2>1 DEF Safe, GrantFresh
  <2>3. CASE mail'[t] = mail[t]
    <3>1. ASSUME mail[t] \in Name, kind = "claim", ~replaced
          PROVE  /\ holder'[mail[t]] = t
                 /\ Expires - RequestTime + timer[t] <= left'[mail[t]]
      <4>1. /\ holder[mail[t]] = t
            /\ Expires - RequestTime + timer[t] <= left[mail[t]]
        BY <1>0, <2>1, <3>1 DEF Safe, GrantFresh
      <4>2. left[mail[t]] \in Nat /\ left'[mail[t]] \in Nat
        BY <1>0, <3>1 DEF TypeOK
      <4> QED  BY <1>0, <1>3, <3>1, <4>1, <4>2
    <3> QED  BY <1>0, <2>1, <2>2, <2>3, <3>1 DEF Safe, GrantFresh
  <2>4. CASE mail'[t] # mail[t]
    <3>1. t = u
      BY <1>0, <2>4 DEF TypeOK
    <3>2. mail'[t] \in Name =>
            /\ holder'[mail'[t]] = t /\ left'[mail'[t]] = Expires
            /\ phase[t] = "refresh" => mail'[t] = name[t]
      BY <1>0, <2>1, <3>1 DEF TypeOK
    <3> QED  BY <1>0, <2>1, <2>2, <3>2 DEF GrantFresh
  <2> QED  BY <2>3, <2>4
<1> QED  BY <1>1, <1>4, <1>5 DEF Safe

(* A tick takes one from what is left and one from what is due.            *)
LEMMA SafeTick ==
  ASSUME LeaseInv, Tick, NEW t \in Task
  PROVE  Safe(t)'
<1> USE TimeAssumption, NameAssumption DEF Tick, Later, Holding
<1>0. /\ TypeOK /\ Safe(t)
      /\ UNCHANGED <<kind, replaced, phase, name, failures, mail>>
      /\ timer[t] \in Nat /\ failures[t] \in 0..(MaxFailures - 1)
  BY DEF LeaseInv, TypeOK
<1>1. NameOnlyLeased(t)'
  BY <1>0 DEF Safe, NameOnlyLeased
<1>2. phase[t] # "off" => timer[t] > 0 /\ timer'[t] = timer[t] - 1
  BY <1>0 DEF Running
<1>3. ASSUME NEW a \in Name, left[a] > 1
      PROVE  holder'[a] = holder[a] /\ left'[a] = left[a] - 1
  BY <1>0, <1>3 DEF TypeOK
<1>4. Outlives(t)'
  <2>1. SUFFICES ASSUME kind = "claim", ~replaced, phase[t] \in Holding
                 PROVE  holder'[name[t]] = t /\ Due(t)' < left'[name[t]]
    BY <1>0 DEF Outlives
  <2>2. name[t] \in Name /\ holder[name[t]] = t /\ Due(t) < left[name[t]]
    BY <1>0, <2>1 DEF Safe, Outlives, TypeOK
  <2>3. left[name[t]] \in Nat /\ Due(t) \in Int /\ Due(t) > 0
    BY <1>0, <1>2, <2>1, <2>2, RiskSteps DEF TypeOK, Due
  <2>4. Due(t)' = Due(t) - 1
    BY <1>0, <1>2, <2>1, RiskSteps DEF Due, Risk
  <2> QED  BY <1>3, <2>2, <2>3, <2>4
<1>5. GrantFresh(t)'
  <2>1. SUFFICES ASSUME phase[t] \in {"ask", "refresh"}
                 PROVE  GrantFresh(t)'
    BY <1>0 DEF GrantFresh
  <2>2. timer'[t] = timer[t] - 1 /\ timer[t] > 0 /\ timer[t] <= RequestTime
    BY <1>0, <1>2, <2>1 DEF Safe, GrantFresh
  <2>3. ASSUME mail[t] \in Name, kind = "claim", ~replaced
        PROVE  /\ holder'[mail[t]] = t
               /\ Expires - RequestTime + timer'[t] <= left'[mail[t]]
    <3>1. /\ holder[mail[t]] = t
          /\ Expires - RequestTime + timer[t] <= left[mail[t]]
      BY <1>0, <2>1, <2>3 DEF Safe, GrantFresh
    <3>2. left[mail[t]] \in Nat /\ 0 \in 0..(MaxFailures - 1)
      BY <1>0, <2>3 DEF TypeOK
    <3>3. Risk(0) \in Nat /\ RefreshDelay + Risk(0) < Expires - RequestTime
      BY <3>2, RiskSteps
    <3>4. left[mail[t]] > 1
      BY <1>0, <2>2, <3>1, <3>2, <3>3
    <3> QED  BY <1>0, <1>3, <2>2, <2>3, <3>1, <3>2, <3>4
  <2> QED  BY <1>0, <2>1, <2>2, <2>3 DEF Safe, GrantFresh
<1> QED  BY <1>1, <1>4, <1>5 DEF Safe

LEMMA LeaseStep == LeaseInv /\ [Next]_vars => LeaseInv'
<1> SUFFICES ASSUME LeaseInv, [Next]_vars, NEW t \in Task
             PROVE  Safe(t)'
  BY TypeStep DEF LeaseInv
<1> USE DEF Safe, NameOnlyLeased, GrantFresh, Outlives, Due, Risk, task, table, uplink
<1>1. TypeOK' /\ Safe(t) /\ TypeOK
  BY TypeStep DEF LeaseInv
<1>2. ASSUME NEW u \in Task, acts(u)  PROVE Safe(t)'
  BY <1>1, <1>2, SafeOther, SafeTurn
<1>3. ASSUME NEW u \in Task, Close(u)  PROVE Safe(t)'
  BY <1>1, <1>3 DEF Close
<1>4. ASSUME NEW u \in Task, Answers(u)  PROVE Safe(t)'
  BY <1>4, SafeAnswers
<1>5. ASSUME NEW u \in Task, Loses(u)  PROVE Safe(t)'
  <2>1. mail'[t] \in Name => mail'[t] = mail[t]
    BY <1>1, <1>5, NameAssumption DEF Loses, TypeOK
  <2> QED  BY <1>1, <1>5, <2>1 DEF Loses
<1>6. CASE RouterReplaced
  BY <1>1, <1>6 DEF RouterReplaced
<1>7. CASE Stabilises
  BY <1>1, <1>7 DEF Stabilises
<1>8. CASE Tick
  BY <1>8, SafeTick
<1>9. CASE UNCHANGED vars
  BY <1>1, <1>9 DEF vars
<1> QED  BY <1>2, <1>3, <1>4, <1>5, <1>6, <1>7, <1>8, <1>9 DEF Next, acts

THEOREM LeaseHolds == Spec => []LeaseInv
  BY TypeInit, SafeInit, LeaseStep, PTL DEF Spec, LeaseInv

(* A device gives its address up, after its last failed refresh, before    *)
(* the lease runs out in the router's table (spawn_bus_claim).             *)
THEOREM LeaseOutlives == Spec => []LeaseOutlivesUse
<1>1. LeaseInv => LeaseOutlivesUse
  BY DEF LeaseInv, Safe, Outlives, LeaseOutlivesUse, Holding
<1> QED  BY <1>1, LeaseHolds, PTL

(* Two devices never use the same address of a bus, however requests and   *)
(* replies are lost, as long as the router that leased them stays.         *)
THEOREM AddressesExclusive == Spec => []NamesExclusive
<1>1. LeaseInv => NamesExclusive
  <2> SUFFICES ASSUME LeaseInv, kind = "claim", ~replaced,
                      NEW t \in Task, NEW u \in Task, NEW a \in Name,
                      Uses(t, a), Uses(u, a)
               PROVE  t = u
    BY DEF NamesExclusive
  <2>1. phase[t] \in Holding /\ phase[u] \in Holding
    BY NameAssumption DEF LeaseInv, Safe, NameOnlyLeased, Uses
  <2>2. holder[a] = t /\ holder[a] = u
    BY <2>1 DEF LeaseInv, Safe, Outlives, Uses
  <2> QED  BY <2>2
<1> QED  BY <1>1, LeaseHolds, PTL
=============================================================================
