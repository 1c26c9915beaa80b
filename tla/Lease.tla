------------------------------- MODULE Lease -------------------------------
(***************************************************************************)
(* The tasks that keep a lease alive: that of a bus device for its address *)
(* (wasm/src/node/bus.rs, spawn_bus_claim; kind "claim") and that of a     *)
(* bridge downlink for its net (wasm/src/node/seed.rs, spawn_seed_assign;  *)
(* kind "seed"), which waits for the bridge's uplink to know its own net   *)
(* (module Heartbeat).                                                     *)
(*                                                                         *)
(* External are the router's table, the requests it answers (a claim takes *)
(* a free name or one the task holds already; a refresh is refused when    *)
(* the lease is gone) and the time after which a seed's request gives up.  *)
(* Requests and replies may be lost or late while the network is faulty;   *)
(* one that is later than its timeout changes no more than a lost reply.   *)
(* Time passes in ticks, one heartbeat each; a timer that has run out      *)
(* fires before the next tick.  The growing pause of a seed's retries and  *)
(* its warm-up ping are parts of PauseTime and RefreshDelay.               *)
(***************************************************************************)
EXTENDS Integers

CONSTANTS Device,         \* the devices of a bus
          Downlink,       \* the downlinks of a bridge
          Nobody,
          Name,           \* addresses on the bus, or nets
          NoName,         \* net 0
          Missed,         \* LIVENESS_TIMEOUT in heartbeats
          RequestTime,    \* CLAIM_TIMEOUT
          PauseTime,      \* 250 ms after a refused claim, or FIRST_RETRY
          RefreshDelay,   \* expires - min_refresh, at least one second
          RetryDelay,     \* 2 seconds, after a refresh failed
          Expires,        \* the life of a lease in the router's table
          MaxFailures     \* 3

Task == Device \cup Downlink

ASSUME NameAssumption ==
  /\ NoName \notin Name /\ Nobody \notin Task
  /\ {"none", "sent", "refused", "ask"} \cap (Name \cup {NoName}) = {}
ASSUME TimeAssumption ==
  /\ Missed \in Nat \ {0}
  /\ RequestTime \in Nat \ {0} /\ PauseTime \in Nat \ {0}
  /\ RefreshDelay \in Nat \ {0} /\ RetryDelay \in Nat \ {0}
  /\ MaxFailures \in Nat \ {0} /\ Expires \in Nat

(* The library grants leases that outlive their last refresh: min_refresh  *)
(* exceeds the time four requests and two retries take.                    *)
ASSUME MarginAssumption ==
  RequestTime + RefreshDelay + MaxFailures * RequestTime
    + (MaxFailures - 1) * RetryDelay < Expires

VARIABLES kind,      \* "claim" or "seed": whose tasks these are
          phase,     \* where each task is
          timer,     \* the ticks until its sleep or its request ends
          failures,  \* the refreshes that failed in a row
          name,      \* the name its interface uses
          closed,    \* the tasks whose closer is closed
          mail,      \* what became of the request it waits for: none (lost),
                     \* sent, refused, or the name granted
          holder,    \* the task that holds each name in the router's table
          left,      \* the ticks until that lease expires
          faulty,    \* the network may still fail
          replaced,  \* the router was replaced by one with an empty table
          up, down, quietUp, quietDown   \* the bridge's uplink

uplink == <<up, down, quietUp, quietDown>>
task == <<phase, timer, failures, name>>
table == <<holder, left, replaced>>
vars == <<kind, task, closed, mail, table, faulty, uplink>>

Uplink == INSTANCE Heartbeat

Running == {t \in Task : phase[t] # "off"}
Uses(t, a) == name[t] = a /\ t \notin closed

Init ==
  /\ kind \in {"claim", "seed"}
  /\ phase = [t \in Task |-> "off"]
  /\ timer = [t \in Task |-> 0] /\ failures = [t \in Task |-> 0]
  /\ name = [t \in Task |-> NoName] /\ closed = {}
  /\ mail = [t \in Task |-> "none"]
  /\ holder = [a \in Name |-> Nobody] /\ left = [a \in Name |-> 0]
  /\ faulty = TRUE /\ replaced = FALSE
  /\ Uplink!Init

-----------------------------------------------------------------------------
(* The task: one action per turn.                                          *)

Goes(t, p, time) ==
  /\ phase' = [phase EXCEPT ![t] = p]
  /\ timer' = [timer EXCEPT ![t] = time]

(* A request starts: the answer it waits for is the one to this request.   *)
Requests(t, p) == Goes(t, p, RequestTime) /\ mail' = [mail EXCEPT ![t] = "sent"]
Sleeps(t, p, time) == Goes(t, p, time) /\ mail' = [mail EXCEPT ![t] = "none"]

Start(t) ==
  /\ phase[t] = "off" /\ t \notin closed
  /\ t \in (IF kind = "claim" THEN Device ELSE Downlink)
  /\ IF kind = "claim" THEN Requests(t, "ask") ELSE Sleeps(t, "pause", PauseTime)
  /\ UNCHANGED <<kind, failures, name, closed, table, faulty, uplink>>

(* closed_within ran out.  A seed asks only once the uplink knows its net; *)
(* net 0 is not enough.                                                    *)
PauseOver(t) ==
  /\ phase[t] = "pause" /\ timer[t] = 0
  /\ IF kind = "claim" \/ up = "net" THEN Requests(t, "ask")
     ELSE Sleeps(t, "pause", PauseTime)
  /\ UNCHANGED <<kind, failures, name, closed, table, faulty, uplink>>

(* The lease is granted: the interface takes the name, the wait begins.    *)
AskGranted(t) ==
  /\ phase[t] = "ask" /\ mail[t] \in Name
  /\ name' = [name EXCEPT ![t] = mail[t]]
  /\ failures' = [failures EXCEPT ![t] = 0]
  /\ Sleeps(t, "wait", RefreshDelay)
  /\ UNCHANGED <<kind, closed, table, faulty, uplink>>

AskRefused(t) ==
  /\ phase[t] = "ask" /\ mail[t] = "refused"
  /\ Sleeps(t, "pause", PauseTime)
  /\ UNCHANGED <<kind, failures, name, closed, table, faulty, uplink>>

(* A claim that timed out is repeated at once.                             *)
AskTimesOut(t) ==
  /\ phase[t] = "ask" /\ timer[t] = 0
  /\ IF kind = "claim" THEN Requests(t, "ask") ELSE Sleeps(t, "pause", PauseTime)
  /\ UNCHANGED <<kind, failures, name, closed, table, faulty, uplink>>

WaitOver(t) ==
  /\ phase[t] = "wait" /\ timer[t] = 0
  /\ Requests(t, "refresh")
  /\ UNCHANGED <<kind, failures, name, closed, table, faulty, uplink>>

RefreshGranted(t) ==
  /\ phase[t] = "refresh" /\ mail[t] \in Name
  /\ failures' = [failures EXCEPT ![t] = 0]
  /\ Sleeps(t, "wait", RefreshDelay)
  /\ UNCHANGED <<kind, name, closed, table, faulty, uplink>>

(* A plausible bug for NameWithout: the interface is not taken back.       *)
NameKept(a) == a

(* The name a task uses while it asks for a new lease: a bus device takes  *)
(* its interface back to net 0 first; a bridge keeps routing the net.      *)
NameWithout(a) == IF kind = "claim" THEN NoName ELSE a

(* A plausible bug for GivenUp: one failure too many is tolerated.         *)
GivenUpLate(f) == f > MaxFailures

GivenUp(f) == f >= MaxFailures

(* A refresh is refused or times out; the last failure starts over.        *)
RefreshFails(t) ==
  /\ phase[t] = "refresh" /\ (mail[t] = "refused" \/ timer[t] = 0)
  /\ IF GivenUp(failures[t] + 1)
     THEN /\ name' = [name EXCEPT ![t] = NameWithout(name[t])]
          /\ failures' = [failures EXCEPT ![t] = 0]
          /\ IF kind = "claim" THEN Requests(t, "ask")
             ELSE Sleeps(t, "pause", PauseTime)
     ELSE /\ failures' = [failures EXCEPT ![t] = failures[t] + 1]
          /\ Sleeps(t, "wait", RetryDelay) /\ UNCHANGED name
  /\ UNCHANGED <<kind, closed, table, faulty, uplink>>

(* A plausible bug for Watching: the requests are polled alone.            *)
WatchingNoWait == {"pause", "ask"}

(* The phases in which a task watches its closer: a claim in all of them,  *)
(* a seed not while a request is out.                                      *)
Watching == IF kind = "claim" THEN {"pause", "ask", "wait", "refresh"}
            ELSE {"pause", "wait"}

(* closed_within or select(.., closer.wait()): the task returns.           *)
SeesClosed(t) == t \in closed /\ phase[t] \in Watching

Ends(t) ==
  /\ SeesClosed(t)
  /\ Sleeps(t, "off", 0)
  /\ failures' = [failures EXCEPT ![t] = 0] /\ name' = [name EXCEPT ![t] = NoName]
  /\ UNCHANGED <<kind, closed, table, faulty, uplink>>

(* The link is torn down; its interface is gone with its name.             *)
Close(t) ==
  /\ phase[t] # "off" /\ t \notin closed
  /\ closed' = closed \cup {t}
  /\ UNCHANGED <<kind, task, mail, table, faulty, uplink>>

-----------------------------------------------------------------------------
(* The router's table (external): a lease is given out or refused.         *)

Lets(t, a) ==
  /\ holder' = [holder EXCEPT ![a] = t]
  /\ left' = [left EXCEPT ![a] = Expires]

Free(t, a) == holder[a] \in {t, Nobody}

(* The request a task waits for arrives and is answered.                   *)
Answers(t) ==
  /\ mail[t] = "sent"
  /\ \/ \E a \in Name :
          /\ IF phase[t] = "ask" THEN Free(t, a) ELSE name[t] = a /\ holder[a] = t
          /\ Lets(t, a) /\ mail' = [mail EXCEPT ![t] = a]
     \/ /\ IF phase[t] = "ask" THEN \A a \in Name : ~Free(t, a)
           ELSE \A a \in Name : name[t] = a => holder[a] # t
        /\ mail' = [mail EXCEPT ![t] = "refused"] /\ UNCHANGED <<holder, left>>
  /\ UNCHANGED <<kind, task, closed, replaced, faulty, uplink>>

-----------------------------------------------------------------------------
(* The network (external) and time.                                        *)

Loses(t) ==
  /\ faulty /\ mail[t] # "none" /\ mail' = [mail EXCEPT ![t] = "none"]
  /\ UNCHANGED <<kind, task, closed, table, faulty, uplink>>

(* detach_router, then attach_router of another node.                      *)
RouterReplaced ==
  /\ faulty /\ ~replaced
  /\ replaced' = TRUE
  /\ holder' = [a \in Name |-> Nobody] /\ left' = [a \in Name |-> 0]
  /\ UNCHANGED <<kind, task, closed, mail, faulty, uplink>>

Stabilises ==
  /\ faulty /\ faulty' = FALSE
  /\ UNCHANGED <<kind, task, closed, mail, table, uplink>>

Later(n) == IF n = 0 THEN 0 ELSE n - 1

(* A tick: no turn that is due is left, and without faults no mail either. *)
Tick ==
  /\ \A t \in Running : timer[t] > 0 /\ ~SeesClosed(t)
  /\ faulty \/ \A t \in Task : mail[t] = "none"
  /\ timer' = [t \in Task |-> Later(timer[t])]
  /\ left' = [a \in Name |-> Later(left[a])]
  /\ holder' = [a \in Name |-> IF left[a] > 1 THEN holder[a] ELSE Nobody]
  /\ IF kind = "claim" THEN UNCHANGED uplink
     ELSE \E arrives, answered \in BOOLEAN :
            (faulty \/ (arrives /\ answered)) /\ Uplink!Beat(arrives, answered)
  /\ UNCHANGED <<kind, phase, failures, name, closed, mail, replaced, faulty>>

Turn(t) ==
  \/ PauseOver(t) \/ AskGranted(t) \/ AskRefused(t) \/ AskTimesOut(t)
  \/ WaitOver(t) \/ RefreshGranted(t) \/ RefreshFails(t) \/ Ends(t)

Next ==
  \/ \E t \in Task : \/ Start(t) \/ PauseOver(t) \/ AskGranted(t) \/ AskRefused(t)
                     \/ AskTimesOut(t) \/ WaitOver(t) \/ RefreshGranted(t)
                     \/ RefreshFails(t) \/ Ends(t) \/ Close(t)
                     \/ Answers(t) \/ Loses(t)
  \/ RouterReplaced \/ Stabilises \/ Tick

(* Tasks are polled, what is due fires, and the network that has           *)
(* stabilised delivers; whether it ever stabilises is left open.           *)
Fairness ==
  /\ \A t \in Task : WF_vars(Turn(t)) /\ WF_vars(Answers(t))
  /\ WF_vars(Tick)

Spec == Init /\ [][Next]_vars /\ Fairness

-----------------------------------------------------------------------------

(* Values of the right kind; a task that is off waits for nothing.         *)
TypeOK ==
  /\ kind \in {"claim", "seed"}
  /\ phase \in [Task -> {"off", "pause", "ask", "wait", "refresh"}]
  /\ timer \in [Task -> Nat]
  /\ failures \in [Task -> 0..(MaxFailures - 1)]
  /\ name \in [Task -> Name \cup {NoName}]
  /\ closed \subseteq Task
  /\ mail \in [Task -> Name \cup {"none", "sent", "refused"}]
  /\ holder \in [Name -> Task \cup {Nobody}] /\ left \in [Name -> 0..Expires]
  /\ faulty \in BOOLEAN /\ replaced \in BOOLEAN
  /\ \A t \in Task : phase[t] \in {"wait", "refresh"} => name[t] \in Name
  /\ \A t \in Task : phase[t] \in {"off", "pause", "wait"} => mail[t] = "none"
  /\ \A a \in Name : holder[a] = Nobody <=> left[a] = 0

(* Whatever is lost, late or refused, no two devices of one bus use the    *)
(* same address, as long as the table that leased them is there: a device  *)
(* takes its interface back before the lease it failed to refresh expires. *)
NamesExclusive ==
  kind = "claim" /\ ~replaced =>
    \A t, u \in Task, a \in Name : Uses(t, a) /\ Uses(u, a) => t = u

(* A lease outlives the use of its address: the time until the device's    *)
(* last allowed failure is always shorter than what is left of the lease.  *)
Risk(f) == (MaxFailures - f) * RequestTime + (MaxFailures - 1 - f) * RetryDelay
Due(t) == timer[t] + (IF phase[t] = "wait" THEN Risk(failures[t])
                      ELSE Risk(failures[t]) - RequestTime)
LeaseOutlivesUse ==
  kind = "claim" /\ ~replaced =>
    \A t \in Task : phase[t] \in {"wait", "refresh"} =>
      holder[name[t]] = t /\ Due(t) < left[name[t]]

(* However the network failed and even if the router was replaced: once it *)
(* delivers, every task that is not closed ends up using a name that the   *)
(* table holds for it, and stays there.                                    *)
Settled(t) == phase[t] = "off" \/ (name[t] \in Name /\ holder[name[t]] = t)
LeasesSettle == <>(~faulty) => <>[](\A t \in Task : Settled(t))

(* The task of a closed link ends, although a seed's requests do not watch *)
(* the closer.                                                             *)
TaskEnds == \A t \in Task : t \in closed ~> phase[t] = "off"

(* After an outage that both ends of the uplink timed out on, the child's  *)
(* heartbeat brings both back (tests/wasm-api.test.ts, 721-744).           *)
BothEndsHeal ==
  kind = "seed" /\ <>(~faulty) => <>[](up = "net" /\ down = "active")
=============================================================================
