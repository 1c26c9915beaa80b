------------------------------ MODULE LossyFifo ------------------------------
(***************************************************************************)
(* What one direction of a link promises, whatever its transport: what is  *)
(* received was sent, in order and once, and as long as the link is open   *)
(* everything sent is either received or lost in the end.                  *)
(*                                                                         *)
(* The k-th unit sent (a byte of a stream, a frame of a packet link) is    *)
(* the number k.                                                           *)
(***************************************************************************)
EXTENDS Integers, FiniteSets

VARIABLES sent,    \* how many units were sent
          lost,    \* those that were dropped
          last,    \* the unit received last
          count,   \* how many were received
          open     \* the link is open

vars == <<sent, lost, last, count, open>>

Pending == {k \in 1 .. sent : last < k /\ k \notin lost}

Init == sent = 0 /\ lost = {} /\ last = 0 /\ count = 0 /\ open = TRUE

Send ==
  /\ sent' > sent
  /\ UNCHANGED <<lost, last, count, open>>

(* Only what is still on its way can be lost. *)
Lose ==
  /\ \E S \in SUBSET Pending : S # {} /\ lost' = lost \cup S
  /\ UNCHANGED <<sent, last, count, open>>

(* Everything on its way up to unit k arrives: nothing is overtaken. *)
Deliver(k) ==
  /\ k \in Pending
  /\ last' = k
  /\ count' = count + Cardinality({j \in Pending : j <= k})
  /\ UNCHANGED <<sent, lost, open>>

Close ==
  /\ open /\ open' = FALSE
  /\ UNCHANGED <<sent, lost, last, count>>

Moves == Lose \/ \E k \in Pending : Deliver(k)

Next == Send \/ Moves \/ Close

(* An open link does not keep what it carries. *)
Spec == Init /\ [][Next]_vars /\ WF_vars(open /\ Moves)

=============================================================================
