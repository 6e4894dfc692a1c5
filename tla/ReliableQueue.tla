---------------------------- MODULE ReliableQueue ----------------------------
(***************************************************************************)
(* What the resender of tsproto promises the connection, per reliable      *)
(* packet type: packets are numbered in the order they are submitted; a    *)
(* packet stays outstanding until the peer has received it, and only then  *)
(* may it be acknowledged; an AckPacket barrier says that everything up to *)
(* it is acknowledged and never goes back; and a failure discards          *)
(* everything.  Under fairness, a packet that is outstanding reaches the   *)
(* peer and is acknowledged, unless the connection fails first.            *)
(***************************************************************************)
EXTENDS Naturals, Integers

CONSTANTS
  Types,        \* reliable packet types
  MaxPackets,   \* [Types -> Nat]: bound on the next id of each type
  FirstId       \* the next id at the start; all ids below it acknowledged

Ids(t) == 0..(MaxPackets[t] - 1)

VARIABLES
  submitted,    \* [Types -> Nat]: packets submitted, i.e. the next id
  outstanding,  \* [Types -> SUBSET Nat]: submitted and not yet acknowledged
  received,     \* [Types -> SUBSET Nat]: outstanding packets the peer has
  lastAck,      \* [Types -> Int]: the last AckPacket barrier (FirstId - 1: none)
  failed        \* the connection failed

avars == <<submitted, outstanding, received, lastAck, failed>>

Init ==
  /\ submitted = [t \in Types |-> FirstId]
  /\ outstanding = [t \in Types |-> {}]
  /\ received = [t \in Types |-> {}]
  /\ lastAck = [t \in Types |-> FirstId - 1]
  /\ failed = FALSE

\* send_packet: the packet gets the next id of its type.
Submit(t) ==
  /\ ~failed
  /\ submitted[t] < MaxPackets[t]
  /\ submitted' = [submitted EXCEPT ![t] = @ + 1]
  /\ outstanding' = [outstanding EXCEPT ![t] = @ \cup {submitted[t]}]
  /\ UNCHANGED <<received, lastAck, failed>>

\* The peer gets an outstanding packet.
Deliver(t, n) ==
  /\ ~failed
  /\ n \in outstanding[t] \ received[t]
  /\ received' = [received EXCEPT ![t] = @ \cup {n}]
  /\ UNCHANGED <<submitted, outstanding, lastAck, failed>>

\* ack_packet: a packet the peer has is acknowledged; the barrier may move
\* forward to any id below every packet still outstanding.
Ack(t, n) ==
  /\ ~failed
  /\ n \in received[t]
  /\ outstanding' = [outstanding EXCEPT ![t] = @ \ {n}]
  /\ received' = [received EXCEPT ![t] = @ \ {n}]
  /\ \E u \in {lastAck[t]} \cup (lastAck[t] + 1)..(submitted[t] - 1) :
       /\ u # lastAck[t] => \A m \in outstanding'[t] : m > u
       /\ lastAck' = [lastAck EXCEPT ![t] = u]
  /\ UNCHANGED <<submitted, failed>>

\* A timeout or socket error: the connection and its records are dropped.
Fail ==
  /\ ~failed
  /\ failed' = TRUE
  /\ outstanding' = [t \in Types |-> {}]
  /\ received' = [t \in Types |-> {}]
  /\ UNCHANGED <<submitted, lastAck>>

Next ==
  \/ \E t \in Types : Submit(t)
  \/ \E t \in Types : \E n \in Ids(t) : Deliver(t, n) \/ Ack(t, n)
  \/ Fail

\* Every outstanding packet eventually reaches the peer and is
\* acknowledged while the connection lives.
Fairness ==
  \A t \in Types : \A n \in Ids(t) : WF_avars(Deliver(t, n)) /\ WF_avars(Ack(t, n))

Safety == Init /\ [][Next]_avars

Spec == Safety /\ Fairness

====
