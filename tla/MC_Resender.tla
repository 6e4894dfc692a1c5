---------------------------- MODULE MC_Resender ----------------------------
(* Instances of the resender for TLC.                                      *)
EXTENDS Resender

\* One Command stream running through more than one generation of ids.
WrapTypes == {"Command"}
WrapMaxPackets == [t \in WrapTypes |-> 9]

\* Init and Command records competing for one send queue.
MixTypes == {"Init", "Command"}
MixMaxPackets == ("Init" :> 1) @@ ("Command" :> 2)

\* A short Command stream for the liveness properties.
LiveMaxPackets == [t \in WrapTypes |-> 2]

-----------------------------------------------------------------------------
(* Refinement: the resender implements the reliable queue it promises.     *)
(* The outstanding packets are the records of full_send_queue, the next   *)
(* id is the codec's, the peer's copy is `delivered`, the barrier is the   *)
(* last AckPacket item.                                                    *)

Queue == INSTANCE ReliableQueue WITH
  submitted <- next_id,
  outstanding <- [t \in Types |-> DOMAIN fsq[t]],
  received <- delivered,
  lastAck <- last_ack,
  failed <- failed

=============================================================================
