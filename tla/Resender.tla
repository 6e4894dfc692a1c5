------------------------------ MODULE Resender ------------------------------
(***************************************************************************)
(* The resender of tsproto (src/tsproto/src/resend.rs): the per-connection *)
(* reliability engine for Init, Command and CommandLow packets, together   *)
(* with the peer and a lossy, duplicating, reordering UDP network.         *)
(*                                                                         *)
(* Time is discrete: one tick is one second, so the hard-coded maximum     *)
(* retransmission timeout of 1 s is one tick.  Every Instant of the code   *)
(* is kept as its age (now - instant) in ticks, saturating at AgeCap, one  *)
(* tick past the longest configured timeout: beyond that age no comparison *)
(* of the code can tell two ages apart.  The smoothed RTT and its          *)
(* deviation are Durations kept in units of 1/Unit tick.                   *)
(*                                                                         *)
(* A PartialPacketId (generation_id, packet_id) is the natural number      *)
(* generation_id * SeqMod + packet_id: the code's lexicographic order and  *)
(* its Add/Sub with carry are then the order and arithmetic of Nat, and    *)
(* the wire only carries the packet_id, n % SeqMod.  SeqMod stands for     *)
(* 2^16; the window cap u16::max_value() / 2 is kept relative to it.       *)
(*                                                                         *)
(* The CUBIC clock: the code keeps last_loss and no_congestion_since and   *)
(* computes t = no_congestion_since.unwrap_or(now) - last_loss.  The model *)
(* keeps t itself (cubic_t) and whether no_congestion_since is Some        *)
(* (no_congestion): t advances with time only while it is None, a loss     *)
(* resets it to 0, and the shift in fill_up_send_queue leaves it unchanged.*)
(***************************************************************************)
EXTENDS Integers, FiniteSets, Sequences, FiniteSetsExt, Functions, TLC

CONSTANTS
  Types,              \* reliable packet types in use, a subset of PacketTypes
  SeqMod,             \* 2^16 scaled down: packet ids wrap at SeqMod
  MaxPackets,         \* [Types -> Nat]: packets the upper layer submits
  MaxOutstanding,     \* bound: unacknowledged records per type
  Unit,               \* Duration units per tick (second)
  InitSrtt,           \* ResendConfig.srtt, in units
  InitSrttDev,        \* ResendConfig.srtt_dev, in units
  ConnectingTimeout,  \* ResendConfig timeouts, in ticks
  NormalTimeout,
  DisconnectTimeout,
  InitWMax,           \* w_max of Resender::default (UDP_SINK_CAPACITY)
  AckWithinCycle,     \* TRUE: no ACK arrives after SeqMod newer packets of
                      \* its type were submitted
  NetCap,             \* bound: datagrams in flight per direction; a datagram
                      \* sent while NetCap are in flight is lost
  FirstId             \* next id of each type at the start: a session whose
                      \* FirstId earlier packets were all acknowledged

PacketTypes == {"Init", "Command", "CommandLow"}
States == {"Connecting", "Connected", "Disconnecting", "Disconnected"}

ASSUME Types \subseteq PacketTypes /\ Types # {}
ASSUME SeqMod \in Nat /\ SeqMod >= 4
ASSUME MaxPackets \in [Types -> Nat]
ASSUME "Init" \in Types => MaxPackets["Init"] <= SeqMod
ASSUME {Unit, InitSrtt, InitSrttDev, MaxOutstanding} \subseteq Nat
ASSUME {ConnectingTimeout, NormalTimeout, DisconnectTimeout} \subseteq Nat \ {0}
ASSUME AckWithinCycle \in BOOLEAN /\ NetCap \in Nat \ {0}
ASSUME FirstId \in Nat /\ ("Init" \in Types => FirstId = 0)

\* get_window clamps to u16::max_value() / 2, i.e. below half the id space.
WindowCap == (SeqMod - 1) \div 2
ASSUME InitWMax \in 1..WindowCap

\* max_send_rto: "Send a packet at least every second".
MaxSendRto == Unit

AgeCap == Max({ConnectingTimeout, NormalTimeout, DisconnectTimeout}) + 1

PacketIds(t) == 0..(MaxPackets[t] - 1)
Messages == UNION {{<<t, n>> : n \in PacketIds(t)} : t \in Types}

VARIABLES
  state,          \* Resender.state
  failed,         \* poll_resend / poll_ping returned an error
  fsq,            \* full_send_queue: [Types -> (id -> SendRecord)]
  sq,             \* send_queue: (<<type, id>> -> SendRecordId)
  idx,            \* send_queue_indices
  w_max,          \* Resender.w_max
  cubic_t,        \* no_congestion_since.unwrap_or(now) - last_loss
  no_congestion,  \* no_congestion_since.is_some()
  srtt,           \* config.srtt
  srtt_dev,       \* config.srtt_dev
  last_send,      \* age of Resender.last_send
  next_id,        \* codec.outgoing_p_ids: next id of each type
  data_net,       \* datagrams on their way to the peer
  ack_net,        \* ACKs on their way back, with the full id as ghost
  delivered,      \* outstanding records the peer has received, per type
  last_ack        \* id of the last AckPacket stream item, per type (FirstId - 1: none)

vars == <<state, failed, fsq, sq, idx, w_max, cubic_t, no_congestion, srtt,
          srtt_dev, last_send, next_id, data_net, ack_net, delivered,
          last_ack>>

Ages == 0..AgeCap
Entry == [last : Ages, tries : 0..2]   \* tries saturates: 2 stands for >= 2

TypeOK ==
  /\ state \in States
  /\ failed \in BOOLEAN
  /\ \A t \in Types :
       /\ DOMAIN fsq[t] \subseteq PacketIds(t)
       /\ \A n \in DOMAIN fsq[t] :
            fsq[t][n] \in [sent : Ages, last : Ages, tries : 0..2]
  /\ DOMAIN sq \subseteq Messages /\ \A k \in DOMAIN sq : sq[k] \in Entry
  /\ idx \in [Types -> Nat]
  /\ w_max \in 1..WindowCap
  /\ cubic_t \in Nat
  /\ no_congestion \in BOOLEAN
  /\ srtt \in Nat /\ srtt_dev \in Nat
  /\ last_send \in Ages
  /\ next_id \in [Types -> Nat]
  /\ data_net \subseteq Messages /\ ack_net \subseteq Messages
  /\ \A t \in Types : delivered[t] \subseteq DOMAIN fsq[t]
  /\ last_ack \in [Types -> Int]

-----------------------------------------------------------------------------
(* Helpers                                                                  *)

Older(a) == IF a < AgeCap THEN a + 1 ELSE AgeCap
AtMost(x, m) == IF x > m THEN m ELSE x
AbsDiff(a, b) == IF a > b THEN a - b ELSE b - a
EmptyFn == [x \in {} |-> 0]

\* A datagram put on a network that already carries NetCap of them is lost.
Carry(net, m) == IF Cardinality(net) < NetCap THEN net \cup {m} ELSE net

\* get_timeout
Timeout(s) ==
  CASE s = "Connecting" -> ConnectingTimeout
    [] s = "Connected"  -> NormalTimeout
    [] OTHER            -> DisconnectTimeout

\* K = (w_max * BETA / C)^(1/3) with BETA / C = 7/5, in hundredths.
CubicK100(w) ==
  CHOOSE k \in 0..1000 : 5 * k^3 <= 7 * w * 1000000
                         /\ 5 * (k + 1)^3 > 7 * w * 1000000

\* C * (t - K)^3 + w_max with C = 1/2, truncated like the cast to u16.
CubicRaw(t, w) == (2000000 * w + (100 * t - CubicK100(w))^3) \div 2000000

\* From t = CubicTCap seconds on, get_window is at WindowCap for every w_max,
\* so the CUBIC clock need not be counted further.
CubicTCap == CHOOSE t \in 0..20 : \A w \in 1..WindowCap : CubicRaw(t, w) >= WindowCap
                                  /\ \A u \in 0..(t - 1) : CubicRaw(u, 1) < WindowCap

\* (mutant) get_window without the clamp to u16::max_value() / 2.
WindowNoCap(t, w) == IF CubicRaw(t, w) < 1 THEN 1 ELSE CubicRaw(t, w)

\* get_window, clamped to 1..WindowCap.
Window(t, w) ==
  IF CubicRaw(t, w) > WindowCap THEN WindowCap
  ELSE IF CubicRaw(t, w) < 1 THEN 1 ELSE CubicRaw(t, w)

CurWindow == Window(cubic_t, w_max)

\* Retransmission timeout: srtt + 4 * srtt_dev, at most one second.
Rto == AtMost(srtt + 4 * srtt_dev, MaxSendRto)

\* Ord for SendRecordId: a record never sent outranks a resend, then the
\* older `last` wins.  Two ages from the same tick stand for Instants whose
\* order the model does not know, except that records of one type are
\* created in id order.  The id tie-break of the code needs equal Instants.
Outranks(j, k) ==
  LET a == sq[j]  b == sq[k] IN
  \/ a.tries = 0 /\ b.tries # 0
  \/ (a.tries = 0) = (b.tries = 0) /\ a.last > b.last
  \/ /\ a.tries = 0 /\ b.tries = 0 /\ a.last = b.last
     /\ j[1] = k[1] /\ j[2] < k[2]

\* The entries peek_mut may return.
IsTop(k) == k \in DOMAIN sq /\ \A j \in DOMAIN sq \ {k} : ~Outranks(j, k)

\* fill_up_send_queue: push up to wnd - |sq| records, each time the head
\* (lowest id at or after the cursor) of the type whose head has the latest
\* `sent` (the loop keeps the candidate with min_time < rec.sent).  The
\* result records whether the candidates ran out before the window was
\* reached ("dry"), in which case no_congestion_since is set; otherwise it
\* is taken and last_loss shifted, leaving the CUBIC clock unchanged.
Candidates(f, ix, t) == {n \in DOMAIN f[t] : n >= ix[t]}

\* (mutant) the cursor set to the pushed id instead of the id after it.
AdvanceNoInc(ix, t, n) == [ix EXCEPT ![t] = n]

\* send_queue_indices[max_i] = max.id.part + 1
Advance(ix, t, n) == [ix EXCEPT ![t] = n + 1]

RECURSIVE FillSteps(_, _, _, _)
FillSteps(f, q, ix, k) ==
  LET live == {t \in Types : Candidates(f, ix, t) # {}}
      head(t) == Min(Candidates(f, ix, t))
      newest == {t \in live : \A u \in live :
                   f[t][head(t)].sent <= f[u][head(u)].sent}
      Push(t) == q @@ (<<t, head(t)>> :> [last |-> f[t][head(t)].last,
                                           tries |-> f[t][head(t)].tries])
  IN  IF k <= 0 THEN {[sq |-> q, idx |-> ix, dry |-> FALSE]}
      ELSE IF live = {} THEN {[sq |-> q, idx |-> ix, dry |-> TRUE]}
      ELSE UNION {FillSteps(f, Push(t), Advance(ix, t, head(t)), k - 1)
                  : t \in newest}

\* (mutant) the fill loop running to the window inclusive (..=).
FillUpSendQueueOneMore(f, q, ix, wnd) ==
  FillSteps(f, q, ix, wnd + 1 - Cardinality(DOMAIN q))

FillUpSendQueue(f, q, ix, wnd) == FillSteps(f, q, ix, wnd - Cardinality(DOMAIN q))

\* rebuild_send_queue: clear the heap, reset the cursors, fill up.
RebuildSendQueue(f, wnd) == FillUpSendQueue(f, EmptyFn, [t \in Types |-> 0], wnd)

\* update_srtt
UpdateSrtt(rtt) ==
  /\ srtt_dev' = (srtt_dev * 3) \div 4 + AbsDiff(rtt, srtt) \div 4
  /\ srtt' = (srtt * 7) \div 8 + rtt \div 8

-----------------------------------------------------------------------------
(* Operations of the resender                                               *)

Init ==
  /\ state = "Connecting"
  /\ failed = FALSE
  /\ fsq = [t \in Types |-> EmptyFn]
  /\ sq = EmptyFn
  /\ idx = [t \in Types |-> 0]
  /\ w_max = InitWMax
  /\ cubic_t = 0
  /\ no_congestion = TRUE
  /\ srtt = InitSrtt
  /\ srtt_dev = InitSrttDev
  /\ last_send = 0
  /\ next_id = [t \in Types |-> FirstId]
  /\ data_net = {}
  /\ ack_net = {}
  /\ delivered = [t \in Types |-> {}]
  /\ last_ack = [t \in Types |-> FirstId - 1]

\* An error of poll_resend or poll_ping is fatal: the driver reports it and
\* drops the connection, destroying the resender with its records, timers
\* and socket.  Only `failed` remembers it.
DropConnection ==
  /\ failed' = TRUE
  /\ fsq' = [t \in Types |-> EmptyFn]
  /\ sq' = EmptyFn
  /\ idx' = [t \in Types |-> 0]
  /\ w_max' = InitWMax
  /\ cubic_t' = 0
  /\ no_congestion' = TRUE
  /\ srtt' = InitSrtt
  /\ srtt_dev' = InitSrttDev
  /\ last_send' = 0
  /\ data_net' = {}
  /\ ack_net' = {}
  /\ delivered' = [t \in Types |-> {}]
  /\ UNCHANGED <<state, next_id, last_ack>>

\* send_packet: the codec gives the packet the next id of its type; the
\* record is inserted and the send queue filled up.  Nothing looks at the
\* state: a packet is accepted also when Disconnected.
SendPacket(t) ==
  LET n == next_id[t]
      f == [fsq EXCEPT ![t] = fsq[t] @@ (n :> [sent |-> 0, last |-> 0, tries |-> 0])]
  IN  /\ ~failed
      /\ n < MaxPackets[t]
      /\ Cardinality(DOMAIN fsq[t]) < MaxOutstanding
      /\ next_id' = [next_id EXCEPT ![t] = n + 1]
      /\ last_send' = 0
      /\ fsq' = f
      /\ \E o \in FillUpSendQueue(f, sq, idx, CurWindow) :
           /\ sq' = o.sq /\ idx' = o.idx /\ no_congestion' = o.dry
      /\ UNCHANGED <<state, failed, w_max, cubic_t, srtt, srtt_dev, data_net,
                     ack_net, delivered, last_ack>>

\* (mutant) ack_packet comparing the wire id with `<=` instead of `==`.
AckMatchesFirstLe(t, p) == Min(DOMAIN fsq[t]) % SeqMod <= p

\* ack_packet: the ACK is for the oldest outstanding record of its type.
AckMatchesFirst(t, p) == Min(DOMAIN fsq[t]) % SeqMod = p

\* (mutant) the AckPacket id without the final overflowing_sub(1).
AckUptoNoDec(t, p) ==
  LET ids == DOMAIN fsq[t]  first == Min(ids) IN
  IF ids \ {first} # {} THEN Min(ids \ {first})
  ELSE IF t = "Init" THEN p + 1
  ELSE next_id[t]

\* The id of the AckPacket stream item: one below the next record, for Init
\* one below (0, p_id + 1), otherwise one below the next id to send.
AckUpto(t, p) ==
  LET ids == DOMAIN fsq[t]  first == Min(ids) IN
  IF ids \ {first} # {} THEN Min(ids \ {first}) - 1
  ELSE IF t = "Init" THEN p
  ELSE next_id[t] - 1

\* The record an ACK removes: the oldest one if its wire id matches,
\* otherwise the id with the generation guessed from the oldest record
\* (the next generation when the wire id is below the oldest one's).
AckId(t, p) ==
  LET first == Min(DOMAIN fsq[t])
      gen == first \div SeqMod + (IF p < first % SeqMod THEN 1 ELSE 0)
  IN  IF AckMatchesFirst(t, p) THEN first ELSE gen * SeqMod + p

\* ack_packet(p_type, p_id): only the 16-bit id arrives.  If it is the id of
\* the oldest record, that record is removed and an AckPacket is emitted for
\* everything below the next record (or the next id to send; for Init the
\* acknowledged id itself).  Otherwise the generation is guessed from the
\* oldest record and that record, if present, is removed.
AckPacket(t, p) ==
  LET ids == DOMAIN fsq[t]
      first == Min(ids)
      matched == AckMatchesFirst(t, p)
      upto == AckUpto(t, p)
      id == AckId(t, p)
  IN  IF ids = {} THEN UNCHANGED <<fsq, srtt, srtt_dev, delivered, last_ack>>
      ELSE /\ last_ack' = IF matched THEN [last_ack EXCEPT ![t] = upto]
                                    ELSE last_ack
           /\ IF id \in ids
              THEN /\ fsq' = [fsq EXCEPT ![t] = Restrict(fsq[t], ids \ {id})]
                   /\ delivered' = [delivered EXCEPT ![t] = @ \ {id}]
                   /\ IF fsq[t][id].tries = 1
                      THEN UpdateSrtt(fsq[t][id].sent * Unit)
                      ELSE UNCHANGED <<srtt, srtt_dev>>
              ELSE UNCHANGED <<fsq, srtt, srtt_dev, delivered>>

\* The driver hands an arriving ACK to ack_packet.  The ACK may stay in the
\* network to be delivered again (duplication).
RecvAck(m) ==
  /\ ~failed
  /\ m \in ack_net
  /\ AckWithinCycle => m[2] + SeqMod >= next_id[m[1]]
  /\ \E keep \in BOOLEAN : ack_net' = IF keep THEN ack_net ELSE ack_net \ {m}
  /\ AckPacket(m[1], m[2] % SeqMod)
  /\ UNCHANGED <<state, failed, sq, idx, w_max, cubic_t, no_congestion,
                 last_send, next_id, data_net>>

\* set_state, with the transitions the connection makes.
Successors(s) ==
  CASE s = "Connecting"    -> {"Connected", "Disconnecting"}
    [] s = "Connected"     -> {"Disconnecting"}
    [] s = "Disconnecting" -> {"Disconnected"}
    [] OTHER               -> {}

SetState(s) ==
  /\ ~failed
  /\ s \in Successors(state)
  /\ state' = s
  /\ last_send' = 0
  /\ UNCHANGED <<failed, fsq, sq, idx, w_max, cubic_t, no_congestion, srtt,
                 srtt_dev, next_id, data_net, ack_net, delivered, last_ack>>

Due(k) == ~(sq[k].tries # 0 /\ sq[k].last * Unit < Rto)

\* The top record was acknowledged: pop it and fill up.
PopAcked(k) ==
  /\ ~failed
  /\ IsTop(k)
  /\ k[2] \notin DOMAIN fsq[k[1]]
  /\ \E o \in FillUpSendQueue(fsq, Restrict(sq, DOMAIN sq \ {k}), idx, CurWindow) :
       /\ sq' = o.sq /\ idx' = o.idx /\ no_congestion' = o.dry
  /\ UNCHANGED <<state, failed, fsq, w_max, cubic_t, srtt, srtt_dev,
                 last_send, next_id, data_net, ack_net, delivered, last_ack>>

\* "Connection timed out": the due record was first queued too long ago.
ResendTimeout(k) ==
  /\ ~failed
  /\ IsTop(k)
  /\ k[2] \in DOMAIN fsq[k[1]]
  /\ Due(k)
  /\ fsq[k[1]][k[2]].sent > Timeout(state)
  /\ DropConnection

\* The socket returns an error for the datagram (r?).
SendFailed(k) ==
  /\ ~failed
  /\ IsTop(k)
  /\ k[2] \in DOMAIN fsq[k[1]]
  /\ Due(k)
  /\ fsq[k[1]][k[2]].sent <= Timeout(state)
  /\ DropConnection

\* The datagram of k is handed to the socket: last := now, tries += 1.
Sent(k, tries) ==
  [fsq EXCEPT ![k[1]][k[2]].last = 0, ![k[1]][k[2]].tries = tries]

\* First transmission of a record.
SendFirst(k) ==
  /\ ~failed
  /\ IsTop(k)
  /\ k[2] \in DOMAIN fsq[k[1]]
  /\ sq[k].tries = 0
  /\ fsq[k[1]][k[2]].sent <= Timeout(state)
  /\ data_net' = Carry(data_net, k)
  /\ fsq' = Sent(k, 1)
  /\ sq' = [sq EXCEPT ![k] = [last |-> 0, tries |-> 1]]
  /\ UNCHANGED <<state, failed, idx, w_max, cubic_t, no_congestion, srtt,
                 srtt_dev, last_send, next_id, ack_net, delivered, last_ack>>

\* Retransmission: double srtt (at most the timeout), w_max := window,
\* last_loss := now, no_congestion_since := None, rebuild the send queue.
Resend(k) ==
  LET f == Sent(k, 2)
      w == CurWindow
  IN  /\ ~failed
      /\ IsTop(k)
      /\ k[2] \in DOMAIN fsq[k[1]]
      /\ sq[k].tries # 0
      /\ Due(k)
      /\ fsq[k[1]][k[2]].sent <= Timeout(state)
      /\ data_net' = Carry(data_net, k)
      /\ fsq' = f
      /\ srtt' = AtMost(srtt * 2, Timeout(state) * Unit)
      /\ w_max' = w
      /\ cubic_t' = 0
      /\ \E o \in RebuildSendQueue(f, Window(0, w)) :
           /\ sq' = o.sq /\ idx' = o.idx /\ no_congestion' = o.dry
      /\ UNCHANGED <<state, failed, srtt_dev, last_send, next_id, ack_net,
                     delivered, last_ack>>

PollResend == \E k \in DOMAIN sq :
  PopAcked(k) \/ ResendTimeout(k) \/ SendFailed(k) \/ SendFirst(k) \/ Resend(k)

\* (mutant) poll_ping testing the wrong state: the disconnect timeout is
\* checked only once the connection is Disconnected.
PollPingWrongState ==
  /\ ~failed
  /\ state = "Disconnected"
  /\ last_send >= Timeout(state)
  /\ DropConnection

\* poll_ping: a Disconnecting connection fails once disconnect_timeout has
\* passed since the last state change or submitted packet.
PollPing ==
  /\ ~failed
  /\ state = "Disconnecting"
  /\ last_send >= Timeout(state)
  /\ DropConnection

\* One second passes.
Tick ==
  /\ ~failed
  /\ fsq' = [t \in Types |-> [n \in DOMAIN fsq[t] |->
               [fsq[t][n] EXCEPT !.sent = Older(@), !.last = Older(@)]]]
  /\ sq' = [k \in DOMAIN sq |-> [sq[k] EXCEPT !.last = Older(@)]]
  /\ cubic_t' = IF no_congestion THEN cubic_t ELSE AtMost(cubic_t + 1, CubicTCap)
  /\ last_send' = Older(last_send)
  /\ UNCHANGED <<state, failed, idx, w_max, no_congestion, srtt, srtt_dev,
                 next_id, data_net, ack_net, delivered, last_ack>>

-----------------------------------------------------------------------------
(* The peer and the network                                                 *)

\* The peer receives a datagram (possibly again) and acknowledges it.
PeerReceive(m) ==
  /\ m \in data_net
  /\ \E keep \in BOOLEAN : data_net' = IF keep THEN data_net ELSE data_net \ {m}
  /\ delivered' = IF m[2] \in DOMAIN fsq[m[1]]
                  THEN [delivered EXCEPT ![m[1]] = @ \cup {m[2]}]
                  ELSE delivered
  /\ ack_net' = Carry(ack_net, m)
  /\ UNCHANGED <<state, failed, fsq, sq, idx, w_max, cubic_t, no_congestion,
                 srtt, srtt_dev, last_send, next_id, last_ack>>

LoseData(m) ==
  /\ m \in data_net
  /\ data_net' = data_net \ {m}
  /\ UNCHANGED <<state, failed, fsq, sq, idx, w_max, cubic_t, no_congestion,
                 srtt, srtt_dev, last_send, next_id, ack_net, delivered,
                 last_ack>>

LoseAck(m) ==
  /\ m \in ack_net
  /\ ack_net' = ack_net \ {m}
  /\ UNCHANGED <<state, failed, fsq, sq, idx, w_max, cubic_t, no_congestion,
                 srtt, srtt_dev, last_send, next_id, data_net, delivered,
                 last_ack>>

\* The connection is dropped after an error; nothing happens any more.
Dropped == failed /\ UNCHANGED vars

Next ==
  \/ \E t \in Types : SendPacket(t)
  \/ \E s \in States : SetState(s)
  \/ PollResend
  \/ PollPing
  \/ Tick
  \/ \E m \in Messages : RecvAck(m) \/ PeerReceive(m) \/ LoseData(m) \/ LoseAck(m)
  \/ Dropped

\* The driver polls the resender whenever it is woken and time passes; the
\* network eventually delivers a datagram or ACK that it keeps carrying.
Fairness ==
  /\ WF_vars(PollResend)
  /\ WF_vars(PollPing)
  /\ WF_vars(Tick)
  /\ \A m \in Messages : SF_vars(PeerReceive(m)) /\ SF_vars(RecvAck(m))

Spec == Init /\ [][Next]_vars /\ Fairness

-----------------------------------------------------------------------------
(* Properties                                                               *)

\* A record leaves full_send_queue only when the peer really received that
\* packet: ack_packet's reconstruction of the generation from a 16-bit id
\* never removes a record whose ACK has not arrived (at-most-once removal of
\* the right record, despite duplicated, reordered and wrapped ids).
RemovedOnlyIfReceived ==
  [][~failed' => \A t \in Types : \A n \in DOMAIN fsq[t] \ DOMAIN fsq'[t] :
       n \in delivered[t]]_vars

\* An AckPacket(id) stream item is a barrier ("ack all until the next
\* packet"): when it is emitted no record of that type up to id is still
\* outstanding, so with RemovedOnlyIfReceived the peer has all of them; and
\* the items of one type never go backwards.
AckEventSound ==
  [][\A t \in Types : last_ack'[t] # last_ack[t] =>
       /\ last_ack'[t] > last_ack[t]
       /\ \A n \in DOMAIN fsq'[t] : n > last_ack'[t]]_vars

\* The send queue never holds more entries than the congestion window
\* allows, also right after a loss shrinks the window.
SendQueueWithinWindow == Cardinality(DOMAIN sq) <= CurWindow

\* The documented invariant of send_queue_indices: an outstanding record
\* is on the send queue exactly when its id is below its type's cursor,
\* through pushes, pops of acknowledged records and rebuilds after a loss.
CursorsSplitQueue ==
  \A t \in Types : \A n \in DOMAIN fsq[t] :
    (<<t, n>> \in DOMAIN sq) <=> n < idx[t]

\* fill_up_send_queue takes the records in the order they were submitted
\* across the types ("pick the record with the smallest sent timestamp"):
\* a record it pushes onto the send queue is at least as old as every
\* record it leaves waiting behind a cursor.
FillOldestFirst ==
  [][\A k \in DOMAIN sq' \ DOMAIN sq : \A t \in Types :
       \A n \in DOMAIN fsq'[t] :
         (n >= idx'[t] /\ <<t, n>> \notin DOMAIN sq')
           => fsq'[t][n].sent <= fsq'[k[1]][k[2]].sent]_vars

\* A connection that starts disconnecting ends: poll_ping fails it once
\* disconnect_timeout has passed since the last state change or send, or
\* the peer's acknowledgement of clientdisconnect moves it to Disconnected.
\* Every send_packet pushes the deadline back (last_send := now), so this
\* rests on the connection submitting finitely many packets.
DisconnectEnds == state = "Disconnecting" ~> (failed \/ state = "Disconnected")

=============================================================================
