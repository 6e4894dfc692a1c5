------------------------------- MODULE Audio -------------------------------
(***************************************************************************)
(* The audio receive pipeline of tsclientlib (src/tsclientlib/src/audio.rs)*)
(* : one AudioQueue (jitter buffer) per talker inside an AudioHandler, fed *)
(* by talkers that send numbered Opus packets over a lossy, reordering,    *)
(* optionally duplicating network, and drained by the playback callback    *)
(* (fill_buffer).                                                          *)
(*                                                                         *)
(* Packet ids are u16 on the wire; IdMod stands for 2^16 and every         *)
(* wrapping_add / wrapping_sub is taken % IdMod, while the comparisons the *)
(* code makes with < and > on the raw u16 stay plain comparisons.  Sample  *)
(* counts are small integers in a scaled unit; decoding is deterministic:  *)
(* a packet decodes to its own sample count, a concealment to              *)
(* last_packet_samples.  decoded_buffer is kept as its length (dlen) and   *)
(* the read position (dpos), which is all the control flow looks at.      *)
(* A panic of a debug build (arithmetic overflow, debug_assert) ends the   *)
(* program; the variable `panic` records which one.                        *)
(***************************************************************************)
EXTENDS Integers, Sequences, SequencesExt, FiniteSets

CONSTANTS
  Talkers,               \* client ids that send audio
  IdMod,                 \* 2^16 scaled down
  StartId,               \* id of the first packet of every talker
  FrameSizes,            \* samples per channel of one Opus packet
  MaxStream,             \* bound: audio packets a talker sends
  OutLen,                \* buf.len() of fill_buffer (f32 values)
  MaxBufferPackets,      \* MAX_BUFFER_PACKETS
  MaxBufferSize,         \* MAX_BUFFER_SIZE, scaled
  MaxBufferTime,         \* MAX_BUFFER_TIME, scaled
  MaxPacketLosses,       \* MAX_PACKET_LOSSES
  LastBufferSizeCount,   \* LAST_BUFFER_SIZE_COUNT, scaled
  TickMod,               \* 2^16 for cur_last_buffer_sample, scaled
  SpeedChangeSteps,      \* SPEED_CHANGE_STEPS, scaled
  Duplicates,            \* the network may deliver a packet twice
  NetCap                 \* bound: packets in flight

ChannelNum == 2          \* CHANNEL_NUM

ASSUME IdMod \in Nat \ {0} /\ StartId \in 0..(IdMod - 1)
ASSUME FrameSizes \subseteq Nat \ {0} /\ FrameSizes # {}
ASSUME {MaxStream, MaxBufferPackets, MaxBufferSize, MaxBufferTime} \subseteq Nat
ASSUME {OutLen, MaxPacketLosses, LastBufferSizeCount, SpeedChangeSteps} \subseteq Nat \ {0}
ASSUME TickMod > LastBufferSizeCount /\ Duplicates \in BOOLEAN /\ NetCap \in Nat \ {0}

Ids == 0..(IdMod - 1)
QueuePacket == [id : Ids, samples : FrameSizes]
Panics == {"none", "overflow", "assert", "underflow", "tick"}

VARIABLES
  queues,           \* AudioHandler.queues: talker -> AudioQueue
  talkers_changed,  \* AudioHandler.talkers_changed
  avg_buffer_samples,
  panic,            \* which debug-build panic ended the program, or "none"
  sent,             \* audio packets each talker has sent
  ended,            \* the talker sent its empty end-of-stream packet
  net               \* packets in flight: <<talker, id, samples>>, 0 = empty

vars == <<queues, talkers_changed, avg_buffer_samples, panic, sent, ended, net>>

(* An AudioQueue.  Fields: nid = next_id, buf = packet_buffer, bsamp =     *)
(* packet_buffer_samples, dlen / dpos = decoded_buffer.len() /            *)
(* decoded_pos, lps = last_packet_samples, loss = packet_loss_num,         *)
(* buffering = buffering_samples, lbs = last_buffer_samples, cur =         *)
(* cur_last_buffer_sample, bfor = buffered_for_samples.                    *)
TypeOK ==
  /\ \A t \in DOMAIN queues :
       LET q == queues[t] IN
       /\ q.nid \in Ids
       /\ q.buf \in Seq(QueuePacket) /\ Len(q.buf) <= MaxBufferPackets
       /\ {q.bsamp, q.dlen, q.dpos, q.lps, q.loss, q.buffering, q.bfor} \subseteq Nat
       /\ q.dpos <= q.dlen
       /\ q.lbs \in Seq((0..(TickMod - 1)) \X Nat)
       /\ q.cur \in 0..(TickMod - 1)
  /\ DOMAIN queues \subseteq Talkers
  /\ talkers_changed \in BOOLEAN
  /\ avg_buffer_samples \in Nat
  /\ panic \in Panics
  /\ sent \in [Talkers -> 0..MaxStream] /\ ended \in [Talkers -> BOOLEAN]
  /\ net \subseteq Talkers \X Ids \X (FrameSizes \cup {0})

-----------------------------------------------------------------------------
(* AudioQueue helpers                                                       *)

SumSamples(s) == FoldLeft(LAMBDA acc, p : acc + p.samples, 0, s)

RECURSIVE PopBackNotSmaller(_, _)
PopBackNotSmaller(l, size) ==
  IF l # <<>> /\ Last(l)[2] >= size THEN PopBackNotSmaller(Front(l), size) ELSE l

\* (mutant) expiring entries one insertion early (>= instead of >).
RECURSIVE PopFrontExpiredGe(_, _)
PopFrontExpiredGe(l, cur) ==
  IF l # <<>> /\ (cur - Head(l)[1]) % TickMod >= LastBufferSizeCount
  THEN PopFrontExpiredGe(Tail(l), cur) ELSE l

RECURSIVE PopFrontExpired(_, _)
PopFrontExpired(l, cur) ==
  IF l # <<>> /\ (cur - Head(l)[1]) % TickMod > LastBufferSizeCount
  THEN PopFrontExpired(Tail(l), cur) ELSE l

\* add_buffer_size: the sliding-window minimum of buffer sizes.  The
\* u16 `cur_last_buffer_sample += 1` panics at its maximum in a debug
\* build; the ageing of entries is the wrapping_sub that follows.
AddBufferSize(q, size) ==
  LET c == q.cur + 1 IN
  IF c = TickMod THEN [q |-> q, panic |-> "tick"]
  ELSE [q |-> [q EXCEPT !.lbs = PopFrontExpired(Append(PopBackNotSmaller(q.lbs, size),
                                                       <<q.cur, size>>), c),
                        !.cur = c],
        panic |-> "none"]

\* get_min_queue_size
MinQueueSize(q) == q.lps + (IF q.lbs = <<>> THEN 0 ELSE Head(q.lbs)[2])

\* Position of the new packet: after the trailing run of packets whose id
\* is greater (take_while(|p| id < p.id) from the back).
RECURSIVE TrailingGreater(_, _)
TrailingGreater(s, id) ==
  IF s # <<>> /\ id < Last(s).id THEN 1 + TrailingGreater(Front(s), id) ELSE 0

\* (mutant) add_packet appending every packet at the back.
InsertIndexBack(buf, id) == Len(buf)

InsertIndex(buf, id) == Len(buf) - TrailingGreater(buf, id)

\* Wrapping distance of an id ahead of next_id (id.wrapping_sub(next_id)).
Ahead(id, nid) == (id - nid) % IdMod

\* (mutant) the count of lost packets without the + 1.
LostCountNoInc(q) ==
  IF q.buf = <<>> THEN 0 ELSE Ahead(Last(q.buf).id, q.nid) - Len(q.buf)

\* Packets missing between next_id and the last queued packet (as a
\* signed number: a negative value is the usize underflow).
LostCount(q) ==
  IF q.buf = <<>> THEN 0 ELSE Ahead(Last(q.buf).id, q.nid) + 1 - Len(q.buf)

\* decode_packet; `has` is packet.is_some().  The lost-packet count of
\* the sliding window uses last_packet_samples after it was updated.
DecodePacket(q, has, p, fec) ==
  LET len == IF has THEN p.samples ELSE q.lps
      q1 == [q EXCEPT !.loss = IF has /\ ~fec THEN 0 ELSE @ + 1,
                      !.dlen = q.dpos + len * ChannelNum,
                      !.lps  = len]
      missing == LostCount(q)
  IN  IF missing < 0 THEN [q |-> q1, panic |-> "underflow"]
      ELSE AddBufferSize(q1, q.bsamp + missing * len)

\* The packets kept by a truncation: the longest run from the back whose
\* running sample count stays below min.
RECURSIVE KeepCount(_, _, _)
KeepCount(s, acc, min) ==
  IF s = <<>> \/ acc + Last(s).samples >= min THEN 0
  ELSE 1 + KeepCount(Front(s), acc + Last(s).samples, min)

\* (mutant) truncation without recomputing packet_buffer_samples.
AdjustSpeedStaleSum(q) ==
  LET min == MinQueueSize(q)
      keep == KeepCount(q.buf, 0, min)
      nb == SubSeq(q.buf, Len(q.buf) - keep + 1, Len(q.buf))
  IN  IF min - q.lps > MaxBufferSize
      THEN [q EXCEPT !.buf = nb, !.nid = IF nb # <<>> THEN Head(nb).id ELSE @]
      ELSE IF min > q.lps
      THEN [q EXCEPT !.dlen = @ - ChannelNum * (q.lps \div SpeedChangeSteps)]
      ELSE q

\* The speed-up check after each decode: truncate or drop samples.
AdjustSpeed(q) ==
  LET min == MinQueueSize(q)
      keep == KeepCount(q.buf, 0, min)
      nb == SubSeq(q.buf, Len(q.buf) - keep + 1, Len(q.buf))
  IN  IF min - q.lps > MaxBufferSize
      THEN [q EXCEPT !.buf = nb, !.bsamp = SumSamples(nb),
                     !.nid = IF nb # <<>> THEN Head(nb).id ELSE @]
      ELSE IF min > q.lps
      THEN [q EXCEPT !.dlen = @ - ChannelNum * (q.lps \div SpeedChangeSteps)]
      ELSE q

\* (mutant) the loss test with >= instead of >.
LossDetectedGe(p, cur) == p.id >= cur

\* The head packet is ahead of the expected id: a loss.
LossDetected(p, cur) == p.id > cur

\* One iteration of the refill loop of get_next_data.
RefillStep(q) ==
  LET q0 == IF q.dpos < q.dlen
            THEN IF q.dpos > 0 THEN [q EXCEPT !.dlen = @ - q.dpos, !.dpos = 0]
                 ELSE q
            ELSE [q EXCEPT !.dlen = 0, !.dpos = 0]
      p == Head(q0.buf)
      cur == q0.nid
      q1 == [q0 EXCEPT !.buf = Tail(@), !.bsamp = @ - p.samples,
                       !.nid = (cur + 1) % IdMod]
      d == IF q0.buf = <<>> THEN DecodePacket(q0, FALSE, p, FALSE)
           ELSE IF LossDetected(p, cur)
           THEN LET r == DecodePacket(q1, p.id = q1.nid, p, p.id = q1.nid) IN
                [r EXCEPT !.q = [@ EXCEPT !.bsamp = @ + p.samples,
                                          !.buf = <<p>> \o @]]
           ELSE IF p.id # cur THEN [q |-> q1, panic |-> "assert"]
           ELSE DecodePacket(q1, TRUE, p, FALSE)
  IN  IF d.panic # "none" THEN d ELSE [d EXCEPT !.q = AdjustSpeed(@)]

RECURSIVE RefillLoop(_, _)
RefillLoop(q, len) ==
  IF q.dlen < q.dpos + len
  THEN LET s == RefillStep(q) IN
       IF s.panic # "none" THEN s ELSE RefillLoop(s.q, len)
  ELSE [q |-> [q EXCEPT !.dpos = @ + len], panic |-> "none"]

\* (mutant) buffering without counting buffered_for_samples.
GetNextDataNoCount(q, len) ==
  IF q.buffering > 0 /\ q.bfor < MaxBufferTime
  THEN [q |-> q, panic |-> "none"]
  ELSE RefillLoop(IF q.buffering > 0 THEN [q EXCEPT !.buffering = 0, !.bfor = 0]
                  ELSE q, len)

\* get_next_data: while buffering, count the time and return nothing;
\* after buffering for too long, stop buffering and play.
GetNextData(q, len) ==
  IF q.buffering > 0 /\ q.bfor < MaxBufferTime
  THEN [q |-> [q EXCEPT !.bfor = @ + len], panic |-> "none"]
  ELSE RefillLoop(IF q.buffering > 0 THEN [q EXCEPT !.buffering = 0, !.bfor = 0]
                  ELSE q, len)

SaturatingSub(a, b) == IF a > b THEN a - b ELSE 0

\* (mutant) the full check with > instead of >=.
QueueFullGt(q) == Len(q.buf) > MaxBufferPackets

\* "Audio queue is full, dropping"
QueueFull(q) == Len(q.buf) >= MaxBufferPackets

\* add_packet; the result is the new queue, or an error (the packet is
\* dropped), or a panic of `p.id + 1`.
AddPacket(q, p) ==
  LET i == InsertIndex(q.buf, p.id)
      lastId == IF q.buf = <<>> THEN p.id ELSE Last(q.buf).id + 1
      b1 == IF lastId <= p.id THEN SaturatingSub(q.buffering, p.samples) ELSE q.buffering
      b2 == IF lastId <= p.id THEN SaturatingSub(b1, (p.id - lastId) * q.lps) ELSE b1
  IN  IF QueueFull(q) THEN [q |-> q, panic |-> "none"]
      ELSE IF Ahead(p.id, q.nid) > MaxBufferPackets THEN [q |-> q, panic |-> "none"]
      ELSE IF q.buf # <<>> /\ Last(q.buf).id = IdMod - 1 THEN [q |-> q, panic |-> "overflow"]
      ELSE [q |-> [q EXCEPT !.buffering = b2, !.bsamp = @ + p.samples,
                            !.buf = InsertAt(@, i + 1, p)],
            panic |-> "none"]

\* AudioQueue::new: last_packet_samples from the first packet (in values of
\* both channels), a sliding window holding size 0, then add_packet.
NewQueue(p) ==
  AddPacket(AddBufferSize([nid |-> p.id, buf |-> <<>>, bsamp |-> 0, dlen |-> 0,
                           dpos |-> 0, lps |-> p.samples * ChannelNum, loss |-> 0,
                           buffering |-> 0, lbs |-> <<>>, cur |-> 0, bfor |-> 0],
                          0).q, p).q

-----------------------------------------------------------------------------
(* AudioHandler                                                             *)

Init ==
  /\ queues = [t \in {} |-> 0]
  /\ talkers_changed = FALSE
  /\ avg_buffer_samples = 0
  /\ panic = "none"
  /\ sent = [t \in Talkers |-> 0]
  /\ ended = [t \in Talkers |-> FALSE]
  /\ net = {}

Drop(f, t) == [x \in DOMAIN f \ {t} |-> f[x]]

\* handle_packet for a packet of talker t (all packets are Opus; a packet
\* of another codec is refused like a lost one).
HandlePacket(t, id, samples) ==
  LET p == [id |-> id, samples |-> samples]
      avg == IF DOMAIN queues # {}
             THEN MapThenSumSet(LAMBDA u : MinQueueSize(queues[u]), DOMAIN queues)
                    \div Cardinality(DOMAIN queues)
             ELSE avg_buffer_samples
  IN  IF t \in DOMAIN queues
      THEN IF samples = 0
           THEN /\ queues' = Drop(queues, t)
                /\ talkers_changed' = TRUE
                /\ UNCHANGED <<avg_buffer_samples, panic>>
           ELSE LET r == AddPacket(queues[t], p) IN
                /\ queues' = [queues EXCEPT ![t] = r.q]
                /\ panic' = r.panic
                /\ UNCHANGED <<talkers_changed, avg_buffer_samples>>
      ELSE IF samples = 0
           THEN UNCHANGED <<queues, talkers_changed, avg_buffer_samples, panic>>
           ELSE /\ avg_buffer_samples' = avg
                /\ queues' = queues @@ (t :> [NewQueue(p) EXCEPT !.buffering = avg])
                /\ talkers_changed' = TRUE
                /\ UNCHANGED panic

\* fill_buffer: talkers with MAX_PACKET_LOSSES consecutive losses are
\* removed, every other queue delivers its next data.
FillBuffer ==
  LET lost == {t \in DOMAIN queues : queues[t].loss >= MaxPacketLosses}
      play == DOMAIN queues \ lost
      r == [t \in play |-> GetNextData(queues[t], OutLen)]
      panics == {r[t].panic : t \in play} \ {"none"}
  IN  /\ panic = "none"
      /\ queues' = [t \in play |-> r[t].q]
      /\ panic' = IF panics = {} THEN "none" ELSE CHOOSE x \in panics : TRUE
      /\ talkers_changed' = (talkers_changed \/ lost # {})
      /\ UNCHANGED <<avg_buffer_samples, sent, ended, net>>

\* reset: delete all queues.
Reset ==
  /\ panic = "none"
  /\ queues' = [t \in {} |-> 0]
  /\ talkers_changed' = FALSE
  /\ UNCHANGED <<avg_buffer_samples, panic, sent, ended, net>>

\* talkers_changed(): read and clear the flag.
TakeTalkersChanged ==
  /\ panic = "none"
  /\ talkers_changed
  /\ talkers_changed' = FALSE
  /\ UNCHANGED <<queues, avg_buffer_samples, panic, sent, ended, net>>

-----------------------------------------------------------------------------
(* Talkers and the network                                                  *)

Send(m) == net' = IF Cardinality(net) < NetCap THEN net \cup {m} ELSE net

\* A talker sends its next audio packet.
SendAudio(t, s) ==
  /\ panic = "none"
  /\ ~ended[t] /\ sent[t] < MaxStream
  /\ Send(<<t, (StartId + sent[t]) % IdMod, s>>)
  /\ sent' = [sent EXCEPT ![t] = @ + 1]
  /\ UNCHANGED <<queues, talkers_changed, avg_buffer_samples, panic, ended>>

\* A talker stops talking: an empty packet.
SendEnd(t) ==
  /\ panic = "none"
  /\ ~ended[t]
  /\ Send(<<t, (StartId + sent[t]) % IdMod, 0>>)
  /\ ended' = [ended EXCEPT ![t] = TRUE]
  /\ UNCHANGED <<queues, talkers_changed, avg_buffer_samples, panic, sent>>

\* The connection hands an arriving packet to handle_packet.
Receive(m) ==
  /\ panic = "none"
  /\ m \in net
  /\ \E keep \in IF Duplicates THEN BOOLEAN ELSE {FALSE} :
       net' = IF keep THEN net ELSE net \ {m}
  /\ HandlePacket(m[1], m[2], m[3])
  /\ UNCHANGED <<sent, ended>>

Lose(m) ==
  /\ m \in net
  /\ net' = net \ {m}
  /\ UNCHANGED <<queues, talkers_changed, avg_buffer_samples, panic, sent, ended>>

Next ==
  \/ \E t \in Talkers : SendEnd(t) \/ \E s \in FrameSizes : SendAudio(t, s)
  \/ \E m \in net : Receive(m) \/ Lose(m)
  \/ FillBuffer
  \/ Reset
  \/ TakeTalkersChanged

\* A panic ends the program: no action is enabled after it.  The playback
\* callback runs periodically.
Spec == Init /\ [][Next]_vars /\ WF_vars(FillBuffer)

-----------------------------------------------------------------------------
(* Properties                                                               *)

\* The jitter buffer is in playing order: along packet_buffer the ids are
\* strictly increasing in distance ahead of next_id, through reordered
\* arrivals (add_packet's insertion point) and truncations.
QueueOrdered ==
  \A t \in DOMAIN queues :
    LET b == queues[t].buf  n == queues[t].nid IN
    \A i \in 1..(Len(b) - 1) : Ahead(b[i].id, n) < Ahead(b[i + 1].id, n)

\* packet_buffer_samples is the sum of the samples of the queued packets,
\* through inserts, pops, the push-back of a packet after a loss decode and
\* truncation.
BufferSamplesConsistent ==
  \A t \in DOMAIN queues : queues[t].bsamp = SumSamples(queues[t].buf)

\* No debug-build panic: not the overflow of p.id + 1 in add_packet (line
\* 162), the usize underflow of the lost-packet count in decode_packet
\* (213), the debug_assert of get_next_data (269) nor the overflow of
\* cur_last_buffer_sample += 1 in add_buffer_size (133).  next_id, the
\* push-back of a packet after a loss decode and the truncation of a long
\* buffer must keep the last queued id at or ahead of next_id + len - 1.
\* The code does panic when the ids wrap, a packet arrives twice or one
\* queue decodes TickMod times; this holds for streams that do none of it.
NoPanic == panic = "none"

\* A talker's queue is eventually removed once it exists: its queue
\* runs dry, concealment decodes count up packet_loss_num, and fill_buffer
\* removes it, also when the end-of-stream packet is lost and when the
\* queue was created buffering.
TalkersEventuallyRemoved ==
  \A t \in Talkers : (t \in DOMAIN queues) ~> (t \notin DOMAIN queues)

====
