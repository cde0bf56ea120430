----------------------------- MODULE PacketList ------------------------------
(* The packet list of a port: AbstractPort::updatePacketList builds it from  *)
(* the streams, PcapTxThread keeps it as packet sequences and walks it to    *)
(* transmit, to insert timing tags and to account stream statistics.         *)
(*                                                                           *)
(* A packet is the stream it is of, the index of the frame whose bytes it    *)
(* has and its time.  Time is in ticks, Second of them a second where the    *)
(* code has 10^9; a rate is [n, d], n packets (bursts) in d seconds, n = 0   *)
(* for as fast as possible.                                                  *)
EXTENDS StreamBase

CONSTANTS Second,             \* ticks in a second
          LineDelay,          \* ticks of a packet at line rate
          SequencePackets,    \* packets that fit the queue of a PacketSequence
          minPacketSetSize,   \* of the port's platform
          MinGaps,            \* minGap * MinGaps is the least list duration (100)
          IntRange,           \* the values of an int, 2^32 in the code
          CounterRange        \* the values of a quint64, 2^64 in the code

kTtagTimeInterval == 5

-----------------------------------------------------------------------------
(* PcapTxThread: the list                                                    *)

clearPacketList ==
  [seqs |-> <<>>, cur |-> 0, repeatStart |-> 0, repeatSize |-> 0, packetCount |-> 0,
   packetListSize |-> 0, loop |-> FALSE, firstTtagPkt |-> -1, ttagDeltas |-> <<>>]

NewSequence(repeats, delay) ==
  [pkts |-> <<>>, repeatCount |-> repeats, repeatSize |-> 1, delay |-> delay]

loopNextPacketSet(q, size, repeats, delay) ==
  [q EXCEPT !.seqs = Append(@, NewSequence(repeats, delay)), !.cur = Len(q.seqs) + 1,
            !.repeatStart = Len(q.seqs) + 1, !.repeatSize = size, !.packetCount = 0]

\* A full queue makes a new sequence and leaves the gap to its first packet
\* as the delay of the old one.
MakeRoom(q, pkt) ==
  LET old == q.seqs[q.cur]
  IN IF Len(old.pkts) < SequencePackets THEN q
     ELSE [q EXCEPT !.seqs = Append([@ EXCEPT ![q.cur].delay = pkt.time - Last(old.pkts).time],
                                    NewSequence(1, 0)),
                    !.cur = Len(q.seqs) + 1]

\* The last packet of a set: a set of several sequences is repeated as a whole.
EndSet(q) ==
  IF q.repeatSize = 0 \/ q.packetCount # q.repeatSize THEN q
  ELSE LET start == q.repeatStart
           closed == [q EXCEPT !.repeatSize = 0, !.cur = 0]
       IN IF q.cur = start THEN closed
          ELSE [closed EXCEPT !.seqs = [@ EXCEPT ![q.cur].delay = q.seqs[start].delay,
                                                 ![start].delay = 0,
                                                 ![start].repeatSize = Len(q.seqs) - start + 1]]

AddPacket(q, pkt) ==
  [q EXCEPT !.seqs[q.cur].pkts = Append(@, pkt), !.packetCount = @ + 1,
            !.packetListSize = @ + IF q.repeatSize > 0 THEN q.seqs[q.cur].repeatCount ELSE 1]

appendToPacketList(q, pkt) ==
  CHOOSE r \in {EndSet(added) : added \in {AddPacket(room, pkt) : room \in {MakeRoom(q, pkt)}}}
    : TRUE

setPacketListLoopMode(q, loop) == [q EXCEPT !.loop = loop]

setPacketListTtagMarkers(q, markers, repeatInterval) ==
  IF markers = <<>> THEN [q EXCEPT !.firstTtagPkt = -1, !.ttagDeltas = <<>>]
  ELSE [q EXCEPT !.firstTtagPkt = markers[1],
                 !.ttagDeltas = [k \in 1..(Len(markers) - 1) |-> markers[k + 1] - markers[k]]
                                \o <<repeatInterval - Last(markers) + markers[1]>>]

-----------------------------------------------------------------------------
(* Sequential streams                                                        *)

Ceil(a, b) == (a + b - 1) \div b
Rate(s) == IF s.control.unit = "bursts" THEN s.control.bursts_per_sec
           ELSE s.control.packets_per_sec

\* The gap of a rate as the code splits it: the first `longer` of `count` gaps
\* are the ceiling, the others the floor.
Gaps(rate, count) ==
  IF rate.n = 0 THEN [floor |-> 0, ceil |-> 0, longer |-> 0]
  ELSE LET g == Second * rate.d
       IN [floor |-> g \div rate.n, ceil |-> Ceil(g, rate.n),
           longer |-> ((g % rate.n) * count) \div rate.n]

GapAt(g, j) == IF j < g.longer THEN g.ceil ELSE g.floor

\* The smallest multiple of the variable count that is a large enough set.
SetSizeMin(fvc) == IF fvc < minPacketSetSize THEN minPacketSetSize ELSE fvc
SetSize(fvc) == fvc * (IF fvc < minPacketSetSize THEN Ceil(minPacketSetSize, fvc) ELSE 1)

\* n sets of x packets and y packets more; full is x also when n is 0.
SplitIntoSets(s, total, x) ==
  [n |-> total \div x, x |-> IF total < x THEN 0 ELSE x, y |-> total % x, full |-> x,
   burstSize |-> IF s.control.unit = "bursts" THEN s.control.packets_per_burst
                 ELSE x + (total % x)]

SetsOf(s) ==
  CHOOSE p \in {SplitIntoSets(s, frameCount(s), IF s.control.unit = "bursts"
                                                THEN lcm(fvc, s.control.packets_per_burst)
                                                ELSE SetSize(fvc))
                : fvc \in {frameVariableCount(s)}} : TRUE

\* The gap after packet j of a stream's sets.
GapAfter(s, p, j) ==
  LET endsBurst == j > 0 /\ (j + 1) % p.burstSize = 0
      isBurst == s.control.unit = "bursts"
  IN CASE isBurst /\ endsBurst -> GapAt(Gaps(Rate(s), p.full), j)
       [] isBurst # endsBurst -> 0
       [] OTHER -> IF j < p.x THEN GapAt(Gaps(Rate(s), p.full), j)
                   ELSE GapAt(Gaps(Rate(s), p.y), j - p.x)

loopDelay(s) == Gaps(Rate(s), 0).floor

\* A packet has the guid that SignProtocol::packetGuid reads from its bytes, -1
\* when it has no signature.
Packet(s, frame, time) ==
  [stream |-> s.id, frame |-> frame, time |-> time,
   guid |-> packetGuid(frameValue(s, 16384, frame))]

\* The packets of one stream, appended; b.time goes on from stream to stream.
\* A stream with one frame content repeats frame 0.
AppendFrame(b, s, p, fvc, j) ==
  LET q == IF j = p.x THEN loopNextPacketSet(b.q, p.y, 1, loopDelay(s)) ELSE b.q
  IN [b EXCEPT !.q = appendToPacketList(q, Packet(s, IF fvc > 1 THEN j ELSE 0, b.time)),
               !.time = @ + GapAfter(s, p, j)]

AppendSets(b, s, p, fvc) ==
  LET first == IF p.n >= 1 THEN loopNextPacketSet(b.q, p.x, p.n, loopDelay(s)) ELSE b.q
  IN FoldOver(LAMBDA a, j : AppendFrame(a, s, p, fvc, j), [b EXCEPT !.q = first],
              [j \in 1..(p.x + p.y) |-> j - 1])

AppendStream(b, s) ==
  CHOOSE r \in {AppendSets(b, s, p, fvc) : p \in {SetsOf(s)}, fvc \in {frameVariableCount(s)}} : TRUE

\* The packets between two timing tags, and the markers of a stream.
ttagPktInterval(s) ==
  (kTtagTimeInterval * Second) \div (IF loopDelay(s) = 0 THEN LineDelay ELSE loopDelay(s))

TtagMarkers(s, totalPkts) ==
  IF ~hasProtocol(s, "sign") THEN <<>>
  ELSE [k \in 1..Ceil(frameCount(s), ttagPktInterval(s)) |->
          totalPkts + (k - 1) * ttagPktInterval(s)]

\* The loop that places the markers never ends when a packet takes longer
\* than the tag interval.
TtagLoopEnds(s) == hasProtocol(s, "sign") /\ frameCount(s) > 0 => ttagPktInterval(s) > 0

ttagRepeatInterval(markers, duration, totalPkts) ==
  LET n == (kTtagTimeInterval * Second) \div duration
  IN IF markers = <<>> THEN 0 ELSE totalPkts * IF n > 1 THEN n ELSE 1

\* The streams that transmit, in the order of their ordinals.
Enabled(streams) ==
  SelectSeq(SortSeq(streams, LAMBDA a, b : a.ordinal < b.ordinal), LAMBDA s : s.enabled)

\* The streams up to the first after which transmission stops or starts over.
Reached(streams) ==
  LET ends == {k \in DOMAIN streams : streams[k].control.next # "goto_next"}
  IN IF ends = {} THEN streams
     ELSE SubSeq(streams, 1, CHOOSE k \in ends : \A m \in ends : k <= m)

StreamTime(s) == frameCount(s) * IF loopDelay(s) = 0 THEN LineDelay ELSE loopDelay(s)

AddStream(b, s) ==
  CHOOSE r \in {[a EXCEPT !.markers = @ \o TtagMarkers(s, b.total), !.total = @ + frameCount(s),
                          !.duration = @ + StreamTime(s)] : a \in {AppendStream(b, s)}} : TRUE

FinishList(b, loop, duration, total) ==
  setPacketListTtagMarkers(setPacketListLoopMode(b.q, loop), b.markers,
                           ttagRepeatInterval(b.markers, duration, total))

SequentialList(todo) ==
  FoldOver(AddStream, [q |-> clearPacketList, time |-> 0, markers |-> <<>>, total |-> 0,
                       duration |-> 0], todo)

SequentialOf(todo) ==
  CHOOSE q \in {FinishList(b, todo # <<>> /\ Last(todo).control.next = "goto_id",
                           b.duration, b.total) : b \in {SequentialList(todo)}} : TRUE

updatePacketListSequential(streams) ==
  CHOOSE q \in {SequentialOf(todo) : todo \in {Reached(Enabled(streams))}} : TRUE

-----------------------------------------------------------------------------
(* Interleaved streams                                                       *)

\* "Not scheduled yet" as the code tests it, on seconds and rest apart.
NotScheduledYet(sched, now) ==
  sched \div Second > now \div Second \/ sched % Second > now % Second

\* Here the longer gaps are counted for one second.
GapsPerSecond(rate) ==
  IF rate.n = 0 THEN Gaps(rate, 0)
  ELSE [Gaps(rate, 0) EXCEPT !.longer = ((Second * rate.d) % rate.n) \div rate.d]

BurstSize(s) == IF s.control.unit = "bursts" THEN s.control.packets_per_burst ELSE 1

\* The least and the longest gap of the streams decide the clock's step and
\* the duration of the list.
minGap(active) ==
  LET gaps == {loopDelay(active[k]) : k \in DOMAIN active} \ {0}
  IN IF gaps = {} THEN 1 ELSE Min(gaps)

ListDuration(active) ==
  LET gap(s) == LET g == GapsPerSecond(Rate(s))
                IN IF s.control.unit = "bursts" \/ g.longer > 0 THEN g.ceil ELSE g.floor
  IN Max({gap(active[k]) : k \in DOMAIN active} \cup {minGap(active) * MinGaps})

\* A burst of stream s, the k-th, at time now.
SendBurst(b, s, k, now, g, tagged) ==
  LET n == BurstSize(s)
      frame(j) == IF isFrameVariable(s) THEN b.pktCount[k] + j - 1 ELSE 0
      sent == IF s.control.unit = "bursts" THEN b.burstCount[k] ELSE b.pktCount[k]
  IN [b EXCEPT !.pkts = @ \o [j \in 1..n |-> Packet(s, frame(j), now)],
               !.markers = IF tagged THEN Append(@, Len(b.pkts)) ELSE @,
               !.ttagSched[k] = IF tagged THEN b.sched[k] + kTtagTimeInterval * Second ELSE @,
               !.sched[k] = @ + GapAt(g, sent + 1), !.pktCount[k] = @ + n,
               !.burstCount[k] = @ + 1]

\* One stream's turn at time now: a burst when it is due.
StreamTurn(b, s, k, now) ==
  IF NotScheduledYet(b.sched[k], now) THEN b
  ELSE CHOOSE r \in {SendBurst(b, s, k, now, g, hasProtocol(s, "sign") /\ b.sched[k] >= b.ttagSched[k])
                     : g \in {GapsPerSecond(Rate(s))}} : TRUE

Round(b, active, now) ==
  FoldOver(LAMBDA c, k : StreamTurn(c, active[k], k, now), b, [k \in DOMAIN active |-> k])

\* The turns of all streams, one round every minGap until the duration.
Rounds(active, gap, duration) ==
  FoldOver(LAMBDA b, m : Round(b, active, (m - 1) * gap),
           [pkts |-> <<>>, markers |-> <<>>, sched |-> [k \in DOMAIN active |-> 0],
            ttagSched |-> [k \in DOMAIN active |-> 0], pktCount |-> [k \in DOMAIN active |-> 0],
            burstCount |-> [k \in DOMAIN active |-> 0]],
           [m \in 1..Ceil(duration, gap) |-> m])

\* The whole list is one set, sent once a pass.
OneSet(b, duration) ==
  [q |-> FoldOver(appendToPacketList,
                  loopNextPacketSet(clearPacketList, Len(b.pkts), 1, duration - Last(b.pkts).time),
                  b.pkts),
   markers |-> b.markers]

InterleavedOf(active, gap, duration) ==
  CHOOSE q \in {FinishList(OneSet(b, duration), TRUE, duration, Len(b.pkts))
                : b \in {Rounds(active, gap, duration)}} : TRUE

updatePacketListInterleaved(streams) ==
  CHOOSE q \in {IF active = <<>> THEN clearPacketList
                ELSE InterleavedOf(active, minGap(active), ListDuration(active))
                : active \in {Enabled(streams)}} : TRUE

updatePacketList(mode, streams) ==
  IF mode = "sequential" THEN updatePacketListSequential(streams)
  ELSE updatePacketListInterleaved(streams)

-----------------------------------------------------------------------------
(* Transmission                                                              *)

\* A packet as sent, with the wait after it: up to the next packet of its
\* sequence, or the delay of the sequence.
SentOf(seq) ==
  [m \in DOMAIN seq.pkts |->
     [stream |-> seq.pkts[m].stream, frame |-> seq.pkts[m].frame, guid |-> seq.pkts[m].guid,
      wait |-> IF m < Len(seq.pkts) THEN seq.pkts[m + 1].time - seq.pkts[m].time
               ELSE seq.delay]]

\* The loops of PcapTxThread::run over the list, once: the sequences in the
\* order they are sent in, every set the number of times it is repeated.
Walk(q) ==
  LET set(i) == [k \in 1..q.seqs[i].repeatSize |-> q.seqs[i + k - 1]]
      times(i) == FlattenSeq([j \in 1..q.seqs[i].repeatCount |-> set(i)])
      from[i \in 1..(Len(q.seqs) + 1)] ==
        IF i > Len(q.seqs) THEN <<>>
        ELSE times(i) \o from[i + q.seqs[i].repeatSize]
  IN from[1]

Transmission(q) ==
  CHOOSE r \in {FlattenSeq([k \in DOMAIN w |-> SentOf(w[k])]) : w \in {Walk(q)}} : TRUE

\* The packets among the first n sent that carry a timing tag: nextTtagPkt
\* advances by the deltas in turn.
Tagged(q, n) ==
  LET at[m \in Nat] == IF m = 0 THEN q.firstTtagPkt
                       ELSE at[m - 1] + q.ttagDeltas[1 + ((m - 1) % Len(q.ttagDeltas))]
  IN IF q.firstTtagPkt < 0 THEN {} ELSE {at[m] : m \in 0..n} \cap 0..(n - 1)

\* updateTxStreamStats, for one guid g.  stats_->pkts went from last to pkts;
\* the counter's wrap is taken for one packet less than it is.
TxPkts(last, pkts) == IF pkts > last THEN pkts - last ELSE pkts + (CounterRange - 1) - last

ToSigned(x) == ((x + IntRange \div 2) % IntRange) - IntRange \div 2

streamStatsMeta(seq, g) == Cardinality({m \in DOMAIN seq.pkts : seq.pkts[m].guid = g})

\* c complete repeats of the list, counted set by set: c and its product with
\* the repeats of the set are ints.
WholePasses(q, c, g) ==
  LET set(i) == Sum([k \in 1..q.seqs[i].repeatSize |-> streamStatsMeta(q.seqs[i + k - 1], g)])
      from[i \in 1..(Len(q.seqs) + 1)] ==
        IF i > Len(q.seqs) THEN 0
        ELSE ToSigned(c * q.seqs[i].repeatCount) * set(i) + from[i + q.seqs[i].repeatSize]
  IN from[1]

\* The last, partial repeat: of d packets left, those of this sequence.
\* Mutant: the packets of a sequence that was sent whole are not taken off.
RestOfSeqAgain(a, seq, g) ==
  IF a.d >= Len(seq.pkts)
  THEN [a EXCEPT !.count = @ + streamStatsMeta(seq, g)]
  ELSE [d |-> 0, count |-> a.count + Cardinality({m \in 1..a.d : seq.pkts[m].guid = g})]
RestOfSeq(a, seq, g) ==
  IF a.d >= Len(seq.pkts)
  THEN [d |-> a.d - Len(seq.pkts), count |-> a.count + streamStatsMeta(seq, g)]
  ELSE [d |-> 0, count |-> a.count + Cardinality({m \in 1..a.d : seq.pkts[m].guid = g})]

updateTxStreamStats(q, last, pkts, g) ==
  LET n == TxPkts(last, pkts)
      rest == FoldOver(LAMBDA a, seq : RestOfSeq(a, seq, g),
                       [d |-> n % q.packetListSize, count |-> 0], Walk(q))
  IN IF q.packetListSize = 0 THEN 0
     ELSE (WholePasses(q, ToSigned(n \div q.packetListSize), g) + rest.count) % CounterRange

=============================================================================
