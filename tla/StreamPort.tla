----------------------------- MODULE StreamPort ------------------------------
(* A port whose streams are edited and whose packet list is rebuilt from     *)
(* them: the functions of StreamBase and PacketList over every stream a few  *)
(* edits reach.                                                              *)
EXTENDS PacketList

CONSTANTS
  StartStreams,    \* the sequences of streams a port may start with
  FieldEdits,      \* a sequence of <<class, field, value>>: calls of setFieldData
  Insertions,      \* protocols the user may insert
  Variations,      \* variable fields the user may append
  Lengths,         \* core settings a stream may be given
  Controls,        \* control settings a stream may be given
  Replacements,    \* [p, f, find, findMask, replace, replaceMask]: find and replace
  MaxEdits         \* bound on the number of edits

VARIABLES
  streams,         \* AbstractPort::streamList_
  transmitMode,    \* data_.transmit_mode
  queue,           \* the transmitter's packet list
  isSendQueueDirty,
  edits            \* the number of edits made

vars == <<streams, transmitMode, queue, isSendQueueDirty, edits>>

Init ==
  /\ streams \in StartStreams
  /\ transmitMode = "sequential" /\ queue = clearPacketList
  /\ isSendQueueDirty = TRUE /\ edits = 0

\* protoDataCopyFrom a stream with one thing changed; the port is dirty.
Change(k, s) ==
  /\ edits < MaxEdits /\ edits' = edits + 1
  /\ streams' = [streams EXCEPT ![k] = s]
  /\ isSendQueueDirty' = TRUE
  /\ UNCHANGED <<transmitMode, queue>>

\* setFieldData of leaf j of protocol m; a ComboProtocol passes it on.
SetField(k, m, j, e) ==
  LET d == streams[k].protos[m].leaves[j]
  IN /\ d.p = e[1]
     /\ Change(k, [streams[k] EXCEPT !.protos[m].leaves[j] = SetFieldData(d, e[2], e[3])])

\* ProtocolListIterator::insert and remove.
InsertProtocol(k, m, n) ==
  LET p == streams[k].protos
  IN Change(k, [streams[k] EXCEPT !.protos = SubSeq(p, 1, m - 1) \o <<n>> \o SubSeq(p, m, Len(p))])

RemoveProtocol(k, m) ==
  Change(k, [streams[k] EXCEPT !.protos = SubSeq(@, 1, m - 1) \o SubSeq(@, m + 1, Len(@))])

\* The count that a protocol caches is that of the client's copy: the stream
\* the server makes of it has new protocols, which compute theirs.
AppendVariableField(k, m, vf) ==
  Change(k, [streams[k] EXCEPT !.protos[m].vf = Append(@, vf)])

\* setLenMode, setFrameLen, setFrameLenMin and setFrameLenMax.
SetLength(k, c) == Change(k, [streams[k] EXCEPT !.core = c])

\* setSendUnit, setNumPackets, setNumBursts, setBurstSize, setPacketRate,
\* setBurstRate and setNextWhat.
SetControl(k, c) == Change(k, [streams[k] EXCEPT !.control = c])

\* protocolFieldReplace.
ReplaceField(k, r) ==
  Change(k, FindReplace(streams[k], r.p, r.f, r.find, r.findMask, r.replace, r.replaceMask))

ModifyPort ==
  /\ transmitMode' = IF transmitMode = "sequential" THEN "interleaved" ELSE "sequential"
  /\ isSendQueueDirty' = TRUE
  /\ UNCHANGED <<streams, queue, edits>>

\* updatePacketList, for streams whose timing tags can be placed.
Build ==
  /\ isSendQueueDirty
  /\ transmitMode = "sequential" => \A k \in DOMAIN streams : TtagLoopEnds(streams[k])
  /\ \E q \in {updatePacketList(transmitMode, streams)} : queue' = q
  /\ isSendQueueDirty' = FALSE
  /\ UNCHANGED <<streams, transmitMode, edits>>

Edit(k) ==
  \/ \E m \in DOMAIN streams[k].protos : \E j \in DOMAIN streams[k].protos[m].leaves :
       \E n \in DOMAIN FieldEdits : SetField(k, m, j, FieldEdits[n])
  \/ \E m \in 1..(Len(streams[k].protos) + 1) : \E n \in Insertions : InsertProtocol(k, m, n)
  \/ \E m \in DOMAIN streams[k].protos : RemoveProtocol(k, m)
  \/ \E m \in DOMAIN streams[k].protos : \E vf \in Variations : AppendVariableField(k, m, vf)
  \/ \E c \in Lengths : SetLength(k, c)
  \/ \E c \in Controls : SetControl(k, c)
  \/ \E r \in Replacements : ReplaceField(k, r)

Next ==
  \/ \E k \in DOMAIN streams : Edit(k)
  \/ ModifyPort
  \/ Build

Spec == Init /\ [][Next]_vars

-----------------------------------------------------------------------------
(* Properties                                                                *)

FieldBits(f) == SubSeq(BitsOf(f.v), 8 * Len(f.v) - f.b + 1, 8 * Len(f.v))

\* The bits of a frame of the list built are the bits of its fields one after the other: what
\* AbstractProtocol::protocolFrameValue packs into bytes, with fields that
\* start and end within bytes, is the concatenation of the fields.
FieldsInPlace ==
  ~isSendQueueDirty => \A k \in DOMAIN streams : \A sz \in {Sizes(streams[k], 1)} :
    \A m \in DOMAIN streams[k].protos : \A j \in DOMAIN streams[k].protos[m].leaves :
      \A q \in {LeafFields(streams[k], 1, sz, m, j)} :
        BitsOf(Pack(q, FALSE)) = FlattenSeq([n \in DOMAIN q |-> FieldBits(q[n])])

\* The leaves of a stream in order, each with its offset in the frame.
LeafOffset(s, sz, m, j) ==
  protocolFrameOffset(sz, m) + Sum([n \in 1..(j - 1) |-> LeafSize(s.protos[m].leaves[n])])

Layout(s, sz) ==
  FlattenSeq([m \in DOMAIN s.protos |->
    [j \in DOMAIN s.protos[m].leaves |->
       [d |-> s.protos[m].leaves[j], o |-> LeafOffset(s, sz, m, j), m |-> m]]])

\* What a receiver computes from the bytes b of a datagram from offset o on.
WordAt(b, o) == 256 * b[o + 1] + b[o + 2]
From(b, o) == SubSeq(b, o + 1, Len(b))
Verifies(sum) == Fold16(sum) = 65535

ReceiverIp4(b, o) ==
  /\ WordAt(b, o + 2) = Len(b) - o
  /\ Verifies(WordSum(SubSeq(b, o + 1, o + 4 * (b[o + 1] % 16))))

ReceiverIp6(b, o) == WordAt(b, o + 4) = Len(b) - o - 40

\* ips: the IP headers before the segment; the last one carries it.
ReceiverSum(L, ips, b, o, proto) ==
  LET ip == L[Max(ips)].o
  IN WordSum(From(b, o)) +
     IF ips = {} THEN 0
     ELSE WordSum(IF b[ip + 1] \div 16 = 4 THEN SubSeq(b, ip + 13, ip + 20)
                  ELSE SubSeq(b, ip + 9, ip + 40)) + Len(b) - o + proto

\* A receiver's view of leaf d at offset o.
ReceiverTakes(L, ips, b, d, o) ==
  CASE d.p = "ip4" -> ReceiverIp4(b, o)
    [] d.p = "ip6" -> ReceiverIp6(b, o)
    [] d.p = "udp" -> WordAt(b, o + 4) = Len(b) - o /\ Verifies(ReceiverSum(L, ips, b, o, 17))
    [] d.p = "tcp" -> Verifies(ReceiverSum(L, ips, b, o, 6))
    [] d.p \in {"icmp", "mld"} ->
         Verifies(ReceiverSum(L, IF d.p = "icmp" /\ d.icmp_version = "kIcmp4" THEN {} ELSE ips,
                              b, o, 58))
    [] d.p = "igmp" -> Verifies(ReceiverSum(L, {}, b, o, 0))
    [] d.p = "gre" -> HasFlag(d, 8) => Verifies(ReceiverSum(L, {}, b, o, 0))
    [] d.p = "dot3" -> WordAt(b, o) = Len(b) - o - 2
    [] OTHER -> TRUE

Plain(s, x) ==
  /\ x.d.p \in {"ip4", "ip6", "dot3", "udp", "tcp", "icmp", "igmp", "mld", "gre"} =>
       \A v \in Range(s.protos[x.m].vf) : v.offset + Len(v.mask) <= 2 /\ x.d.p \in {"udp", "tcp"}
  /\ x.d.p \in {"udp", "tcp", "icmp", "igmp", "mld", "gre"} => x.o % 2 = 0

Fills(s) == s.core.len_mode = "fixed" \/ isFrameSizeVariable(s)
SignatureIntact(s) ==
  \A m \in DOMAIN s.protos :
    s.protos[m].leaves[1].p = "sign" => s.protos[m].vf = <<>> /\ m = Len(s.protos)

\* The signature of a stream, -1 when it has none.
GuidOf(s) ==
  LET k == CHOOSE m \in DOMAIN s.protos : s.protos[m].leaves[1].p = "sign"
  IN IF hasProtocol(s, "sign") THEN s.protos[k].leaves[1].stream_guid ELSE -1

\* SignProtocol::packetGuid finds the stream in the frames of s.  Not when a payload of
\* no bytes adds one, when the lengths vary and nothing fills them, or when the
\* signature is not last or a variable field overwrites it: none of these is checked.
Signs(s) == preflightCheck(s) /\ hasProtocol(s, "sign") /\ Fills(s) /\ SignatureIntact(s)
SignatureFound(s, i) == Signs(s) => packetGuid(frameValue(s, 16384, i)) = GuidOf(s)

\* The receiver of a frame of the list built finds its lengths and checksums right: what udp,
\* tcp, icmp, igmp, mld, gre, ip4, ip6 and dot3 derive from the protocols
\* before and after them (AbstractProtocol::protocolFrameCksum and
\* protocolFramePayloadSize) is true of the bytes sent, whatever the fields
\* and the stream index vary.  Not for a header that a variable field
\* overwrites, not for a payload of no bytes, of which PayloadProtocol makes
\* one, and not for a checksum that starts at an odd offset, where
\* protocolFramePayloadCksum swaps the wrong bytes.  And PcapRxStats finds the
\* signature of a stream that passes StreamBase::preflightCheck.
ReceiverAccepts ==
  ~isSendQueueDirty => \A k \in DOMAIN streams : \A i \in 0..1 :
    \A sz \in {Sizes(streams[k], i)}, parts \in {ProtocolBytes(streams[k], i)} :
      (\A m \in DOMAIN parts : Len(parts[m]) = sz[m]) => SignatureFound(streams[k], i) /\
        \A L \in {Layout(streams[k], sz)}, b \in {FlattenSeq(parts)} : \A q \in DOMAIN L :
          (\A r \in 1..q : Plain(streams[k], L[r])) =>
             ReceiverTakes(L, {r \in 1..(q - 1) : L[r].d.p \in {"ip4", "ip6"}}, b, L[q].d, L[q].o)

-----------------------------------------------------------------------------

\* No set of packets was too large for one sequence.
Unsplit(q) == \A i \in DOMAIN q.seqs : q.seqs[i].repeatSize = 1

\* The bytes sent k-th for a stream are those of its frame k.
FramesInOrder(s, sent) ==
  \A frames \in {Strict([k \in DOMAIN sent |-> frameValue(s, 16384, k - 1)])} :
    \A k \in DOMAIN sent : frames[1 + sent[k].frame] = frames[k]

\* Between two packets (bursts) of a stream there is its gap, to a tick.
GapsKept(s, sent) ==
  \A k \in 1..(Len(sent) - 1) :
    sent[k].wait \in IF k % BurstSize(s) = 0 THEN {loopDelay(s), Gaps(Rate(s), 0).ceil} ELSE {0}

\* What was sent of a stream that sends all its frames.
SentAll(s, sent) ==
  /\ Len(sent) = frameCount(s)
  /\ FramesInOrder(s, sent)
  /\ Unsplit(queue) /\ (s.control.unit = "packets" \/ BurstSize(s) > 1) => GapsKept(s, sent)

\* A transmission sends exactly the frames of the streams it reaches, in
\* order, at their rate: the sets of packets updatePacketListSequential
\* repeats, split into sequences by PcapTxThread::appendToPacketList and
\* walked by PcapTxThread::run, stand for frames 0 .. frameCount - 1, and an
\* interleaved list for the first frames of every stream.  The gaps are
\* those of lists that are not split, in bursts of more than one packet.
SendsEveryFrame ==
  ~isSendQueueDirty =>
    \A active \in {Enabled(streams)}, pass \in {Transmission(queue)} :
      \A k \in 1..Len(IF transmitMode = "sequential" THEN Reached(active) ELSE active) :
        \A s \in {active[k]}, sent \in {SelectSeq(pass, LAMBDA p : p.stream = active[k].id)} :
          IF transmitMode = "sequential" THEN SentAll(s, sent)
          ELSE Fills(s) => FramesInOrder(s, sent)

Passes == IF queue.loop THEN 3 ELSE 1

\* The packets that count when n were sent after the counter stood at last: the
\* difference of a counter that has wrapped is one short.
Known(last, n) == IF last + n < CounterRange THEN n ELSE n - 1

\* The products of passes and repeats are ints.
FitsInt(n) == \A i \in DOMAIN queue.seqs :
                (n \div queue.packetListSize) * queue.seqs[i].repeatCount < IntRange \div 2

SentOfStream(pass, id, n) ==
  Cardinality({m \in 0..(n - 1) : pass[1 + (m % Len(pass))].stream = id})

\* The statistics of a stream are what was sent of it, wherever the
\* transmission was stopped and wherever the port's counter stood when it began
\* (updateTxStreamStats counts whole passes from the sequences' own counts and
\* walks the rest).  Not when a pass of a set split into sequences is repeated,
\* of which packetListSize_ counts only the first sequence more than once, and
\* not past the range of an int.  And a timing tag is written only into a
\* packet of a stream with a signature, also in later passes of a list that
\* repeats (the markers of updatePacketList, the deltas of
\* setPacketListTtagMarkers).
StatsExact ==
  \A pass \in {Transmission(queue)} : \A T \in {Len(pass)} :
    ~isSendQueueDirty /\ T > 0 =>
      /\ \A n \in Tagged(queue, Passes * T), k \in DOMAIN streams :
           pass[1 + (n % T)].stream = streams[k].id => hasProtocol(streams[k], "sign")
      /\ queue.packetListSize = T =>
           \A n \in {1, T - 1, T, T + 1, 2 * T + 1, 3 * T} \cap 1..(Passes * T) :
             \A k \in DOMAIN streams, last \in {0, CounterRange - 1 - T} :
               FitsInt(n) /\ Signs(streams[k]) =>
                 updateTxStreamStats(queue, last, (last + n) % CounterRange, GuidOf(streams[k]))
                   = SentOfStream(pass, streams[k].id, Known(last, n))

=============================================================================
