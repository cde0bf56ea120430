------------------------------ MODULE Protocols ------------------------------
(* The payload protocol classes of common/ (payload, hexdump, sign,          *)
(* textproto, sample, userscript), and what every class answers through the  *)
(* virtual functions of AbstractProtocol: protocolIdType, protocolId,        *)
(* fieldData, setFieldData, protocolFrameVariableCount and hasErrors.        *)
EXTENDS Transport

(* payload, hexdump, text                                                    *)

Payload == [p |-> "payload", pattern_mode |-> "fixed_word", pattern |-> Fill(4, 0)]

\* An empty payload still yields one byte.
PayloadFields(d, i, c) ==
  LET dataLen == IF c.size <= 0 THEN 1 ELSE c.size
      byte(j) == CASE d.pattern_mode = "fixed_word" -> d.pattern[1 + (j % 4)]
                   [] d.pattern_mode = "inc_byte" -> j % 256
                   [] d.pattern_mode = "dec_byte" -> 255 - (j % 256)
  IN <<Raw("pattern", [j \in 1..dataLen |-> byte(j - 1)])>>

PayloadSetFieldData(d, f, v) ==
  IF f = "pattern_mode" THEN PutMode(d, f, v, {"fixed_word", "inc_byte", "dec_byte"})
  ELSE Put(d, f, v)

HexDump == [p |-> "hexdump", content |-> NoBytes, pad_until_end |-> TRUE]

HexDumpFields(d, i, c) ==
  <<Raw("content", d.content \o Fill(c.size - Len(d.content), 0))>>

HexDumpSetFieldData(d, f, v) == Put(d, f, v)

TextProto == [p |-> "text", port_num |-> 80, eol |-> "kLf", text |-> NoBytes]

TextFields(d, i, c) ==
  LET ends == CASE d.eol = "kLf" -> <<10>> [] d.eol = "kCr" -> <<13>>
                [] d.eol = "kCrLf" -> <<13, 10>>
  IN <<Raw("text", FlattenSeq([k \in DOMAIN d.text |->
                                 IF d.text[k] = 10 THEN ends ELSE <<d.text[k]>>]))>>

TextSetFieldData(d, f, v) ==
  IF f = "eol" THEN PutMode(d, f, v, {"kLf", "kCr", "kCrLf"}) ELSE Put(d, f, v)

-----------------------------------------------------------------------------
(* sign: the trailer by which a receiver finds the stream a packet is of     *)

Sign == [p |-> "sign", stream_guid |-> 0]

kSignMagic == <<29, 16, 192, 218>>
kTypeLenEnd == 0
kTypeLenTxPort == 36
kTypeLenGuid == 97
kTypeLenTtagPlaceholder == 34

SignFields(d, i, c) ==
  <<U8("tlv_end", kTypeLenEnd),
    Raw("tlv_tx_port", <<c.portId % 256, kTypeLenTxPort>>),
    Raw("tlv_guid", BE(d.stream_guid, 3) \o <<kTypeLenGuid>>),
    Raw("tlv_ttag", <<0, kTypeLenTtagPlaceholder>>),
    Raw("magic", kSignMagic)>>

SignSetFieldData(d, f, v) == Put(d, f, Bit(24, v))

\* SignProtocol::packetGuid walks the trailer backwards from the magic: each
\* entry ends with its type and length byte.  -1 when there is no signature.
RECURSIVE GuidFrom(_, _)
GuidFrom(pkt, k) ==
  CASE pkt[k] = kTypeLenEnd -> -1
    [] pkt[k] = kTypeLenGuid -> ToInt(SubSeq(pkt, k - 3, k - 1))
    [] OTHER -> GuidFrom(pkt, k - 1 - (pkt[k] \div 32))

packetGuid(pkt) ==
  IF Len(pkt) < 5 \/ SubSeq(pkt, Len(pkt) - 3, Len(pkt)) # kSignMagic THEN -1
  ELSE GuidFrom(pkt, Len(pkt) - 4)

-----------------------------------------------------------------------------
(* sample                                                                    *)

Sample == [p |-> "sample", ab |-> 0, is_override_checksum |-> FALSE,
           payload_length |-> 0, checksum |-> 0, x |-> 1234, y |-> 0]

SampleXY(d) == <<F("x", 32, BE(d.x, 4)), U16("y", d.y)>>

SampleFields(d, i, c) ==
  <<F("a", 3, <<Bit(3, d.ab \div 8192)>>), F("b", 13, BE(Bit(13, d.ab), 2)),
    U16("payload_length", c.psize),
    Cksum("checksum", "ip", d.is_override_checksum, d.checksum)>> \o SampleXY(d)

SampleSetFieldData(d, f, v) ==
  CASE f = "a" -> Put(d, "ab", Bit(3, v) * 8192 + Bit(13, d.ab))
    [] f = "b" -> Put(d, "ab", Bit(13, v) + (d.ab & 57344))
    [] OTHER -> Put(d, f, v)

-----------------------------------------------------------------------------
(* userscript.  A program is what running it does: whether it runs, and what *)
(* it makes of each property of the host object protocol.  A bad property is *)
(* no function, or one that throws or returns a value of the wrong type.  A  *)
(* function that throws for one frame gives no bytes for it; that a value    *)
(* whose elements cannot be converted also invalidates the script from then  *)
(* on is left out.                                                           *)

Good(v) == [is |-> "good", v |-> v]
Absent == [is |-> "absent", v |-> 0]
Bad == [is |-> "bad", v |-> 0]

Script(value, size, cksum, id, count) ==
  [runs |-> TRUE, protocolFrameValue |-> value, protocolFrameSize |-> size,
   protocolFrameCksum |-> cksum, protocolId |-> id,
   protocolFrameVariableCount |-> count, protocolFrameSizeVariable |-> FALSE]

UserScript == [p |-> "userscript", program |-> Script(Absent, Absent, Absent, Absent, 1)]

\* evaluateUserScript: the required functions are there, and none is bad.
isScriptValid(d) ==
  LET s == d.program
  IN s.runs /\ s.protocolFrameValue.is = "good" /\ s.protocolFrameSize.is = "good"
     /\ s.protocolFrameCksum.is # "bad" /\ s.protocolId.is # "bad"

UserScriptFields(d, i, c) ==
  <<Raw("program", IF isScriptValid(d) THEN d.program.protocolFrameValue.v ELSE NoBytes)>>

UserScriptSize(d) == IF isScriptValid(d) THEN d.program.protocolFrameSize.v ELSE 0

UserScriptId(d, type) == IF isScriptValid(d) THEN d.program.protocolId.v ELSE 0

UserScriptCounts(d) ==
  IF isScriptValid(d) THEN {d.program.protocolFrameVariableCount} ELSE {}

UserScriptSizeVariable(d) == isScriptValid(d) /\ d.program.protocolFrameSizeVariable

\* protocolFrameCksum of type CksumIp, if the script has one.
HasUserScriptCksum(d) == isScriptValid(d) /\ d.program.protocolFrameCksum.is = "good"
UserScriptCksum(d) == d.program.protocolFrameCksum.v % 65536

UserScriptSetFieldData(d, f, v) == Put(d, f, v)

-----------------------------------------------------------------------------
(* The virtual functions                                                     *)

\* protocolIdType: the numbering by which a class names what it carries; eth2.cpp,
\* snap.cpp, gre.cpp, llc.cpp, ip4.cpp, ip6.cpp, gmp.cpp, sample.cpp, udp.cpp and tcp.cpp
\* have one of their own.
ProtocolIdType(d) ==
  CASE d.p \in {"eth2", "snap", "gre"} -> "Eth"
    [] d.p = "llc" -> "Llc"
    [] d.p \in {"ip4", "ip6", "igmp", "mld", "sample"} -> "Ip"
    [] d.p \in {"udp", "tcp"} -> "TcpUdp"
    [] OTHER -> "None"

\* The constant numbers, class by class.
Ip4Numbers == [Llc |-> 394755, Eth |-> 2048, Ip |-> 4]
Ip6Numbers == [Eth |-> 34525, Ip |-> 41]
SnapNumbers == [Llc |-> 11184643]
StpNumbers == [Llc |-> 4342275]
GreNumbers == [Ip |-> 47]
UdpNumbers == [Ip |-> 17]
TcpNumbers == [Ip |-> 6]
IgmpNumbers == [Ip |-> 2]
MldNumbers == [Ip |-> 58]
SampleNumbers == [Llc |-> 16777215, Eth |-> 65535, Ip |-> 255]
Ids == [ip4 |-> Ip4Numbers, ip6 |-> Ip6Numbers, snap |-> SnapNumbers, stp |-> StpNumbers, gre |-> GreNumbers,
        udp |-> UdpNumbers, tcp |-> TcpNumbers, igmp |-> IgmpNumbers, mld |-> MldNumbers, sample |-> SampleNumbers]

\* protocolId: the number by which a class is known; 0 when it has none.
ProtocolId(d, type) ==
  CASE d.p \in DOMAIN Ids -> IF type \in DOMAIN Ids[d.p] THEN Ids[d.p][type] ELSE 0
    [] d.p = "arp" /\ type = "Eth" -> IF isRarp(d) THEN 32821 ELSE 2054
    [] d.p = "icmp" /\ type = "Ip" -> IF d.icmp_version = "kIcmp4" THEN 1 ELSE 58
    [] d.p = "text" /\ type = "TcpUdp" -> d.port_num
    [] d.p = "userscript" -> UserScriptId(d, type)
    [] OTHER -> 0

\* fieldData of the frame fields, in order.
Fields(d, i, c) ==
  CASE d.p = "mac" -> MacFields(d, i, c) [] d.p = "eth2" -> Eth2Fields(d, i, c)
    [] d.p = "dot3" -> Dot3Fields(d, i, c) [] d.p = "llc" -> LlcFields(d, i, c)
    [] d.p = "snap" -> SnapFields(d, i, c) [] d.p = "arp" -> ArpFields(d, i, c)
    [] d.p \in {"vlan", "svlan"} -> VlanFields(d, i, c)
    [] d.p = "stp" -> StpFields(d, i, c) [] d.p = "ip4" -> Ip4Fields(d, i, c)
    [] d.p = "ip6" -> Ip6Fields(d, i, c) [] d.p = "gre" -> GreFields(d, i, c)
    [] d.p = "udp" -> UdpFields(d, i, c) [] d.p = "tcp" -> TcpFields(d, i, c)
    [] d.p = "icmp" -> IcmpFields(d, i, c) [] d.p = "igmp" -> IgmpFields(d, i, c)
    [] d.p = "mld" -> MldFields(d, i, c) [] d.p = "payload" -> PayloadFields(d, i, c)
    [] d.p = "hexdump" -> HexDumpFields(d, i, c) [] d.p = "text" -> TextFields(d, i, c)
    [] d.p = "sign" -> SignFields(d, i, c) [] d.p = "sample" -> SampleFields(d, i, c)
    [] d.p = "userscript" -> UserScriptFields(d, i, c)

SetFieldData(d, f, v) ==
  CASE d.p = "mac" -> MacSetFieldData(d, f, v) [] d.p = "eth2" -> Eth2SetFieldData(d, f, v)
    [] d.p = "dot3" -> Dot3SetFieldData(d, f, v) [] d.p = "llc" -> LlcSetFieldData(d, f, v)
    [] d.p = "snap" -> SnapSetFieldData(d, f, v) [] d.p = "arp" -> ArpSetFieldData(d, f, v)
    [] d.p \in {"vlan", "svlan"} -> VlanSetFieldData(d, f, v)
    [] d.p = "stp" -> StpSetFieldData(d, f, v) [] d.p = "ip4" -> Ip4SetFieldData(d, f, v)
    [] d.p = "ip6" -> Ip6SetFieldData(d, f, v) [] d.p = "gre" -> GreSetFieldData(d, f, v)
    [] d.p = "udp" -> UdpSetFieldData(d, f, v) [] d.p = "tcp" -> TcpSetFieldData(d, f, v)
    [] d.p = "icmp" -> IcmpSetFieldData(d, f, v) [] d.p = "igmp" -> IgmpSetFieldData(d, f, v)
    [] d.p = "mld" -> MldSetFieldData(d, f, v)
    [] d.p = "payload" -> PayloadSetFieldData(d, f, v)
    [] d.p = "hexdump" -> HexDumpSetFieldData(d, f, v)
    [] d.p = "text" -> TextSetFieldData(d, f, v) [] d.p = "sign" -> SignSetFieldData(d, f, v)
    [] d.p = "sample" -> SampleSetFieldData(d, f, v)
    [] d.p = "userscript" -> UserScriptSetFieldData(d, f, v)

\* The counts a class adds to those of its variable fields.
OwnCounts(d) ==
  CASE d.p = "mac" -> MacCounts(d) [] d.p = "arp" -> ArpCounts(d)
    [] d.p = "ip4" -> Ip4Counts(d) [] d.p = "ip6" -> Ip6Counts(d)
    [] d.p \in {"igmp", "mld"} -> GmpCounts(d)
    [] d.p = "userscript" -> UserScriptCounts(d)
    [] OTHER -> {}

HasErrors(d) ==
  CASE d.p = "mac" -> MacHasErrors(d) [] d.p = "ip4" -> Ip4HasErrors(d)
    [] d.p = "ip6" -> Ip6HasErrors(d)
    [] OTHER -> FALSE

=============================================================================
