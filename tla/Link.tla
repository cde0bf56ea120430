-------------------------------- MODULE Link ---------------------------------
(* The link-layer protocol classes of common/: mac, eth2, dot3, llc, snap,   *)
(* vlan, svlan, arp and stp.  A class is the record of its protobuf data     *)
(* (field p names the class), the fields it contributes to a frame and its   *)
(* setFieldData.                                                             *)
(*                                                                           *)
(* A frame field is what fieldData(FieldFrameValue) and (FieldBitSize) give: *)
(* its low b bits, at the end of the bytes v.  ck is "no", or for a field    *)
(* with the CksumField flag the checksum it holds ("override": the user's    *)
(* value).  Field arguments: d is the data, i the stream index, c what the   *)
(* class asks of the stream around it:                                       *)
(*   c.id     payloadProtocolId of each protocol id type (-1: none)          *)
(*   c.psize  protocolFramePayloadSize                                       *)
(*   c.size   its own protocolFrameSize, asked only by padding protocols     *)
(*   c.opaque the next protocol exists and has no protocolIdType             *)
(*   c.portId, c.deviceMac, c.neighborMac                                    *)
EXTENDS Bytes

F(n, b, v) == [n |-> n, b |-> b, v |-> v, ck |-> "no"]
U8(n, x) == F(n, 8, BE(x, 1))
U16(n, x) == F(n, 16, BE(x, 2))
Raw(n, v) == F(n, 8 * Len(v), v)
Cksum(n, kind, override, x) ==
  [n |-> n, b |-> 16, v |-> BE(x, 2), ck |-> IF override THEN "override" ELSE kind]

Bit(w, x) == x % (2 ^ w)
Put(d, f, v) == [d EXCEPT ![f] = v]

\* A mode is stored when the enumeration has it, else setFieldData fails.
AddrModes == {"fixed", "inc", "dec"}
PutMode(d, f, v, valid) == IF v \in valid THEN Put(d, f, v) ELSE d

-----------------------------------------------------------------------------
(* mac                                                                       *)

Mac == [p |-> "mac",
        dst_mac |-> Fill(6, 0), dst_mac_mode |-> "resolve",
        dst_mac_count |-> 16, dst_mac_step |-> 1,
        src_mac |-> Fill(6, 0), src_mac_mode |-> "resolve",
        src_mac_count |-> 16, src_mac_step |-> 1]

MacAddress(mac, mode, count, step, i, resolved) ==
  CASE mode = "fixed" -> mac
    [] mode = "inc" -> AddBytes(mac, (i % count) * step)
    [] mode = "dec" -> SubBytes(mac, (i % count) * step)
    [] mode = "resolve" -> resolved

DstMac(d, i, c) == MacAddress(d.dst_mac, d.dst_mac_mode, d.dst_mac_count,
                              d.dst_mac_step, i, c.neighborMac)
SrcMac(d, i, c) == MacAddress(d.src_mac, d.src_mac_mode, d.src_mac_count,
                              d.src_mac_step, i, c.deviceMac)

MacFields(d, i, c) == <<Raw("dstAddr", DstMac(d, i, c)), Raw("srcAddr", SrcMac(d, i, c))>>

MacSetFieldData(d, f, v) ==
  IF f \in {"dst_mac_mode", "src_mac_mode"}
  THEN PutMode(d, f, v, AddrModes \cup {"resolve"})
  ELSE Put(d, f, v)

\* The counts of which the base class takes the least common multiple.
MacCounts(d) ==
  (IF d.dst_mac_mode \in {"inc", "dec"} THEN {d.dst_mac_count} ELSE {}) \cup
  (IF d.src_mac_mode \in {"inc", "dec"} THEN {d.src_mac_count} ELSE {})

\* The error flags MacProtocol::protocolFrameValue raises.
MacFrameErrors(d, i, c) ==
  (IF d.dst_mac_mode = "resolve" /\ DstMac(d, i, c) = Fill(6, 0)
   THEN {"UnresolvedDstMacError"} ELSE {}) \cup
  (IF d.src_mac_mode = "resolve" /\ SrcMac(d, i, c) = Fill(6, 0)
   THEN {"UnresolvedSrcMacError"} ELSE {})

MacHasErrors(d) ==
  \/ d.dst_mac = Fill(6, 0) /\ d.dst_mac_mode # "resolve"
  \/ d.src_mac = Fill(6, 0) /\ d.src_mac_mode # "resolve"

-----------------------------------------------------------------------------
(* eth2, dot3, llc, snap, vlan, svlan                                        *)

Eth2 == [p |-> "eth2", is_override_type |-> FALSE, type |-> 0]

Eth2Fields(d, i, c) == <<U16("type", IF d.is_override_type THEN d.type ELSE c.id["Eth"])>>

Eth2SetFieldData(d, f, v) == Put(d, f, v)

Dot3 == [p |-> "dot3", is_override_length |-> FALSE, length |-> 0]

Dot3Fields(d, i, c) == <<U16("length", IF d.is_override_length THEN d.length ELSE c.psize)>>

Dot3SetFieldData(d, f, v) == Put(d, f, v)

Llc == [p |-> "llc", is_override_dsap |-> FALSE, is_override_ssap |-> FALSE,
        is_override_ctl |-> FALSE, dsap |-> 0, ssap |-> 0, ctl |-> 0]

LlcFields(d, i, c) ==
  LET id == BE(c.id["Llc"], 3)
  IN <<U8("dsap", IF d.is_override_dsap THEN d.dsap ELSE id[1]),
       U8("ssap", IF d.is_override_ssap THEN d.ssap ELSE id[2]),
       U8("ctl", IF d.is_override_ctl THEN d.ctl ELSE id[3])>>

LlcSetFieldData(d, f, v) ==
  IF f \in {"dsap", "ssap", "ctl"} THEN Put(d, f, Bit(8, v)) ELSE Put(d, f, v)

kStdOui == 0

Snap == [p |-> "snap", is_override_oui |-> FALSE, is_override_type |-> FALSE,
         oui |-> 0, type |-> 0]

SnapFields(d, i, c) ==
  <<F("oui", 24, BE(IF d.is_override_oui THEN d.oui ELSE kStdOui, 3)),
    U16("type", IF d.is_override_type THEN d.type ELSE c.id["Eth"])>>

SnapSetFieldData(d, f, v) == Put(d, f, v)

Vlan == [p |-> "vlan", is_override_tpid |-> FALSE, tpid |-> 0, vlan_tag |-> 0]

\* SVlanProtocol's constructor.
SVlan == [Vlan EXCEPT !.p = "svlan", !.is_override_tpid = TRUE, !.tpid = 34984]

VlanFields(d, i, c) ==
  <<U16("tpid", IF d.is_override_tpid THEN d.tpid ELSE 33024),
    F("prio", 3, <<Bit(3, d.vlan_tag \div 8192)>>),
    F("cfiDei", 1, <<Bit(1, d.vlan_tag \div 4096)>>),
    F("vlanId", 12, BE(Bit(12, d.vlan_tag), 2))>>

VlanSetFieldData(d, f, v) ==
  LET tag == d.vlan_tag
  IN CASE f = "prio" -> Put(d, "vlan_tag", Bit(3, v) * 8192 + Bit(13, tag))
       [] f = "cfiDei" -> Put(d, "vlan_tag", Bit(1, v) * 4096 + (tag & 61439))
       [] f = "vlanId" -> Put(d, "vlan_tag", Bit(12, v) + (tag & 61440))
       [] OTHER -> Put(d, f, v)

-----------------------------------------------------------------------------
(* arp                                                                       *)

ArpSide == [hw_addr |-> Fill(6, 0), hw_addr_mode |-> "fixed", hw_addr_count |-> 16,
            proto_addr |-> Fill(4, 0), proto_addr_mode |-> "fixed",
            proto_addr_count |-> 16, proto_addr_mask |-> <<255, 255, 255, 0>>]

Arp == [p |-> "arp", hw_type |-> 1, proto_type |-> 2048, hw_addr_len |-> 6,
        proto_addr_len |-> 4, op_code |-> 1, sender |-> ArpSide, target |-> ArpSide]

isRarp(d) == d.op_code \in {3, 4}

ArpHwAddr(s, i) ==
  MacAddress(s.hw_addr, s.hw_addr_mode, s.hw_addr_count, 1, i, Fill(6, 0))
ArpProtoAddr(s, i) ==
  HostAddress(s.proto_addr, s.proto_addr_mask, s.proto_addr_mode, s.proto_addr_count, i)

ArpHeader(d) ==
  <<U16("hw_type", d.hw_type), U16("proto_type", d.proto_type),
    U8("hw_addr_len", d.hw_addr_len), U8("proto_addr_len", d.proto_addr_len),
    U16("op_code", d.op_code)>>
ArpSender(d, i) ==
  <<Raw("senderHw", ArpHwAddr(d.sender, i)), Raw("senderProto", ArpProtoAddr(d.sender, i))>>
ArpTarget(d, i) ==
  <<Raw("targetHw", ArpHwAddr(d.target, i)), Raw("targetProto", ArpProtoAddr(d.target, i))>>

ArpFields(d, i, c) == ArpHeader(d) \o ArpSender(d, i) \o ArpTarget(d, i)

ArpSetSide(s, f, v) ==
  IF f \in {"hw_addr_mode", "proto_addr_mode"} THEN PutMode(s, f, v, AddrModes)
  ELSE Put(s, f, v)

\* f names a field of the data, or a pair of a side and a field of it.
ArpSetFieldData(d, f, v) ==
  IF f \in DOMAIN d THEN Put(d, f, v)
  ELSE Put(d, f[1], ArpSetSide(d[f[1]], f[2], v))

ArpCounts(d) ==
  UNION {(IF s.hw_addr_mode # "fixed" THEN {s.hw_addr_count} ELSE {}) \cup
         (IF s.proto_addr_mode # "fixed" THEN {s.proto_addr_count} ELSE {})
         : s \in {d.sender, d.target}}

-----------------------------------------------------------------------------
(* stp                                                                       *)

Stp == [p |-> "stp", protocol_id |-> 0, protocol_version_id |-> 0, bpdu_type |-> 0,
        flags |-> 0, root_id |-> Fill(8, 0), root_path_cost |-> 0,
        bridge_id |-> Fill(8, 0), port_id |-> 0, message_age |-> 0,
        max_age |-> 0, hello_time |-> 0, forward_delay |-> 0]

StpIds(d) ==
  <<U16("protocol_id", d.protocol_id), U8("protocol_version_id", d.protocol_version_id),
    U8("bpdu_type", d.bpdu_type), U8("flags", d.flags), Raw("root_id", d.root_id)>>
StpBridge(d) ==
  <<F("root_path_cost", 32, BE(d.root_path_cost, 4)), Raw("bridge_id", d.bridge_id),
    U16("port_id", d.port_id)>>
StpTimes(d) ==
  <<U16("message_age", d.message_age), U16("max_age", d.max_age),
    U16("hello_time", d.hello_time), U16("forward_delay", d.forward_delay)>>

StpFields(d, i, c) == StpIds(d) \o StpBridge(d) \o StpTimes(d)

StpSetFieldData(d, f, v) ==
  CASE f = "protocol_id" -> Put(d, f, Bit(16, v))
    [] f \in {"protocol_version_id", "bpdu_type", "flags"} -> Put(d, f, Bit(8, v))
    [] OTHER -> Put(d, f, v)

=============================================================================
