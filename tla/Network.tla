------------------------------- MODULE Network -------------------------------
(* The network and transport protocol classes of common/: ip4, ip6, gre,     *)
(* udp, tcp, icmp, igmp and mld, in the form module Link describes.  A       *)
(* checksum field is a marker: which checksum it holds is decided here, its  *)
(* value is computed by the base class (module StreamBase).                  *)
EXTENDS Link

NoBytes == <<>>
ModeCounts(m1, n1, m2, n2) ==
  (IF m1 # "fixed" THEN {n1} ELSE {}) \cup (IF m2 # "fixed" THEN {n2} ELSE {})

\* Bytes appended until the length is a multiple of four.
PadTo4(b) == b \o Fill((4 - (Len(b) % 4)) % 4, 0)

-----------------------------------------------------------------------------
(* ip4                                                                       *)

Ip4 == [p |-> "ip4", ver_hdrlen |-> 69, is_override_ver |-> FALSE,
        is_override_hdrlen |-> FALSE, is_override_totlen |-> FALSE,
        is_override_proto |-> FALSE, is_override_cksum |-> FALSE,
        tos |-> 0, totlen |-> 0, id |-> 1234, flags |-> 0, frag_ofs |-> 0,
        ttl |-> 127, proto |-> 0, cksum |-> 0, options |-> NoBytes,
        src_ip |-> Fill(4, 0), src_ip_mode |-> "fixed", src_ip_count |-> 16,
        src_ip_mask |-> <<255, 255, 255, 0>>,
        dst_ip |-> Fill(4, 0), dst_ip_mode |-> "fixed", dst_ip_count |-> 16,
        dst_ip_mask |-> <<255, 255, 255, 0>>]

Ip4LengthFields(d, c) ==
  <<F("ver", 4, <<IF d.is_override_ver THEN Bit(4, d.ver_hdrlen \div 16) ELSE 4>>),
    F("hdrLen", 4, <<Bit(4, IF d.is_override_hdrlen THEN d.ver_hdrlen
                            ELSE 5 + Len(d.options) \div 4)>>),
    U8("tos", d.tos),
    U16("totlen", IF d.is_override_totlen THEN d.totlen
                  ELSE c.psize + 20 + Len(d.options))>>

Ip4FragmentFields(d) ==
  <<U16("id", d.id), F("flags", 3, BE(d.flags, 1)), F("frag_ofs", 13, BE(d.frag_ofs, 2))>>

Ip4ProtoFields(d, c) ==
  <<U8("ttl", d.ttl), U8("proto", IF d.is_override_proto THEN d.proto ELSE c.id["Ip"])>>

Ip4Cksum(d) == Cksum("cksum", "ip", d.is_override_cksum, d.cksum)

Ip4SrcAddr(d, i) ==
  Raw("src_ip", HostAddress(d.src_ip, d.src_ip_mask, d.src_ip_mode, d.src_ip_count, i))
Ip4DstAddr(d, i) ==
  Raw("dst_ip", HostAddress(d.dst_ip, d.dst_ip_mask, d.dst_ip_mode, d.dst_ip_count, i))
Ip4Options(d) == Raw("options", d.options)

Ip4Fields(d, i, c) ==
  Ip4LengthFields(d, c) \o Ip4FragmentFields(d) \o Ip4ProtoFields(d, c)
  \o <<Ip4Cksum(d), Ip4SrcAddr(d, i), Ip4DstAddr(d, i), Ip4Options(d)>>

\* The meta fields that say how an address varies from packet to packet.
Ip4SetVarying(d, f, v) ==
  IF f \in {"src_ip_mode", "dst_ip_mode"} THEN PutMode(d, f, v, AddrModes)
  ELSE Put(d, f, v)

Ip4SetFieldData(d, f, v) ==
  CASE f = "ver" -> Put(d, "ver_hdrlen", Bit(4, v) * 16 + Bit(4, d.ver_hdrlen))
    [] f = "hdrLen" -> Put(d, "ver_hdrlen", (d.ver_hdrlen & 240) + Bit(4, v))
    [] f = "options" -> Put(d, f, PadTo4(v))
    [] OTHER -> Ip4SetVarying(d, f, v)

Ip4Counts(d) == ModeCounts(d.src_ip_mode, d.src_ip_count, d.dst_ip_mode, d.dst_ip_count)

\* The bytes the pseudo header sum of Ip4Protocol::protocolFrameCksum reads.
Ip4PseudoBytes(frame) == SubSeq(frame, 13, 20)

Ip4HasErrors(d) ==
  \/ d.dst_ip = Fill(4, 0) /\ d.dst_ip_mode = "fixed"
  \/ d.src_ip = Fill(4, 0) /\ d.src_ip_mode = "fixed"

-----------------------------------------------------------------------------
(* ip6                                                                       *)

Ip6 == [p |-> "ip6", is_override_version |-> FALSE, is_override_payload_length |-> FALSE,
        is_override_next_header |-> FALSE, version |-> 6, traffic_class |-> 0,
        flow_label |-> 0, payload_length |-> 0, next_header |-> 0, hop_limit |-> 127,
        src_addr |-> Fill(16, 0), src_addr_mode |-> "fixed", src_addr_count |-> 16,
        src_addr_prefix |-> 64,
        dst_addr |-> Fill(16, 0), dst_addr_mode |-> "fixed", dst_addr_count |-> 16,
        dst_addr_prefix |-> 64]

Ip6LabelFields(d) ==
  <<F("version", 4, <<IF d.is_override_version THEN Bit(4, d.version) ELSE 6>>),
    U8("traffic_class", d.traffic_class),
    F("flow_label", 20, BE(Bit(20, d.flow_label), 3))>>

Ip6PayloadFields(d, c) ==
  LET id == c.id["Ip"] % 256
  IN <<U16("payload_length", IF d.is_override_payload_length THEN d.payload_length
                             ELSE c.psize),
       U8("next_header", IF d.is_override_next_header THEN d.next_header
                         ELSE IF id = 0 /\ c.opaque THEN 59 ELSE id),
       U8("hop_limit", d.hop_limit)>>

Ip6SrcAddr(d, i) ==
  Raw("src_addr", HostAddress(d.src_addr, PrefixMask(d.src_addr_prefix, 16),
                              d.src_addr_mode, d.src_addr_count, i))
Ip6DstAddr(d, i) ==
  Raw("dst_addr", HostAddress(d.dst_addr, PrefixMask(d.dst_addr_prefix, 16),
                              d.dst_addr_mode, d.dst_addr_count, i))

Ip6Fields(d, i, c) ==
  Ip6LabelFields(d) \o Ip6PayloadFields(d, c) \o <<Ip6SrcAddr(d, i), Ip6DstAddr(d, i)>>

Ip6Width == [version |-> 4, traffic_class |-> 8, flow_label |-> 20,
             payload_length |-> 16, next_header |-> 8, hop_limit |-> 8]

Ip6SetVarying(d, f, v) ==
  IF f \in {"src_addr_mode", "dst_addr_mode"} THEN PutMode(d, f, v, AddrModes)
  ELSE Put(d, f, v)

Ip6SetFieldData(d, f, v) ==
  IF f \in DOMAIN Ip6Width THEN Put(d, f, Bit(Ip6Width[f], v))
  ELSE Ip6SetVarying(d, f, v)

Ip6Counts(d) ==
  ModeCounts(d.src_addr_mode, d.src_addr_count, d.dst_addr_mode, d.dst_addr_count)

Ip6PseudoBytes(frame) == SubSeq(frame, 9, Len(frame))

Ip6HasErrors(d) ==
  \/ d.dst_addr = Fill(16, 0) /\ d.dst_addr_mode = "fixed"
  \/ d.src_addr = Fill(16, 0) /\ d.src_addr_mode = "fixed"

-----------------------------------------------------------------------------
(* gre                                                                       *)

Gre == [p |-> "gre", flags |-> 10, rsvd0 |-> 0, version |-> 0, protocol_type |-> 0,
        is_override_checksum |-> FALSE, checksum |-> 0, rsvd1 |-> 0,
        key |-> <<32, 32, 186, 215>>, sequence_num |-> 0]

HasFlag(d, flag) == (d.flags \div flag) % 2 = 1

GreHeader(d, c) ==
  <<F("flags", 4, BE(d.flags, 1)), F("rsvd0", 9, BE(d.rsvd0, 2)),
    F("version", 3, BE(d.version, 1)), U16("protocol_type", c.id["Eth"])>>

GreCksum(d) ==
  IF HasFlag(d, 8)
  THEN <<Cksum("checksum", "gre", d.is_override_checksum, d.checksum),
         U16("rsvd1", d.rsvd1)>>
  ELSE <<>>

GreKeySequence(d) ==
  (IF HasFlag(d, 2) THEN <<Raw("key", d.key)>> ELSE <<>>) \o
  (IF HasFlag(d, 1) THEN <<F("sequence_num", 32, BE(d.sequence_num, 4))>> ELSE <<>>)

GreFields(d, i, c) == GreHeader(d, c) \o GreCksum(d) \o GreKeySequence(d)

GreSetFieldData(d, f, v) == Put(d, f, v)

=============================================================================
