------------------------------ MODULE Transport ------------------------------
(* The transport and group-management protocol classes of common/: udp, tcp, *)
(* icmp, and the gmp base class with igmp and mld.                           *)
EXTENDS Network

(* udp                                                                       *)

Udp == [p |-> "udp", is_override_src_port |-> FALSE, is_override_dst_port |-> FALSE,
        is_override_totlen |-> FALSE, is_override_cksum |-> FALSE,
        src_port |-> 49152, dst_port |-> 49153, totlen |-> 0, cksum |-> 0]

\* An end's port: the user's, or the one the payload protocol is known by.
Port(d, c, override, port) == IF d[override] THEN d[port] ELSE c.id["TcpUdp"]

UdpPorts(d, c) ==
  <<U16("src_port", Port(d, c, "is_override_src_port", "src_port")),
    U16("dst_port", Port(d, c, "is_override_dst_port", "dst_port"))>>

UdpTotLen(d, c) == U16("totlen", IF d.is_override_totlen THEN d.totlen ELSE c.psize + 8)

UdpCksum(d) == Cksum("cksum", "udp", d.is_override_cksum, d.cksum)

UdpFields(d, i, c) == UdpPorts(d, c) \o <<UdpTotLen(d, c), UdpCksum(d)>>

UdpSetFieldData(d, f, v) == Put(d, f, v)

-----------------------------------------------------------------------------
(* tcp                                                                       *)

Tcp == [p |-> "tcp", is_override_src_port |-> FALSE, is_override_dst_port |-> FALSE,
        is_override_hdrlen |-> FALSE, is_override_cksum |-> FALSE,
        src_port |-> 49152, dst_port |-> 49153, seq_num |-> 129018, ack_num |-> 0,
        hdrlen_rsvd |-> 80, flags |-> 0, window |-> 1024, cksum |-> 0, urg_ptr |-> 0]

TcpPorts(d, c) ==
  <<U16("src_port", Port(d, c, "is_override_src_port", "src_port")),
    U16("dst_port", Port(d, c, "is_override_dst_port", "dst_port"))>>

TcpSequence(d) ==
  <<F("seq_num", 32, BE(d.seq_num, 4)), F("ack_num", 32, BE(d.ack_num, 4))>>

TcpFlags(d) ==
  <<F("hdrlen", 4, <<IF d.is_override_hdrlen THEN Bit(4, d.hdrlen_rsvd \div 16) ELSE 5>>),
    F("rsvd", 4, <<Bit(4, d.hdrlen_rsvd)>>), F("flags", 8, <<Bit(6, d.flags)>>),
    U16("window", d.window)>>

TcpCksum(d) == Cksum("cksum", "tcp", d.is_override_cksum, d.cksum)

TcpFields(d, i, c) ==
  TcpPorts(d, c) \o TcpSequence(d) \o TcpFlags(d)
  \o <<TcpCksum(d), U16("urg_ptr", d.urg_ptr)>>

TcpSetFieldData(d, f, v) ==
  CASE f = "hdrlen" -> Put(d, "hdrlen_rsvd", Bit(4, d.hdrlen_rsvd) + v * 16)
    [] f = "rsvd" -> Put(d, "hdrlen_rsvd", (d.hdrlen_rsvd & 240) + Bit(4, v))
    [] OTHER -> Put(d, f, v)

-----------------------------------------------------------------------------
(* icmp                                                                      *)

Icmp == [p |-> "icmp", icmp_version |-> "kIcmp4", is_override_checksum |-> FALSE,
         type |-> 8, code |-> 0, checksum |-> 0, identifier |-> 1234, sequence |-> 0]

isIdSeqType(ver, type) ==
  type \in IF ver = "kIcmp4" THEN {8, 0, 15, 16} ELSE {128, 129}

IcmpCksum(d) ==
  Cksum("checksum", IF d.icmp_version = "kIcmp4" THEN "icmp" ELSE "tcp",
        d.is_override_checksum, d.checksum)

IcmpIdSequence(d) == <<U16("identifier", d.identifier), U16("sequence", d.sequence)>>

IcmpFields(d, i, c) ==
  <<U8("type", d.type), U8("code", d.code), IcmpCksum(d)>>
  \o IF isIdSeqType(d.icmp_version, d.type) THEN IcmpIdSequence(d) ELSE <<>>

IcmpSetFieldData(d, f, v) ==
  IF f \in {"type", "code"} THEN Put(d, f, Bit(8, v)) ELSE Put(d, f, v)

-----------------------------------------------------------------------------
(* gmp: what igmp and mld share                                              *)

Gmp == [rsvd_code |-> 0, max_response_time |-> 100,
        is_override_checksum |-> FALSE, checksum |-> 0,
        group_mode |-> "fixed", group_count |-> 16, group_prefix |-> 24,
        s_flag |-> 0, qrv |-> 2, qqi |-> 125, sources |-> <<>>,
        is_override_source_count |-> FALSE, source_count |-> 0,
        group_records |-> <<>>,
        is_override_group_record_count |-> FALSE, group_record_count |-> 0]

\* IgmpProtocol's and MldProtocol's constructors.
Igmp == Gmp @@ [p |-> "igmp", type |-> "V2Query", group_address |-> Fill(4, 0)]
Mld == Gmp @@ [p |-> "mld", type |-> "V1Query", group_address |-> Fill(16, 0)]

\* The message types are unique numbers of which the frame holds a byte.
IgmpType == [V1Query |-> 17, V1Report |-> 18, V2Query |-> 17, V2Report |-> 22,
             V2Leave |-> 23, V3Query |-> 17, V3Report |-> 34]
MldType == [V1Query |-> 130, V1Report |-> 131, V1Done |-> 132, V2Query |-> 130,
            V2Report |-> 143]

isSsmReport(d) == d.type = IF d.p = "igmp" THEN "V3Report" ELSE "V2Report"
isSsmQuery(d) == d.type = IF d.p = "igmp" THEN "V3Query" ELSE "V2Query"

GmpChecksum(d) ==
  Cksum("checksum", IF d.p = "igmp" THEN "icmp" ELSE "tcp",
        d.is_override_checksum, d.checksum)

GmpQueryFields(d) ==
  <<F("rsvd1", 4, <<0>>), F("s_flag", 1, <<d.s_flag>>), F("qrv", 3, <<Bit(3, d.qrv)>>),
    U8("qqi", d.qqi)>>

GmpSourceCount(d) ==
  U16("source_count", IF d.is_override_source_count THEN d.source_count ELSE Len(d.sources))

\* The subclass writes the addresses, as igmp and mld do alike.
GmpSources(d) == Raw("sources", FlattenSeq(d.sources))

\* A group record: type, auxiliary length, source count, then the address
\* and the sources the subclass inserts, and the auxiliary data.
GmpGroupRecord(r) ==
  <<r.type, Len(r.aux_data) \div 4>>
  \o BE(IF r.is_override_source_count THEN r.source_count ELSE Len(r.sources), 2)
  \o r.group_address \o FlattenSeq(r.sources) \o r.aux_data

GmpReportFields(d) ==
  <<U16("rsvd2", 0),
    U16("group_record_count", IF d.is_override_group_record_count
                              THEN d.group_record_count ELSE Len(d.group_records)),
    Raw("group_records",
        FlattenSeq([k \in DOMAIN d.group_records |-> GmpGroupRecord(d.group_records[k])]))>>

GmpBody(d, address) ==
  (IF isSsmReport(d) THEN GmpReportFields(d) ELSE <<Raw("group_address", address)>>)
  \o (IF isSsmQuery(d) THEN GmpQueryFields(d) \o <<GmpSourceCount(d), GmpSources(d)>> ELSE <<>>)

\* An unknown group mode is ignored.
GmpSetMeta(d, f, v) ==
  IF f = "group_mode" THEN PutMode(d, f, v, AddrModes) ELSE Put(d, f, v)

\* A group record's auxiliary data is padded to words.
GmpSetFieldData(d, f, v) ==
  IF f = "group_records"
  THEN Put(d, f, [k \in DOMAIN v |-> [v[k] EXCEPT !.aux_data = PadTo4(@)]])
  ELSE GmpSetMeta(d, f, v)

GmpCounts(d) ==
  IF isSsmReport(d) THEN {} ELSE ModeCounts(d.group_mode, d.group_count, "fixed", 0)

-----------------------------------------------------------------------------
(* igmp and mld                                                              *)

IgmpRsvdMrtCode(d) ==
  U8("rsvd_code", IF d.type \in {"V3Query", "V2Query"} THEN d.max_response_time ELSE 0)

IgmpGroupAddress(d, i) ==
  Ip4Group(d.group_address, d.group_prefix, d.group_mode, d.group_count, i)

IgmpFields(d, i, c) ==
  <<U8("type", IgmpType[d.type]), IgmpRsvdMrtCode(d), GmpChecksum(d)>>
  \o GmpBody(d, IgmpGroupAddress(d, i))

IgmpSetFieldData(d, f, v) ==
  IF f = "rsvd_code" THEN Put(d, "max_response_time", v) ELSE GmpSetFieldData(d, f, v)

MldMrt(d) ==
  <<U16("mrt", IF d.type \in {"V2Query", "V1Query"} THEN d.max_response_time ELSE 0),
    U16("rsvd", 0)>>

MldGroupAddress(d, i) ==
  Ip6Group(d.group_address, d.group_prefix, d.group_mode, d.group_count, i)

MldFields(d, i, c) ==
  <<U8("type", MldType[d.type]), U8("rsvd_code", 0), GmpChecksum(d)>>
  \o (IF isSsmReport(d) THEN <<>> ELSE MldMrt(d))
  \o GmpBody(d, MldGroupAddress(d, i))

MldSetFieldData(d, f, v) == GmpSetFieldData(d, f, v)

=============================================================================
