---------------------------- MODULE MCStreamPort ----------------------------
(* Streams of every protocol class, a few edits of each kind.                *)
EXTENDS StreamPort

N(d) == [leaves |-> <<d>>, vf |-> <<>>]
Combo(q) == [leaves |-> q, vf |-> <<>>]

Core(mode, len, min, max) ==
  [len_mode |-> mode, frame_len |-> len, frame_len_min |-> min, frame_len_max |-> max]
ByPackets(n, rate, next) ==
  [unit |-> "packets", num_packets |-> n, num_bursts |-> 1, packets_per_burst |-> 2,
   packets_per_sec |-> rate, bursts_per_sec |-> [n |-> 1, d |-> 1], next |-> next]
ByBursts(n, size, rate, next) ==
  [unit |-> "bursts", num_packets |-> 1, num_bursts |-> n, packets_per_burst |-> size,
   packets_per_sec |-> [n |-> 1, d |-> 1], bursts_per_sec |-> rate, next |-> next]
R(n, d) == [n |-> n, d |-> d]

S(id, ordinal, protos, control) ==
  [id |-> id, ordinal |-> ordinal, enabled |-> TRUE, core |-> Core("fixed", 90, 84, 87),
   control |-> control, portId |-> 3, deviceMac |-> <<2, 0, 0, 0, 0, 1>>,
   neighborMac |-> <<2, 0, 0, 0, 0, 2>>, protos |-> protos]

IpA == [Ip4 EXCEPT !.src_ip = <<10, 0, 0, 1>>, !.dst_ip = <<10, 0, 0, 254>>]
Ip6A == [Ip6 EXCEPT !.src_addr = <<32, 1, 13, 184>> \o Fill(12, 1),
                    !.dst_addr = <<32, 1, 13, 184>> \o Fill(12, 255)]
Signed(g) == N([Sign EXCEPT !.stream_guid = g])
Text == [TextProto EXCEPT !.text = <<71, 10, 72>>]
Record == [type |-> 2, aux_data |-> <<>>, is_override_source_count |-> FALSE,
           source_count |-> 0, group_address |-> <<224, 1, 2, 3>>, sources |-> <<<<1, 2, 3, 4>>>>]

udpStack == <<N(Mac), N(Eth2), N(IpA), N(Udp), N(Payload), Signed(7)>>
tcp6Stack == <<N(Mac), Combo(<<SVlan, Vlan>>), N(Eth2), N(Ip6A), N(Tcp), N(Text), N(Payload)>>
tunnelStack == <<N(Mac), N(Eth2), N(IpA), N([Gre EXCEPT !.flags = 11]),
                 Combo(<<IpA, Ip6A>>), N([Icmp EXCEPT !.icmp_version = "kIcmp6"]), N(Payload)>>
llcStack == <<N(Mac), N(Dot3), Combo(<<Llc, Snap>>), N(IpA),
              N([Igmp EXCEPT !.type = "V3Report", !.group_records = <<Record>>])>>
stpStack == <<N(Mac), N(Dot3), N(Llc), N(Stp), N([HexDump EXCEPT !.content = <<1, 2, 3>>])>>
mldStack == <<N(Mac), N(Vlan), N(Eth2), N(Ip6A), N(Mld), N(Sample),
              N([UserScript EXCEPT !.program = Script(Good(<<5, 6, 7>>), Good(3), Absent, Good(99), 2)])>>
arpStack == <<N(Mac), N(Eth2), N(Arp), N(Payload)>>

MCStartStreams ==
  {<<S(1, 1, p, ByPackets(5, R(3, 1), "stop"))>> :
     p \in {tcp6Stack, tunnelStack, llcStack, stpStack, mldStack}}
  \cup {<<S(1, 1, arpStack, ByPackets(9, R(3, 1), "stop"))>>,
        <<S(1, 2, udpStack, ByPackets(5, R(3, 1), "goto_id")),
          S(2, 1, arpStack, ByBursts(3, 2, R(7, 1), "goto_next"))>>,
        <<[S(1, 1, udpStack, ByPackets(9, R(7, 2), "goto_id")) EXCEPT !.core = Core("inc", 90, 84, 87)]>>,
        <<[S(1, 1, udpStack, ByBursts(4, 3, R(1, 2), "goto_id")) EXCEPT !.core = Core("dec", 90, 84, 85)]>>}

MCFieldEdits ==
  <<<<"mac", "dst_mac_mode", "inc">>, <<"mac", "src_mac_mode", "dec">>,
   <<"mac", "dst_mac_count", 3>>, <<"vlan", "prio", 5>>, <<"svlan", "vlanId", 4095>>,
   <<"vlan", "cfiDei", 1>>, <<"ip4", "dst_ip_mode", "inc">>, <<"ip4", "dst_ip_count", 4>>,
   <<"ip4", "options", <<1, 2, 3>>>>, <<"ip4", "frag_ofs", 4660>>, <<"ip4", "flags", 5>>,
   <<"ip6", "src_addr_mode", "dec">>, <<"ip6", "traffic_class", 165>>,
   <<"ip6", "flow_label", 74565>>, <<"gre", "flags", 8>>, <<"gre", "rsvd0", 421>>,
   <<"gre", "version", 5>>, <<"tcp", "rsvd", 9>>, <<"tcp", "seq_num", 65536>>,
   <<"udp", "is_override_src_port", TRUE>>, <<"icmp", "icmp_version", "kIcmp4">>,
   <<"icmp", "type", 3>>, <<"igmp", "type", "V3Query">>, <<"igmp", "group_mode", "inc">>,
   <<"igmp", "s_flag", 1>>, <<"mld", "type", "V2Query">>, <<"mld", "type", "V2Report">>,
   <<"arp", <<"sender", "proto_addr_mode">>, "inc">>, <<"arp", "op_code", 3>>,
   <<"snap", "type", 5>>, <<"sample", "a", 5>>, <<"stp", "port_id", 258>>,
   <<"payload", "pattern_mode", "inc_byte">>, <<"text", "eol", "kCrLf">>,
   <<"hexdump", "pad_until_end", FALSE>>, <<"sign", "stream_guid", 9>>,
   <<"userscript", "program", Script(Good(<<5>>), Bad, Absent, Absent, 4)>>,
   <<"userscript", "program", Script(Good(<<5>>), Good(1), Good(64255), Good(7), 1)>>>>

MCInsertions == {N(Vlan), N(Sample), N([HexDump EXCEPT !.content = <<9>>, !.pad_until_end = FALSE])}
MCVariations == {[mask |-> <<15, 255>>, value |-> <<3, 254>>, offset |-> 0, mode |-> "inc",
                  count |-> 3, step |-> 1],
                 [mask |-> <<255>>, value |-> <<1>>, offset |-> 3, mode |-> "dec",
                  count |-> 2, step |-> 2]}
MCLengths == {Core("inc", 90, 84, 87), Core("dec", 90, 100, 101)}
MCControls == {ByPackets(9, R(7, 2), "goto_id"), ByPackets(3, R(0, 1), "goto_next"),
               ByBursts(4, 3, R(1, 2), "goto_next")}
MCReplacements ==
  {[p |-> "udp", f |-> "dst_port", find |-> 1, findMask |-> 255, replace |-> 80, replaceMask |-> 65535],
   [p |-> "ip4", f |-> "ttl", find |-> 127, findMask |-> 127, replace |-> 9, replaceMask |-> 15]}

\* The list is built once, after the edits.
BuildLast == queue = clearPacketList
=============================================================================
