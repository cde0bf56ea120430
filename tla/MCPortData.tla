----------------------------- MODULE MCPortData -----------------------------
(* What a port does to data, one part at a time: the frames of streams, the devices  *)
(* it emulates, the latency of a stream, the counters of the interfaces; the dialog  *)
(* in which its streams are edited and the file they are saved to; and the frames    *)
(* that carry all of it.  The parts share no state; a scenario is one of them.       *)
EXTENDS MCStreamPort, MCStreamDialog, Devices, StreamTiming, LinuxPort, Framing, StreamFile

VARIABLE scenario

---------------------------------------------------------------------------
(* Devices: groups of one and two vlan levels and of none, that overlap, one with    *)
(* tags that go past the greatest vlan id into the priority bits; a host with        *)
(* two routes and a link local address.                                              *)
Ips(a, b) == [f \in Families |-> IF f = 4 THEN a ELSE b]
Level(tpid_, tag_, n) == [tpid |-> tpid_, tag |-> tag_, count |-> n, step |-> 1]
MCConfigs ==
    {[vlans |-> <<Level(1, 100, 2)>>, mac |-> 10, macStep |-> 0, count |-> 2,
      ip |-> Ips(11, 0), ipStep |-> Ips(1, 1), gw |-> Ips(15, 0)],
     [vlans |-> <<Level(2, 100, 2), Level(1, 4095, 3)>>, mac |-> 20, macStep |-> 1, count |-> 1,
      ip |-> Ips(0, 21), ipStep |-> Ips(1, 1), gw |-> Ips(0, 0)],
     [vlans |-> <<>>, mac |-> 30, macStep |-> 1, count |-> 2,
      ip |-> Ips(11, 31), ipStep |-> Ips(1, 1), gw |-> Ips(0, 35)]}
MCDefaultMac == [id \in GroupIds |-> id]
Route(onLink_, gw_) == [f |-> 4, main |-> TRUE, default |-> TRUE, onLink |-> onLink_, gw |-> gw_]
MCHostLinks ==
    {[mac |-> 90, routes |-> <<Route(FALSE, 77), Route(TRUE, 95)>>,
      addrs |-> <<[f |-> 4, onLink |-> TRUE, ip |-> 3], [f |-> 4, onLink |-> TRUE, ip |-> 91]>>]}
Frame(f_, k, tags_, to, s, m, t) ==
    [f |-> f_, kind |-> k, tags |-> tags_, dst |-> to, src |-> s, mac |-> m, tgt |-> t,
     solicited |-> TRUE, override |-> FALSE]
MCFrames ==
    {Frame(4, "reply", <<>>, 90, 95, 56, 91),
     Frame(4, "request", <<<<1, 100>>>>, BcastMac, 12, 50, 12),
     Frame(4, "request", <<<<1, 101>>>>, BcastMac, 16, 51, 11),
     Frame(4, "reply", <<<<1, 100>>>>, 10, 15, 52, 11),
     Frame(4, "echo", <<<<1, 100>>>>, 10, 15, 52, 11),
     Frame(6, "request", <<<<2, 100>>, <<1, 4096>>>>, BcastMac, 22, 53, 21),
     Frame(6, "request", <<>>, BcastMac, 0, 54, 31),
     Frame(6, "reply", <<>>, 30, 35, 55, 31)}
MCPackets ==
    <<[f |-> 4, tags |-> <<<<1, 100>>>>, src |-> 11, dst |-> 55],
      [f |-> 6, tags |-> <<>>, src |-> 31, dst |-> 33],
      [f |-> 4, tags |-> <<>>, src |-> 91, dst |-> 93],
      [f |-> 4, tags |-> <<<<1, 100>>>>, src |-> 12, dst |-> 201]>>

MCStreams == MCStartStreams \cup {<<>>}

(* The counters of eth1 come first in eth10, whose name begins like it. *)
MCInterfaces == <<"eth10", "eth1">>
MCBegins == {<<"eth10", "eth10">>, <<"eth1", "eth1">>, <<"eth1", "eth10">>}
MCIncludeList == <<{}>>
MCExcludeList == <<{"lo"}>>

(* The tracked streams are alike. *)
Streams == Permutations(Guids)

(* Frames of the lengths around the limits, and the malformed headers. *)
Message(t, n) == [type |-> t, method |-> t + 1, payload |-> [i \in 1..n |-> i - 1]]
Stdio(t, n) == [Message(t, n) EXCEPT !.method = 0]
MCWritten ==
    [ch \in Channels |->
        IF ch = "rpc" THEN {<<>>, <<Message(1, 0), Message(1, 3), Message(5, 1)>>, <<Message(1, 2), Message(1, 4)>>}
        ELSE {<<Stdio(1, 3), Stdio(1, 0), Stdio(1, 2)>>, <<Stdio(1, 1), Stdio(1, 4), Stdio(2, 3)>>}]
MCBadHeaders ==
    [ch \in Channels |->
        IF ch = "rpc" THEN {<<>>, encodeHeader(6, 0, 0), encodeHeader(0, 1, 2), encodeHeader(1, 1, 256)}
        ELSE {<<>>, <<0, 0, 0, 0>>, <<0, 0, 0, 5>>, <<0, 1, 0, 0>>}]

(* Streams that stop the transmission and that do not, and the files of a session,   *)
(* of version 0.1, of a later version and of streams left out.                       *)
Draft(n, r, e, x) == [name |-> n, pps |-> r, old |-> 0, enabled |-> e, next |-> x]
MCDrafts == {Draft(<<"a">>, 1, TRUE, "stop"), Draft(<<"b">>, 2, TRUE, "next")}
Older == [Draft(<<"c">>, 0, TRUE, "next") EXCEPT !.old = 3]
FileMetaOf(t, n) == [type |-> t, major |-> 0, minor |-> n]
MCOlderFiles ==
    {[meta |-> FileMetaOf("session", 2), content |-> NoStreamList, means |-> NoStreamList],
     [meta |-> FileMetaOf("streams", 1), content |-> <<Older>>, means |-> <<[Older EXCEPT !.pps = 3]>>],
     [meta |-> FileMetaOf("streams", 3), content |-> <<Older>>, means |-> NoStreamList],
     [meta |-> FileMetaOf("streams", 2), content |-> NoStreamList, means |-> NoStreamList]}

---------------------------------------------------------------------------
(* counters: one interface counts, and none is promiscuous.  monitor: nothing is     *)
(* counted, and the drone ends.                                                      *)
Scenarios == {"streams", "devices", "timing", "counters", "monitor", "dialog", "framing", "file"}

MCDataInit ==
    /\ scenario \in Scenarios
    /\ Init /\ (scenario = "streams") = (streams # <<>>)
    /\ DevicesInit /\ (scenario # "devices" => devs = {})
    /\ TimingInit
    /\ LinuxInit
    /\ scenario # "counters" => modulus["eth10"] = Narrow
    /\ modulus["eth1"] = Narrow
    /\ scenario # "monitor" => promisc = [p \in Names |-> FALSE]
    /\ DialogInit /\ (scenario # "dialog" => Len(given) = 1)
    /\ (mode = "sequential") = (Len(given) = 1)
    /\ FramingInit
    /\ scenario # "framing" => channel = "rpc" /\ wire = <<>>
    /\ FileInit

MCDataNext ==
    /\ UNCHANGED scenario
    /\ \/ scenario = "streams" /\ Next /\ UNCHANGED <<deviceVars, timingVars, linuxVars, dialogVars, framingVars, fileVars>>
       \/ scenario = "devices" /\ DevicesNext /\ UNCHANGED <<vars, timingVars, linuxVars, dialogVars, framingVars, fileVars>>
       \/ scenario = "timing" /\ TimingNext /\ UNCHANGED <<vars, deviceVars, linuxVars, dialogVars, framingVars, fileVars>>
       \/ scenario \in {"counters", "monitor"} /\ LinuxNext /\ UNCHANGED <<vars, deviceVars, timingVars, dialogVars, framingVars, fileVars>>
       \/ scenario = "dialog" /\ DialogNext /\ UNCHANGED <<vars, deviceVars, timingVars, linuxVars, framingVars, fileVars>>
       \/ scenario = "framing" /\ FramingNext /\ UNCHANGED <<vars, deviceVars, timingVars, linuxVars, dialogVars, fileVars>>
       \/ scenario = "file" /\ FileNext /\ UNCHANGED <<vars, deviceVars, timingVars, linuxVars, dialogVars, framingVars>>

MCDataSpec == MCDataInit /\ [][MCDataNext]_<<vars, deviceVars, timingVars, linuxVars, dialogVars, framingVars, fileVars, scenario>>

InScenario ==
    /\ scenario = "streams" => BuildLast /\ (transmitMode' = "interleaved" /\ Len(streams) = 1 => edits' = 0)
    /\ scenario = "timing" => Cardinality(toTx \cup toRx) <= 2 /\ (tags = 0 => UNCHANGED now)
    /\ scenario = "counters" => (phase' # "serve" => UNCHANGED count /\ monitor' # "over") /\ count'["eth1"] = 0 /\ base'["eth1"] = base["eth1"] /\ phase' # "join"
                                /\ UNCHANGED promisc
    /\ scenario = "monitor" => UNCHANGED <<count, stats, epoch>>
=============================================================================
