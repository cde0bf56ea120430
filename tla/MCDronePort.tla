---------------------------- MODULE MCDronePort ----------------------------
(* Two clients of one port; a scenario is the calls they make, how many, and whether *)
(* the port starts with a stream and with its statistics pollers running.            *)
EXTENDS DronePort

VARIABLE scenario

Named(names) == {[name |-> n] : n \in names}

Edits == [name : {"editStreams"}, streams : Streams]

Modifies == [name : {"modifyPort"}, mode : {"interleaved"}, track : BOOLEAN]

GroupCalls == [name : {"addDeviceGroup", "deleteDeviceGroup"}, group : Groups]

ReadCalls ==
    {"getPortConfig", "getStreamIdList", "getStreamConfig", "getDeviceGroupIdList", "getDeviceGroupConfig",
     "getDeviceList", "getDeviceNeighbors", "clearStats", "modifyDeviceGroup"}

OneShot == [size |-> 1, loop |-> FALSE]

Scenario(names, most, given, tracked) ==
    [calls |-> names, most |-> most, given |-> given, tracked |-> tracked]

Scenarios ==
    [transmit |-> Scenario(Edits \cup Named({"startTransmit", "stopTransmit", "build", "resolveDeviceNeighbors"}),
                           4, NoStreams, FALSE),
     capture  |-> Scenario(Named({"startCapture", "stopCapture", "getCaptureBuffer", "getStats"}),
                           4, NoStreams, FALSE),
     modify   |-> Scenario(Modifies \cup Named({"startTransmit", "build"}), 2, OneShot, FALSE),
     stats    |-> Scenario(Named({"startTransmit", "stopTransmit", "getStreamStats", "clearStreamStats"}),
                           4, OneShot, TRUE),
     devices  |-> Scenario(GroupCalls \cup Named({"clearDeviceNeighbors"}), 4, NoStreams, FALSE),
     reads    |-> Scenario(Named(ReadCalls \cup {"startTransmit", "startCapture"}), 2, OneShot, FALSE)]

MCRpcs == UNION {Scenarios[n].calls : n \in DOMAIN Scenarios}

MCStreams == {NoStreams, [size |-> 2, loop |-> FALSE], [size |-> 2, loop |-> TRUE]}

MCInit ==
    /\ scenario \in DOMAIN Scenarios
    /\ PortInit(Scenarios[scenario].given, Scenarios[scenario].tracked)

MCNext == Next /\ UNCHANGED scenario

MCSpec == MCInit /\ [][MCNext]_<<vars, scenario>> /\ Fair

(* The pollers of the statistics scenario see no packets. *)
InScenario ==
    /\ calls' <= Scenarios[scenario].most
    /\ scenario = "stats" => UNCHANGED sessionVars
    /\ \A c \in Clients : rpc'[c] # rpc[c] => rpc'[c] \in Scenarios[scenario].calls
=============================================================================
