----------------------------- MODULE DronePort -----------------------------
(***************************************************************************)
(* One port of a drone as its RPC threads drive it: the handlers of        *)
(* MyService (src/server/myservice.cpp), one RPC thread per connection,    *)
(* over the port's lock, AbstractPort's dirty flag and statistics          *)
(* (src/server/abstractport.cpp), and the threads of PcapPort, which       *)
(* PcapSession and Transmitter model.  In the Qt-free build QReadWriteLock *)
(* is a recursive mutex: readers exclude one another too.                  *)
(***************************************************************************)
EXTENDS Transmitter

CONSTANTS None,      \* nobody holds the port's lock
          Rpcs,      \* the calls clients make
          Streams,   \* stream lists: [size, loop] of the packet list they build
          Groups,    \* device group ids
          MaxCalls   \* bound: calls made in a behaviour

ASSUME DroneAssumption ==
    /\ Sessions = {"capture", "emul", "rx", "ttag"}
    /\ None \notin Clients

VARIABLES lock,       \* portLock[portId]: its holder
          pc,         \* where an RPC thread is in its handler
          rpc,        \* the call it serves
          calls,      \* calls made
          streams,    \* streamList_
          mode,       \* data_.transmit_mode
          tracking,   \* data_.is_tracking_stream_stats
          dirty,      \* isSendQueueDirty_
          built,      \* the stream list and mode of the packet list
          groups,     \* ids of deviceGroupList_
          portStats,  \* AbstractPort.streamStats_
          cleared,    \* packets in statistics that were cleared
          blob        \* the capture file when its sending began

portVars == <<streams, mode, tracking, dirty, built, groups, portStats, cleared>>
rpcVars == <<lock, pc, rpc, calls, blob>>
vars == <<sessionVars, callerVars, transmitterVars, portVars, rpcVars>>

NoStreams == [size |-> 0, loop |-> FALSE]

(* A port that was given streams since it was built, with its pollers on or off. *)
PortInit(given, tracked) ==
    /\ SessionInit(IF tracked THEN {"rx", "ttag"} ELSE {})
    /\ TransmitterInit(tracked)
    /\ lock = None /\ calls = 0
    /\ pc = [c \in Clients |-> "idle"]
    /\ rpc = [c \in Clients |-> [name |-> "none"]]
    /\ streams = given /\ mode = "sequential" /\ built = <<NoStreams, "sequential">>
    /\ tracking = tracked /\ dirty = (given # NoStreams)
    /\ groups = {} /\ portStats = 0 /\ cleared = 0
    /\ blob = [c \in Clients |-> 0]

Init == PortInit(NoStreams, FALSE)

---------------------------------------------------------------------------
(* The shape of a handler *)

Move(c, to) == pc' = [pc EXCEPT ![c] = to]

(* A locked section without a blocking call is one step. *)
Section(c, name, from) == pc[c] = from /\ rpc[c].name = name /\ lock = None

(* What the session and transmitter calls of a handler leave alone. *)
Quiet == UNCHANGED <<sessionVars, callerVars, transmitterVars>>

(* Handlers that ask isTransmitOn() before they take the lock. *)
Checked == {"editStreams", "build", "addDeviceGroup", "deleteDeviceGroup", "modifyDeviceGroup"}

Entry(r) == CASE r.name \in Checked         -> "check"
              [] r.name = "modifyPort"      -> "canModify"
              [] r.name = "startTransmit"   -> "clear"
              [] OTHER                      -> "lock"

Call(c, r) ==
    /\ pc[c] = "idle" /\ calls < MaxCalls
    /\ calls' = calls + 1
    /\ rpc' = [rpc EXCEPT ![c] = r]
    /\ Move(c, Entry(r))
    /\ Quiet /\ UNCHANGED <<lock, portVars, blob>>

(* "operation disallowed on transmitting port", tested without the lock *)
TransmitCheck(c) ==
    /\ pc[c] = "check"
    /\ Move(c, IF isTransmitOn THEN "idle" ELSE "lock")
    /\ Quiet /\ UNCHANGED <<lock, rpc, calls, blob, portVars>>

(* AbstractPort::canModify() sets the dirty flag without the lock, even when it refuses. *)
canModify(c) ==
    /\ pc[c] = "canModify"
    /\ LET changes == rpc[c].mode # mode \/ rpc[c].track # tracking
       IN  /\ dirty' = (dirty \/ changes)
           /\ Move(c, IF changes /\ isTransmitOn THEN "idle" ELSE "lock")
    /\ Quiet /\ UNCHANGED <<lock, rpc, calls, blob, streams, mode, tracking, built, groups, portStats, cleared>>

(* The handler's calls of threads, made with the lock held. *)
Begin(c, todo) ==
    /\ lock' = c
    /\ ops' = [ops EXCEPT ![c] = todo]
    /\ Move(c, "ops")
    /\ UNCHANGED <<at, rpc, calls, blob>>

(* They are over and the handler unlocks; modify() notes the tracking last. *)
Unlock(c) ==
    /\ pc[c] = "ops" /\ ops[c] = <<>>
    /\ rpc[c].name # "getCaptureBuffer"
    /\ lock' = None
    /\ Move(c, "idle")
    /\ tracking' = IF rpc[c].name = "modifyPort" THEN rpc[c].track ELSE tracking
    /\ Quiet /\ UNCHANGED <<rpc, calls, blob, streams, mode, dirty, built, groups, portStats, cleared>>

---------------------------------------------------------------------------
(* Configuration *)

(* startStreamStatsTracking(), stopStreamStatsTracking(): one poller after the other *)
TrackingCalls(on) ==
    LET op == IF on THEN "start" ELSE "stop" IN <<<<op, "ttag">>, <<op, "rx">>>>

(* modify(): the mode, then setTrackStreamStats() *)
modifyPort(c) ==
    /\ Section(c, "modifyPort", "lock")
    /\ mode' = rpc[c].mode
    /\ track' = rpc[c].track
    /\ Begin(c, TrackingCalls(rpc[c].track))
    /\ UNCHANGED <<sessionVars, tstate, tstop, tpc, sent, loops, size, pollVars, countVars, aborted,
                   streams, tracking, dirty, built, groups, portStats, cleared>>

(* addStream(), deleteStream(), modifyStream() *)
editStreams(c) ==
    /\ Section(c, "editStreams", "lock")
    /\ streams' = rpc[c].streams
    /\ dirty' = TRUE
    /\ Move(c, "idle")
    /\ Quiet /\ UNCHANGED <<lock, rpc, calls, blob, mode, tracking, built, groups, portStats, cleared>>

(* updatePacketList(), which begins with clearPacketList() and its Q_ASSERT(!isRunning()) *)
updatePacketList ==
    \/ isTransmitOn /\ aborted' = TRUE /\ UNCHANGED <<size, loops, built, dirty>>
    \/ /\ ~isTransmitOn
       /\ size' = streams.size /\ loops' = streams.loop
       /\ built' = <<streams, mode>>
       /\ dirty' = FALSE
       /\ UNCHANGED aborted

Rebuild ==
    /\ \/ dirty /\ updatePacketList
       \/ ~dirty /\ UNCHANGED <<size, loops, built, dirty, aborted>>
    /\ UNCHANGED <<tstate, tstop, tpc, sent, track, pollVars, countVars,
                   streams, mode, tracking, groups, portStats, cleared>>

build(c) ==
    /\ Section(c, "build", "lock")
    /\ Rebuild
    /\ Move(c, "idle")
    /\ UNCHANGED <<sessionVars, callerVars, lock, rpc, calls, blob>>

---------------------------------------------------------------------------
(* Transmission *)

(* resetStreamStatsAll() clears what the port has collected so far. *)
resetStreamStatsAll == cleared' = cleared + portStats /\ portStats' = 0

(* startTransmit() clears the statistics of every port first ... *)
startTransmitClear(c) ==
    /\ Section(c, "startTransmit", "clear")
    /\ resetStreamStatsAll
    /\ Move(c, "lock")
    /\ Quiet /\ UNCHANGED <<lock, rpc, calls, blob, streams, mode, tracking, dirty, built, groups>>

(* ... then, per port, rebuilds a dirty packet list ... *)
startTransmit(c) ==
    /\ Section(c, "startTransmit", "lock")
    /\ Rebuild
    /\ lock' = c
    /\ Move(c, "transmit")
    /\ UNCHANGED <<sessionVars, callerVars, rpc, calls, blob>>

(* ... and starts the transmitter: Q_ASSERT(!isDirty()) in PcapPort::startTransmit(). *)
startTransmitter(c) ==
    /\ pc[c] = "transmit"
    /\ \/ dirty /\ aborted' = TRUE /\ UNCHANGED <<lock, pc, ops, at, rpc, calls, blob>>
       \/ ~dirty /\ Begin(c, <<<<"transmit", "tx">>>>) /\ UNCHANGED aborted
    /\ UNCHANGED <<sessionVars, txVars, pollVars, countVars, portVars>>

stopTransmit(c) ==
    /\ Section(c, "stopTransmit", "lock")
    /\ Begin(c, <<<<"halt", "tx">>>>)
    /\ UNCHANGED <<sessionVars, transmitterVars, portVars>>

---------------------------------------------------------------------------
(* Capture *)

startCapture(c) ==
    /\ Section(c, "startCapture", "lock")
    /\ Begin(c, <<<<"start", "capture">>>>)
    /\ UNCHANGED <<sessionVars, transmitterVars, portVars>>

(* stopCapture(), and getCaptureBuffer() before it looks at the file *)
stopCapture(c) ==
    /\ Section(c, "stopCapture", "lock") \/ Section(c, "getCaptureBuffer", "lock")
    /\ Begin(c, <<<<"stop", "capture">>>>)
    /\ UNCHANGED <<sessionVars, transmitterVars, portVars>>

(* Mutant: the handler unlocks when it returns, before the file is sent. *)
getCaptureBufferUnlocked(c) ==
    /\ pc[c] = "ops" /\ ops[c] = <<>>
    /\ rpc[c].name = "getCaptureBuffer"
    /\ Move(c, "blob")
    /\ blob' = [blob EXCEPT ![c] = got["capture"]]
    /\ lock' = None
    /\ Quiet /\ UNCHANGED <<rpc, calls, portVars>>

(* The file is the reply's blob; the lock is kept for the thread that sends it. *)
getCaptureBuffer(c) ==
    /\ pc[c] = "ops" /\ ops[c] = <<>>
    /\ rpc[c].name = "getCaptureBuffer"
    /\ Move(c, "blob")
    /\ blob' = [blob EXCEPT ![c] = got["capture"]]
    /\ Quiet /\ UNCHANGED <<lock, rpc, calls, portVars>>

(* Sent, or failed to be: the release callback unlocks.  So does the handler when    *)
(* the file has no size or cannot be rewound.                                        *)
finishBinaryBlob(c) ==
    /\ pc[c] = "blob"
    /\ lock' = None
    /\ Move(c, "idle")
    /\ Quiet /\ UNCHANGED <<rpc, calls, blob, portVars>>

---------------------------------------------------------------------------
(* Statistics *)

(* Mutant: the transmitter keeps what the port has taken over. *)
getStreamStatsKept(c) ==
    /\ Section(c, "getStreamStats", "lock")
    /\ portStats' = portStats + xmitStats
    /\ Move(c, "idle")
    /\ Quiet /\ UNCHANGED <<lock, rpc, calls, blob, streams, mode, tracking, dirty, built, groups, cleared>>

(* updateStreamStats() takes over what the transmitter has and clears it there. *)
getStreamStats(c) ==
    /\ Section(c, "getStreamStats", "lock")
    /\ portStats' = portStats + xmitStats /\ xmitStats' = 0
    /\ Move(c, "idle")
    /\ UNCHANGED <<sessionVars, callerVars, txVars, pollVars, threadStats, counted, aborted,
                   lock, rpc, calls, blob, streams, mode, tracking, dirty, built, groups, cleared>>

clearStreamStats(c) ==
    /\ Section(c, "clearStreamStats", "lock")
    /\ resetStreamStatsAll
    /\ Move(c, "idle")
    /\ Quiet /\ UNCHANGED <<lock, rpc, calls, blob, streams, mode, tracking, dirty, built, groups>>

(* Handlers that take the lock and change nothing of what is modelled here *)
Reads(c, name) ==
    /\ Section(c, name, "lock")
    /\ Move(c, "idle")
    /\ Quiet /\ UNCHANGED <<lock, rpc, calls, blob, portVars>>

getPortConfig(c) == Reads(c, "getPortConfig")
getStreamIdList(c) == Reads(c, "getStreamIdList")
getStreamConfig(c) == Reads(c, "getStreamConfig")
getDeviceGroupIdList(c) == Reads(c, "getDeviceGroupIdList")
getDeviceGroupConfig(c) == Reads(c, "getDeviceGroupConfig")
getDeviceList(c) == Reads(c, "getDeviceList")
getDeviceNeighbors(c) == Reads(c, "getDeviceNeighbors")
getStats(c) == Reads(c, "getStats")
clearStats(c) == Reads(c, "clearStats")

---------------------------------------------------------------------------
(* Devices: the first group starts the emulation, the last one stops it. *)

addDeviceGroup(c) ==
    /\ Section(c, "addDeviceGroup", "lock")
    /\ groups' = groups \cup {rpc[c].group}
    /\ Begin(c, IF groups = {} THEN <<<<"start", "emul">>>> ELSE <<>>)
    /\ UNCHANGED <<sessionVars, transmitterVars, streams, mode, tracking, dirty, built, portStats, cleared>>

deleteDeviceGroup(c) ==
    /\ Section(c, "deleteDeviceGroup", "lock")
    /\ groups' = groups \ {rpc[c].group}
    /\ Begin(c, IF groups = {rpc[c].group} THEN <<<<"stop", "emul">>>> ELSE <<>>)
    /\ UNCHANGED <<sessionVars, transmitterVars, streams, mode, tracking, dirty, built, portStats, cleared>>

(* A changed group leaves the packet list as it is and the emulation running. *)
modifyDeviceGroup(c) == Reads(c, "modifyDeviceGroup")

(* Both mark the packet list dirty; a transmitting port is not refused. *)
NeighborsChange(c, name) ==
    /\ Section(c, name, "lock")
    /\ dirty' = TRUE
    /\ Move(c, "idle")
    /\ Quiet /\ UNCHANGED <<lock, rpc, calls, blob, streams, mode, tracking, built, groups, portStats, cleared>>

resolveDeviceNeighbors(c) == NeighborsChange(c, "resolveDeviceNeighbors")
clearDeviceNeighbors(c) == NeighborsChange(c, "clearDeviceNeighbors")

---------------------------------------------------------------------------
SessionCall(c) ==
    /\ \/ StartCall(c) \/ StartJoin(c) \/ StartSpin(c)
       \/ StopCall(c) \/ StopBreak(c) \/ StopHalt(c) \/ StopWait(c)
    /\ UNCHANGED <<transmitterVars, portVars, rpcVars>>

TransmitterCall(c) ==
    /\ \/ PollStart(c) \/ PollSpin(c) \/ TransmitCall(c) \/ TransmitJoin(c) \/ TransmitSpin(c)
       \/ HaltCall(c) \/ HaltSpin(c) \/ HaltJoin(c) \/ PollHalt(c) \/ PollJoin(c)
    /\ UNCHANGED <<portVars, rpcVars>>

Handler(c) ==
    \/ TransmitCheck(c) \/ canModify(c) \/ Unlock(c)
    \/ modifyPort(c) \/ editStreams(c) \/ build(c)
    \/ startTransmitClear(c) \/ startTransmit(c) \/ startTransmitter(c) \/ stopTransmit(c)
    \/ startCapture(c) \/ stopCapture(c) \/ getCaptureBuffer(c)
    \/ getStreamStats(c) \/ clearStreamStats(c)
    \/ getPortConfig(c) \/ getStreamIdList(c) \/ getStreamConfig(c) \/ getDeviceGroupIdList(c)
    \/ getDeviceGroupConfig(c) \/ getDeviceList(c) \/ getDeviceNeighbors(c) \/ getStats(c) \/ clearStats(c)
    \/ addDeviceGroup(c) \/ deleteDeviceGroup(c) \/ modifyDeviceGroup(c)
    \/ resolveDeviceNeighbors(c) \/ clearDeviceNeighbors(c)
    \/ SessionCall(c) \/ TransmitterCall(c)

SessionThread(s) ==
    /\ \/ RunOpen(s) \/ RunReady(s) \/ RunPacket(s) \/ RunStopped(s) \/ RunEnd(s)
    /\ UNCHANGED <<callerVars, transmitterVars, portVars, rpcVars>>

SessionFault(s) ==
    /\ RunFails(s) \/ RunOdd(s)
    /\ UNCHANGED <<callerVars, transmitterVars, portVars, rpcVars>>

TxThread ==
    /\ TxBegin \/ TxSend \/ TxCount \/ TxFinish \/ TxCallback
    /\ UNCHANGED <<portVars, rpcVars>>

PollThread == (PollEnd \/ PollOver) /\ UNCHANGED <<portVars, rpcVars>>

Next ==
    /\ ~aborted
    /\ \/ \E c \in Clients :
            \/ \E r \in Rpcs : Call(c, r)
            \/ Handler(c)
            \/ finishBinaryBlob(c)
       \/ \E s \in Sessions : SessionThread(s) \/ SessionFault(s)
       \/ TxThread \/ PollThread

Spec == Init /\ [][Next]_vars

(* Threads are scheduled; packets arrive, and peers read what is sent to them.      *)
Fair ==
    /\ \A c \in Clients : WF_vars(~aborted /\ Handler(c)) /\ WF_vars(~aborted /\ finishBinaryBlob(c))
    /\ \A s \in Sessions : WF_vars(~aborted /\ SessionThread(s))
    /\ WF_vars(~aborted /\ TxThread) /\ WF_vars(~aborted /\ PollThread)

FairSpec == Spec /\ Fair

---------------------------------------------------------------------------
(* Properties *)

(* pcap_breakloop() and pthread_kill() in PcapSession::stop() reach a session that is *)
(* alive, with its handle open and its signal handler installed: postRun() keeps the  *)
(* thread until the signal has been seen.                                             *)
BreaksLiveSession ==
    \A c \in Clients : At(c, "stop", "break") =>
        open[Target(c)] /\ spc[Target(c)] \in {"loop", "post"}

(* While the capture file is sent as the reply of getCaptureBuffer() nobody restarts  *)
(* the capture or writes to the file: the port's lock is kept until the last byte.    *)
CaptureIsStable ==
    \A c \in Clients : pc[c] = "blob" =>
        got["capture"] = blob[c] /\ Joinable(spc["capture"])

(* Statistics a client asks for after its stop has returned are complete: every       *)
(* packet counted by a transmission is in them exactly once, or was cleared.  The     *)
(* stop joins the transmit thread and with it the callback that hands the counts on.  *)
StatsComplete ==
    [][\A c \in Clients : getStreamStats(c) /\ tpc = "none" =>
            portStats' + cleared = counted]_vars

(* Clients that start only a port whose last transmission was stopped, and stop only  *)
(* one that was started.                                                              *)
Alternate ==
    [](\A c \in Clients : /\ At(c, "transmit", "call") => Joinable(xpc)
                          /\ At(c, "halt", "call") => xpc = "run")

(* With such clients every call returns: the handshakes with the threads end and the  *)
(* port's lock is released on every path.                                             *)
CallsReturn ==
    Alternate => \A c \in Clients : pc[c] # "idle" ~> (pc[c] = "idle" \/ aborted)
=============================================================================
