----------------------------- MODULE QtPortGroup -----------------------------
(***************************************************************************)
(* PortGroup, the Qt client's view of one server: it connects, compares    *)
(* versions, reads the ports with their device groups and streams, applies *)
(* what the user edits, polls statistics, and connects again when the      *)
(* connection is lost.  A group opened from a session file also gives each *)
(* port named there the contents of the file as it reads it.               *)
(*                                                                         *)
(* Everything runs in the one thread of the user interface; what is        *)
(* interleaved are the answers of the server, the user, the timers, the    *)
(* loss of the connection and, at the server, another client and the end   *)
(* of a transmission.  Ports are numbered from 1 here and not from 0.      *)
(***************************************************************************)
EXTENDS QtChannel, PortService, SequencesExt, FiniteSets

CONSTANTS
  NumPorts,
  OnServer,      \* the ports as the client finds them at the first connection
  Session,       \* atConnectConfig_: contents by port, for some of the ports
  Values,        \* contents of streams and device groups
  MaxDrops, MaxEdits, MaxApplies, MaxPolls, MaxChanges, MaxCommands  \* bounds

ASSUME PortGroupAssumption ==
  /\ NumPorts \in Nat /\ DOMAIN OnServer = 1..NumPorts /\ DOMAIN Session \subseteq 1..NumPorts
  /\ \A p \in 1..NumPorts : OnServer[p].conf \in {"free", "mine", "other"}
  /\ \A n \in {MaxDrops, MaxEdits, MaxApplies, MaxPolls, MaxChanges, MaxCommands} : n \in Nat

VARIABLES
  port, conf,      \* at the server: the ports' contents and their reservation
  compatible,      \* the versions of client and server fit
  ports,           \* mPorts
  atConnect,       \* atConnectPortConfig_: is there one, by index
  compat, reconnect,
  timer,           \* reconnectTimer is running
  statsPending,    \* isGetStatsPending_
  applying, applyFailed,   \* applyTimer_.isValid(), applyFailed_
  enabled,         \* mainWindow is enabled
  nextId,          \* mAllocStreamId and allocDeviceGroupId_
  used,            \* bounds: how often things were done
  ghost            \* history, for the properties

serverVars == <<port, conf, compatible>>
linkVars == <<compat, reconnect, timer>>
uiVars == <<statsPending, applying, applyFailed, enabled>>
groupVars == <<serverVars, ports, atConnect, linkVars, uiVars, nextId, used, ghost>>
qtVars == <<channelVars, groupVars>>

None == [i \in {} |-> Blank]
Ids(set) == [i \in set |-> Blank]
Use(what, most) == used[what] < most /\ used' = [used EXCEPT ![what] = @ + 1]

PortGroupInit ==
  /\ ChannelInit
  /\ port = [p \in 1..NumPorts |-> OnServer[p].port] /\ conf = [p \in 1..NumPorts |-> OnServer[p].conf]
  /\ compatible \in BOOLEAN
  /\ ports = <<>> /\ atConnect = <<>>
  /\ compat = "unknown" /\ reconnect = FALSE /\ timer = FALSE
  /\ statsPending = FALSE /\ applying = FALSE /\ applyFailed = FALSE /\ enabled = TRUE
  /\ nextId = 1
  /\ used = [drops |-> 0, edits |-> 0, applies |-> 0, polls |-> 0, changes |-> 0, commands |-> 0]
  /\ ghost = [early |-> FALSE, refused |-> FALSE, kept |-> FALSE, unsent |-> FALSE,
               stranded |-> FALSE, raced |-> FALSE]

-----------------------------------------------------------------------------
(* Port: the streams and device groups of one port, and PortSyncState.     *)

\* streams: a list, since nothing keeps the ids in it apart.  Its order (the
\* ordinals) is left out.
newPort(id) ==
  [id |-> id, conf |-> "free", streams |-> <<>>, groups |-> None, devices |-> None,
   sync |-> [streams |-> {}, groups |-> {}, modified |-> {}, dirty |-> FALSE], busy |-> FALSE]

StreamIdsOf(q) == {q.streams[k].id : k \in DOMAIN q.streams}
StreamsOf(q) == [i \in StreamIdsOf(q) |-> (CHOOSE s \in Range(q.streams) : s.id = i).val]

\* insertStream, insertDeviceGroup for the ids of an answer
insertStream(q, ids) ==
  [q EXCEPT !.streams = @ \o [k \in 1..Len(SetToSeq(ids)) |-> [id |-> SetToSeq(ids)[k], val |-> Blank]]]
insertDeviceGroup(q, ids) == [q EXCEPT !.groups = Added(@, ids)]
Allocated(ids) == nextId' = IF \E i \in ids : nextId <= i
                              THEN 1 + CHOOSE i \in ids : \A j \in ids : j <= i ELSE nextId

\* updateStream (the first stream of that id), updateDeviceGroup
updateStream(q, contents) ==
  LET first(k) == \A j \in 1..(k - 1) : q.streams[j].id # q.streams[k].id
      updated(s) == IF s.id \in DOMAIN contents THEN [s EXCEPT !.val = contents[s.id]] ELSE s
  IN  [q EXCEPT !.streams = [k \in DOMAIN @ |-> IF first(k) THEN updated(@[k]) ELSE @[k]]]
updateDeviceGroup(q, contents) == [q EXCEPT !.groups = Modified(@, contents)]

when_syncComplete(q) ==
  [q EXCEPT !.sync = [streams |-> StreamIdsOf(q), groups |-> DOMAIN q.groups,
                      modified |-> {}, dirty |-> FALSE]]
when_deviceGroupsAdded(q, ids) == [q EXCEPT !.sync.groups = @ \union ids]

getDeletedStreamsSinceLastSync(q) == q.sync.streams \ StreamIdsOf(q)
getNewStreamsSinceLastSync(q) == StreamIdsOf(q) \ q.sync.streams
getDeletedDeviceGroupsSinceLastSync(q) == q.sync.groups \ DOMAIN q.groups
getNewDeviceGroupsSinceLastSync(q) == DOMAIN q.groups \ q.sync.groups
getModifiedDeviceGroupsSinceLastSync(q) ==
  (q.sync.modified \union getNewDeviceGroupsSinceLastSync(q)) \intersect DOMAIN q.groups

\* modifiablePortConfig: is there something to change
modifiablePortConfig(q, c) == c # q.conf

-----------------------------------------------------------------------------
(* The connection.                                                         *)

connectToHost == reconnect' = TRUE /\ compat' = "unknown" /\ establish

\* The user connects the group: addPortGroup, Connect Port Group
Connect ==
  /\ enabled /\ ~dialog /\ sock = "unconnected" /\ connectToHost
  /\ UNCHANGED <<pending, queue, wire, request, compared, dialog, serverVars, ports, atConnect,
                 timer, uiVars, nextId, used, ghost>>

on_reconnectTimer_timeout ==
  /\ timer /\ timer' = FALSE /\ connectToHost
  /\ UNCHANGED <<pending, queue, wire, request, compared, dialog, serverVars, ports, atConnect,
                 uiVars, nextId, used, ghost>>

\* The versions are compared first.
on_rpcChannel_connected ==
  /\ sock = "connecting" /\ reconnect /\ sock' = "connected"
  /\ CallMethod(<<Call("checkVersion", "processVersionCompatibility", 0, None)>>)
  /\ ghost' = [ghost EXCEPT !.raced = @ \/ dialog]
  /\ UNCHANGED <<wire, compared, dialog, serverVars, ports, atConnect, linkVars, uiVars, nextId, used>>

\* on_rpcChannel_error, for an attempt that did not succeed; also the end of
\* one which the user broke off.
on_rpcChannel_error ==
  /\ sock = "connecting" /\ sock' = "unconnected"
  /\ timer' = (timer \/ reconnect)
  /\ UNCHANGED <<pending, queue, wire, request, compared, dialog, serverVars, ports, atConnect,
                 compat, reconnect, uiVars, nextId, used, ghost>>

\* Mutant: the window is not given back to the user.
on_rpcChannel_disconnectedBusy ==
  /\ on_mpSocket_disconnected
  /\ ports' = <<>> /\ atConnect' = <<>> /\ applying' = FALSE /\ statsPending' = FALSE
  /\ timer' = (timer \/ reconnect')
  /\ UNCHANGED <<serverVars, compat, applyFailed, enabled, nextId>>

\* "Disconnected during apply? Restore UI."
on_rpcChannel_disconnected ==
  /\ on_mpSocket_disconnected
  /\ ports' = <<>> /\ atConnect' = <<>> /\ applying' = FALSE /\ statsPending' = FALSE
  /\ enabled' = (enabled \/ applying)
  /\ timer' = (timer \/ reconnect')
  /\ UNCHANGED <<serverVars, compat, applyFailed, nextId>>

\* The window stays disabled when the port was being modified and not applied.
Stranding == ~enabled /\ ~applying

Drop ==
  /\ sock = "connected" /\ Use("drops", MaxDrops) /\ UNCHANGED reconnect
  /\ on_rpcChannel_disconnected
  /\ ghost' = [ghost EXCEPT !.stranded = @ \/ Stranding]

\* Disconnect Port Group
disconnectFromHost ==
  /\ enabled /\ ~dialog /\ sock # "unconnected" /\ Use("drops", MaxDrops) /\ reconnect' = FALSE
  /\ IF sock = "connected" THEN on_rpcChannel_disconnected
     ELSE UNCHANGED <<channelVars, serverVars, ports, atConnect, compat, timer, uiVars, nextId>>
  /\ UNCHANGED ghost

-----------------------------------------------------------------------------
(* Reading the ports.                                                      *)

Ok == Head(wire).ok
Data == Head(wire).data
Index == pending.port
Port == ports[Index]
SetPort(q) == ports' = [ports EXCEPT ![Index] = q]

processVersionCompatibility ==
  /\ Answered("processVersionCompatibility")
  /\ IF Ok THEN /\ compat' = "compatible" /\ UNCHANGED reconnect
                /\ Complete(<<Call("getPortIdList", "processPortIdList", 0, None)>>)
     ELSE compat' = "incompatible" /\ reconnect' = FALSE /\ Ask(<<>>)
  /\ UNCHANGED <<serverVars, ports, atConnect, timer, uiVars, nextId, used, ghost>>

\* The ports are appended to the list; atConnectPortConfig_ "will be filled later".
processPortIdList ==
  /\ Answered("processPortIdList")
  /\ ports' = ports \o [k \in 1..Cardinality(DOMAIN Data) |-> newPort(k)]
  /\ atConnect' = atConnect \o [k \in 1..Cardinality(DOMAIN Data) |-> FALSE]
  /\ Complete(<<Call("getPortConfig", "processPortConfigList", 0, Data)>>)
  /\ UNCHANGED <<serverVars, linkVars, uiVars, nextId, used, ghost>>

ForEachPort(m, done, n) == [k \in 1..n |-> Call(m, done, k, None)]
getDeviceGroupIdList(n) == ForEachPort("getDeviceGroupIdList", "processDeviceGroupIdList", n)
getStreamIdList(n) == ForEachPort("getStreamIdList", "processStreamIdList", n)

\* Mutant: the streams are asked for first.
ReadAllSwapped(n) == getStreamIdList(n) \o getDeviceGroupIdList(n)

\* "the following two RPCs are invoked in the below order"
ReadAll(n) == getDeviceGroupIdList(n) \o getStreamIdList(n)

updatePortConfig(contents) ==
  ports' = [k \in DOMAIN ports |-> IF k \in DOMAIN contents THEN [ports[k] EXCEPT !.conf = contents[k]] ELSE ports[k]]

\* The ports of the session file get its contents, except the ones another
\* user has reserved: a dialog says so.
processPortConfigList ==
  /\ Answered("processPortConfigList")
  /\ updatePortConfig(Data)
  /\ atConnect' = [k \in DOMAIN ports |-> k \in DOMAIN Session /\ Data[k] # "other"]
  /\ IF \E k \in DOMAIN ports \intersect DOMAIN Session : Data[k] = "other"
       THEN Ask(ReadAll(Len(ports))) ELSE Complete(ReadAll(Len(ports)))
  /\ UNCHANGED <<serverVars, linkVars, uiVars, nextId, used, ghost>>

\* The user closes the dialog.
CloseDialog == Closed /\ UNCHANGED groupVars

getDeviceInfo(p) == <<Call("getDeviceList", "processDeviceList", p, None),
                      Call("getDeviceNeighbors", "processDeviceNeighbors", p, None)>>
getDeviceGroupConfigList(q, p) ==
  IF q.groups = None THEN getDeviceInfo(p)
  ELSE <<Call("getDeviceGroupConfig", "processDeviceGroupConfigList", p, Ids(DOMAIN q.groups))>>
getStreamConfigList(q, p) ==
  IF q.streams = <<>> THEN <<>>
  ELSE <<Call("getStreamConfig", "processStreamConfigList", p, Ids(StreamIdsOf(q)))>>

processDeviceGroupIdList ==
  /\ Answered("processDeviceGroupIdList")
  /\ IF atConnect[Index]
       THEN /\ Complete(IF Data = None THEN <<>>
                        ELSE <<Call("deleteDeviceGroup", "processDeleteDeviceGroupAck", Index, Data)>>)
            /\ UNCHANGED <<ports, nextId>>
       ELSE LET q == insertDeviceGroup(Port, DOMAIN Data)
            IN  SetPort(q) /\ Allocated(DOMAIN Data) /\ Complete(getDeviceGroupConfigList(q, Index))
  /\ UNCHANGED <<serverVars, atConnect, linkVars, uiVars, used, ghost>>

processDeviceGroupConfigList ==
  /\ Answered("processDeviceGroupConfigList")
  /\ SetPort(updateDeviceGroup(Port, Data)) /\ Complete(getDeviceInfo(Index))
  /\ UNCHANGED <<serverVars, atConnect, linkVars, uiVars, nextId, used, ghost>>

\* "we'll insert the following RPC sequence at this point", and read again
Reconfigure(q, p, old) ==
  LET new == Session[p]
      some(wanted, calls) == IF wanted THEN calls ELSE <<>>
  IN  some(old # None, <<Call("deleteStream", "processDeleteStreamAck", p, old)>>)
      \o some(modifiablePortConfig(q, new.conf),
              <<Call("modifyPort", "processModifyPortAck", p, [i \in {p} |-> new.conf])>>)
      \o some(new.groups # None,
              <<Call("addDeviceGroup", "processAddDeviceGroupAck", p, Ids(DOMAIN new.groups)),
                Call("modifyDeviceGroup", "processModifyDeviceGroupAck", p, new.groups)>>)
      \o some(new.streams # None,
              <<Call("addStream", "processAddStreamAck", p, Ids(DOMAIN new.streams)),
                Call("modifyStream", "processModifyStreamAck", p, new.streams)>>)
      \o some(new.groups # None \/ new.streams # None,
              <<Call("resolveDeviceNeighbors", "processResolveDeviceNeighborsAck", p, None)>>)
      \o <<Call("build", "processModifyPortBuildAck(false)", p, None),
           Call("getDeviceGroupIdList", "processDeviceGroupIdList", p, None),
           Call("getStreamIdList", "processStreamIdList", p, None)>>

processStreamIdList ==
  /\ Answered("processStreamIdList")
  /\ IF atConnect[Index]
       THEN /\ atConnect' = [atConnect EXCEPT ![Index] = FALSE]
            /\ Complete(Reconfigure(Port, Index, Data)) /\ UNCHANGED <<ports, nextId>>
       ELSE LET q == when_syncComplete(insertStream(Port, DOMAIN Data))
            IN  SetPort(q) /\ Allocated(DOMAIN Data) /\ Complete(getStreamConfigList(q, Index))
                /\ UNCHANGED atConnect
  /\ UNCHANGED <<serverVars, linkVars, uiVars, used, ghost>>

processStreamConfigList ==
  /\ Answered("processStreamConfigList")
  /\ SetPort(updateStream(Port, Data)) /\ Complete(<<>>)
  /\ UNCHANGED <<serverVars, atConnect, linkVars, uiVars, nextId, used, ghost>>

processDeviceList ==
  /\ Answered("processDeviceList")
  /\ SetPort([Port EXCEPT !.devices = Data]) /\ Complete(<<>>)
  /\ UNCHANGED <<serverVars, atConnect, linkVars, uiVars, nextId, used, ghost>>

-----------------------------------------------------------------------------
(* Applying what the user edited.                                          *)

\* when_configApply: the calls of ApplyPlan's operations, in their order
ApplyCalls(q, p) ==
  LET deletedGroups == getDeletedDeviceGroupsSinceLastSync(q)
      newGroups == getNewDeviceGroupsSinceLastSync(q)
      modifiedGroups == getModifiedDeviceGroupsSinceLastSync(q)
      deleted == getDeletedStreamsSinceLastSync(q)
      new == getNewStreamsSinceLastSync(q)
      some(wanted, calls) == IF wanted THEN calls ELSE <<>>
  IN  some(deletedGroups # {}, <<Call("deleteDeviceGroup", "processDeleteDeviceGroupAck", p, Ids(deletedGroups))>>)
      \o some(newGroups # {}, <<Call("addDeviceGroup", "processApplyAddDeviceGroupAck", p, Ids(newGroups))>>)
      \o some(modifiedGroups # {}, <<Call("modifyDeviceGroup", "processModifyDeviceGroupAck", p,
                                         Restrict(q.groups, modifiedGroups))>>)
      \o some(deletedGroups \union newGroups \union modifiedGroups # {}, getDeviceInfo(p))
      \o some(deleted # {}, <<Call("deleteStream", "processDeleteStreamAck", p, Ids(deleted))>>)
      \o some(new # {}, <<Call("addStream", "processAddStreamAck", p, Ids(new))>>)
      \o some(q.streams # <<>>, <<Call("modifyStream", "processModifyStreamAck", p, StreamsOf(q))>>)
      \o <<Call("resolveDeviceNeighbors", "processResolveDeviceNeighborsAck", p, None),
           Call("build", "processApplyBuildAck", p, None)>>

\* What the user may do: the window takes input and the group has the port.
User(p) == enabled /\ ~dialog /\ sock = "connected" /\ p \in DOMAIN ports

\* on_pbApply_clicked: not while the port transmits, as far as is known here
when_configApply(p) ==
  /\ User(p) /\ ~ports[p].busy /\ Use("applies", MaxApplies)
  /\ enabled' = FALSE /\ applying' = TRUE /\ applyFailed' = FALSE
  /\ CallMethod(ApplyCalls(ports[p], p))
  /\ UNCHANGED <<sock, wire, compared, dialog, serverVars, ports, atConnect, linkVars, statsPending,
                 nextId, ghost>>

\* Completions that only report what went wrong
Reports(done) ==
  /\ Answered(done) /\ Complete(<<>>)
  /\ UNCHANGED <<serverVars, ports, atConnect, linkVars, uiVars, nextId, used>>
processAddStreamAck == Reports("processAddStreamAck") /\ UNCHANGED ghost
processAddDeviceGroupAck == Reports("processAddDeviceGroupAck") /\ UNCHANGED ghost
processResolveDeviceNeighborsAck == Reports("processResolveDeviceNeighborsAck") /\ UNCHANGED ghost
processDeviceNeighbors == Reports("processDeviceNeighbors") /\ UNCHANGED ghost
processModifyPortAck == Reports("processModifyPortAck") /\ UNCHANGED ghost

\* An apply goes on, and succeeds, when the server has kept what it was to delete.
Kept == ghost' = [ghost EXCEPT !.kept = @ \/ (applying /\ ~Ok)]
processDeleteStreamAck == Reports("processDeleteStreamAck") /\ Kept
processDeleteDeviceGroupAck == Reports("processDeleteDeviceGroupAck") /\ Kept

processApplyAddDeviceGroupAck ==
  /\ Answered("processApplyAddDeviceGroupAck") /\ Complete(<<>>)
  /\ IF Ok THEN SetPort(when_deviceGroupsAdded(Port, DOMAIN pending.arg)) /\ UNCHANGED applyFailed
     ELSE applyFailed' = TRUE /\ UNCHANGED ports
  /\ UNCHANGED <<serverVars, atConnect, linkVars, statsPending, applying, enabled, nextId, used, ghost>>

\* Mutant: an error of the server is only reported.
ModifiedReported(done) == Reports(done) /\ UNCHANGED ghost

Modifies(done) ==
  /\ Answered(done) /\ Complete(<<>>)
  /\ applyFailed' = (applyFailed \/ ~Ok)
  /\ UNCHANGED <<serverVars, ports, atConnect, linkVars, statsPending, applying, enabled, nextId, used, ghost>>
processModifyDeviceGroupAck == Modifies("processModifyDeviceGroupAck")
processModifyStreamAck == Modifies("processModifyStreamAck")

\* The port has been applied, with errors or without; the user may go on.
processApplyBuildAck ==
  /\ Answered("processApplyBuildAck") /\ Complete(<<>>)
  /\ applying' = FALSE /\ enabled' = TRUE /\ applyFailed' = (applyFailed \/ ~Ok)
  /\ IF applyFailed' THEN UNCHANGED ports ELSE SetPort(when_syncComplete(Port))
  /\ UNCHANGED <<serverVars, atConnect, linkVars, statsPending, nextId, used, ghost>>

-----------------------------------------------------------------------------
(* The user's edits of a port.                                             *)

\* The lists of a port have not been read in full.
Hydrating(p) ==
  \E c \in {pending} \union Range(queue) :
    c.done \in {"processVersionCompatibility", "processPortIdList", "processPortConfigList"}
    \/ (c.port = p /\ c.done \in {"processDeviceGroupIdList", "processDeviceGroupConfigList",
                                  "processStreamIdList", "processStreamConfigList"})

\* The user deletes a stream that an apply has added, but which is not taken for
\* the server's because the apply failed later: its deletion is never sent.
Unsent(p, q) ==
  \E i \in StreamIdsOf(ports[p]) \ StreamIdsOf(q) :
    i \in DOMAIN port[p].streams \ ports[p].sync.streams

Edits(p, q) ==
  /\ User(p) /\ Use("edits", MaxEdits)
  /\ ports' = [ports EXCEPT ![p] = [q EXCEPT !.sync.dirty = TRUE]]
  /\ ghost' = [ghost EXCEPT !.early = @ \/ Hydrating(p), !.unsent = @ \/ Unsent(p, q)]
  /\ UNCHANGED <<channelVars, serverVars, atConnect, linkVars, uiVars>>

newStreamAt(p, v) ==
  /\ Edits(p, [ports[p] EXCEPT !.streams = Append(@, [id |-> nextId, val |-> v])])
  /\ nextId' = nextId + 1
deleteStreamAt(p, k) ==
  /\ Edits(p, [ports[p] EXCEPT !.streams = RemoveAt(@, k)]) /\ UNCHANGED nextId
newDeviceGroupAt(p, v) ==
  /\ Edits(p, [ports[p] EXCEPT !.groups = [Added(@, {nextId}) EXCEPT ![nextId] = v],
                               !.sync.modified = @ \union {nextId}])
  /\ nextId' = nextId + 1
deleteDeviceGroupAt(p, i) ==
  /\ Edits(p, [ports[p] EXCEPT !.groups = Deleted(@, {i})]) /\ UNCHANGED nextId
mutableDeviceGroupByIndex(p, i, v) ==
  /\ Edits(p, [ports[p] EXCEPT !.groups[i] = v, !.sync.modified = @ \union {i}]) /\ UNCHANGED nextId

-----------------------------------------------------------------------------
(* The other requests.                                                     *)

\* modifyPort, and the new build of the packets; the window waits for it.
modifyPort(p, c) ==
  /\ User(p) /\ c # ports[p].conf /\ Use("commands", MaxCommands) /\ enabled' = FALSE
  /\ CallMethod(<<Call("modifyPort", "processModifyPortAck", p, [i \in {p} |-> c]),
                  Call("build", "processModifyPortBuildAck(true)", p, None)>>)
  /\ UNCHANGED <<sock, wire, compared, dialog, serverVars, ports, atConnect, linkVars, statsPending,
                 applying, applyFailed, nextId, ghost>>

processModifyPortBuildAck(restoreUi) ==
  /\ Answered(IF restoreUi THEN "processModifyPortBuildAck(true)" ELSE "processModifyPortBuildAck(false)")
  /\ Complete(<<>>) /\ enabled' = (enabled \/ restoreUi)
  /\ UNCHANGED <<serverVars, ports, atConnect, linkVars, statsPending, applying, applyFailed, nextId, used, ghost>>

\* The buttons of the statistics window: a request, and a completion that reports.
Command(p, m, done) ==
  /\ User(p) /\ Use("commands", MaxCommands) /\ CallMethod(<<Call(m, done, p, Ids({p}))>>)
  /\ UNCHANGED <<sock, wire, compared, dialog, serverVars, ports, atConnect, linkVars, uiVars, nextId, ghost>>
startTx(p) == Command(p, "startTransmit", "processStartTxAck")
stopTx(p) == Command(p, "stopTransmit", "processStopTxAck")
startCapture(p) == Command(p, "startCapture", "processStartCaptureAck")
stopCapture(p) == Command(p, "stopCapture", "processStopCaptureAck")
viewCapture(p) == Command(p, "getCaptureBuffer", "processViewCaptureAck")
resolveNeighbors(p) == Command(p, "resolveDeviceNeighbors", "processResolveDeviceNeighborsAck")
clearDeviceNeighbors(p) == Command(p, "clearDeviceNeighbors", "processClearDeviceNeighborsAck")
clearPortStats(p) == Command(p, "clearStats", "processClearPortStatsAck")
clearStreamStats(p) == Command(p, "clearStreamStats", "processClearStreamStatsAck")
getStreamStats(p) == Command(p, "getStreamStats", "processStreamStatsList")

processStartTxAck == Reports("processStartTxAck") /\ UNCHANGED ghost
processStopTxAck == Reports("processStopTxAck") /\ UNCHANGED ghost
processStartCaptureAck == Reports("processStartCaptureAck") /\ UNCHANGED ghost
processStopCaptureAck == Reports("processStopCaptureAck") /\ UNCHANGED ghost
processClearDeviceNeighborsAck == Reports("processClearDeviceNeighborsAck") /\ UNCHANGED ghost
processClearStreamStatsAck == Reports("processClearStreamStatsAck") /\ UNCHANGED ghost
processStreamStatsList == Reports("processStreamStatsList") /\ UNCHANGED ghost

\* Wireshark is started on the file, or a dialog says that it is not there.
processViewCaptureAck ==
  /\ Answered("processViewCaptureAck") /\ (Complete(<<>>) \/ Ask(<<>>))
  /\ UNCHANGED groupVars

\* getPortStats: one poll at a time
PollCalls == IF ports # <<>> /\ ~statsPending
               THEN <<Call("getStats", "processPortStatsList", 0, Ids(1..Len(ports)))>> ELSE <<>>
getPortStats ==
  /\ sock = "connected" /\ compat # "incompatible" /\ PollCalls # <<>> /\ Use("polls", MaxPolls)
  /\ CallMethod(PollCalls) /\ statsPending' = TRUE
  /\ UNCHANGED <<sock, wire, compared, dialog, serverVars, ports, atConnect, linkVars, applying,
                 applyFailed, enabled, nextId, ghost>>

processPortStatsList ==
  /\ Answered("processPortStatsList") /\ Complete(<<>>) /\ statsPending' = FALSE
  /\ ports' = [k \in DOMAIN ports |-> [ports[k] EXCEPT !.busy = Data[k] = "busy"]]
  /\ UNCHANGED <<serverVars, atConnect, linkVars, applying, applyFailed, enabled, nextId, used, ghost>>

\* "Refresh stats immediately after a stats clear/reset"
processClearPortStatsAck ==
  /\ Answered("processClearPortStatsAck") /\ Complete(PollCalls)
  /\ statsPending' = (statsPending \/ PollCalls # <<>>)
  /\ UNCHANGED <<serverVars, ports, atConnect, linkVars, applying, applyFailed, enabled, nextId, used, ghost>>

on_rpcChannel_notification ==
  /\ Notified(<<Call("getPortConfig", "processUpdatedPortConfig", 0, Head(wire).data)>>)
  /\ UNCHANGED groupVars

processUpdatedPortConfig ==
  /\ Answered("processUpdatedPortConfig") /\ updatePortConfig(Data) /\ Complete(<<>>)
  /\ UNCHANGED <<serverVars, atConnect, linkVars, uiVars, nextId, used, ghost>>

-----------------------------------------------------------------------------
(* The server.                                                             *)

\* The client is of another version: the server answers and disconnects.
checkVersion ==
  /\ Serves("checkVersion") /\ sendRpcReply(compatible, None, <<>>, <<>>)
  /\ UNCHANGED groupVars

ServerCloses ==
  /\ sock = "connected" /\ compat = "incompatible"
  /\ UNCHANGED <<reconnect, used, ghost>> /\ on_rpcChannel_disconnected

Reads == {"getPortIdList", "getPortConfig", "getDeviceGroupIdList", "getDeviceGroupConfig",
          "getStreamIdList", "getStreamConfig", "getDeviceList", "getDeviceNeighbors", "getStats"}
ReadData(r) ==
  CASE r.m = "getPortIdList" -> Ids(1..NumPorts)
    [] r.m = "getPortConfig" -> Restrict(conf, DOMAIN r.arg)
    [] r.m = "getDeviceGroupIdList" -> Ids(DOMAIN port[r.port].groups)
    [] r.m = "getDeviceGroupConfig" -> Restrict(port[r.port].groups, DOMAIN r.arg \intersect DOMAIN port[r.port].groups)
    [] r.m = "getStreamIdList" -> Ids(DOMAIN port[r.port].streams)
    [] r.m = "getStreamConfig" -> Restrict(port[r.port].streams, DOMAIN r.arg \intersect DOMAIN port[r.port].streams)
    [] r.m = "getDeviceList" -> port[r.port].groups
    [] r.m = "getStats" -> [p \in DOMAIN r.arg |-> IF port[p].busy THEN "busy" ELSE "idle"]
    [] OTHER -> None
Read ==
  /\ request.m \in Reads /\ Serves(request.m) /\ sendRpcReply(TRUE, ReadData(request), <<>>, <<>>)
  /\ UNCHANGED groupVars

\* Requests on one port.  The ones on streams, device groups and packets are
\* refused while it transmits.
Guarded == {"addStream", "deleteStream", "modifyStream", "addDeviceGroup", "deleteDeviceGroup",
            "modifyDeviceGroup", "build"}
Writes == Guarded \union {"resolveDeviceNeighbors", "startTransmit", "stopTransmit"}
Answer(p, r, valid) ==
  CASE r.m \in Guarded /\ p.busy -> [port |-> p, ok |-> FALSE]
    [] r.m = "addStream" -> addStream(p, DOMAIN r.arg)
    [] r.m = "deleteStream" -> deleteStream(p, DOMAIN r.arg)
    [] r.m = "modifyStream" -> modifyStream(p, r.arg)
    [] r.m = "addDeviceGroup" -> addDeviceGroup(p, DOMAIN r.arg)
    [] r.m = "deleteDeviceGroup" -> deleteDeviceGroup(p, DOMAIN r.arg)
    [] r.m = "modifyDeviceGroup" -> modifyDeviceGroup(p, r.arg)
    [] r.m = "build" -> build(p, valid)
    [] r.m = "resolveDeviceNeighbors" -> resolveDeviceNeighbors(p)
    [] r.m = "startTransmit" -> startTransmit(p)
    [] r.m = "stopTransmit" -> stopTransmit(p)
Write(valid) ==
  /\ request.m \in Writes /\ Serves(request.m)
  /\ LET a == Answer(port[request.port], request, valid)
     IN  /\ port' = [port EXCEPT ![request.port] = a.port]
         /\ sendRpcReply(a.ok, None, <<>>, <<>>)
         /\ ghost' = [ghost EXCEPT !.refused = @ \/ (~a.ok /\ request.m \in Guarded)]
  /\ UNCHANGED <<conf, compatible, ports, atConnect, linkVars, uiVars, nextId, used>>

\* The clients are told of a change, which the service may do before or after
\* the answer is sent.
Changed(r) == <<Message("notify", "portConfigChanged", TRUE, r.arg)>>
ServeModifyPort ==
  /\ Serves("modifyPort")
  /\ conf' = [p \in DOMAIN conf |-> IF p \in DOMAIN request.arg THEN request.arg[p] ELSE conf[p]]
  /\ \/ sendRpcReply(TRUE, None, Changed(request), <<>>)
     \/ sendRpcReply(TRUE, None, <<>>, Changed(request))
  /\ UNCHANGED <<port, compatible, ports, atConnect, linkVars, uiVars, nextId, used, ghost>>

Others == {"startCapture", "stopCapture", "getCaptureBuffer", "clearDeviceNeighbors",
           "clearStats", "clearStreamStats", "getStreamStats"}
ServeOther(ok) ==
  /\ request.m \in Others /\ Serves(request.m) /\ sendRpcReply(ok, None, <<>>, <<>>)
  /\ UNCHANGED groupVars

\* Another client changes who has reserved a port.
OtherClient(p, c) ==
  /\ c # conf[p] /\ Use("changes", MaxChanges) /\ conf' = [conf EXCEPT ![p] = c]
  /\ IF sock = "connected" /\ compared THEN sendNotification([i \in {p} |-> c]) ELSE UNCHANGED channelVars
  /\ UNCHANGED <<port, compatible, ports, atConnect, linkVars, uiVars, nextId, ghost>>

TransmitEnds(p) ==
  /\ port[p].busy /\ port' = [port EXCEPT ![p] = stopTransmit(port[p]).port]
  /\ UNCHANGED <<channelVars, conf, compatible, ports, atConnect, linkVars, uiVars, nextId, used, ghost>>

-----------------------------------------------------------------------------

Serve ==
  \/ checkVersion \/ Read \/ (\E valid \in IF request.m = "build" THEN BOOLEAN ELSE {TRUE} : Write(valid)) \/ ServeModifyPort
  \/ \E ok \in BOOLEAN : ServeOther(ok)

readyRead ==
  \/ processVersionCompatibility \/ processPortIdList \/ processPortConfigList
  \/ processDeviceGroupIdList \/ processDeviceGroupConfigList \/ processStreamIdList
  \/ processStreamConfigList \/ processDeviceList \/ processDeviceNeighbors
  \/ processAddStreamAck \/ processDeleteStreamAck \/ processModifyStreamAck
  \/ processAddDeviceGroupAck \/ processDeleteDeviceGroupAck \/ processModifyDeviceGroupAck
  \/ processApplyAddDeviceGroupAck \/ processApplyBuildAck \/ processResolveDeviceNeighborsAck
  \/ processModifyPortAck \/ processModifyPortBuildAck(TRUE) \/ processModifyPortBuildAck(FALSE)
  \/ processStartTxAck \/ processStopTxAck \/ processStartCaptureAck \/ processStopCaptureAck
  \/ processViewCaptureAck \/ processClearDeviceNeighborsAck \/ processClearPortStatsAck
  \/ processClearStreamStatsAck \/ processStreamStatsList \/ processPortStatsList
  \/ processUpdatedPortConfig \/ on_rpcChannel_notification
  \/ (Unexpected /\ UNCHANGED groupVars)

Edit(p) ==
  \/ \E v \in Values : newStreamAt(p, v) \/ newDeviceGroupAt(p, v)
  \/ \E k \in DOMAIN ports[p].streams : deleteStreamAt(p, k)
  \/ \E i \in DOMAIN ports[p].groups :
       deleteDeviceGroupAt(p, i) \/ \E v \in Values : mutableDeviceGroupByIndex(p, i, v)

Button(p) ==
  \/ \E c \in {"free", "mine"} : modifyPort(p, c)
  \/ startTx(p) \/ stopTx(p) \/ startCapture(p) \/ stopCapture(p) \/ viewCapture(p)
  \/ resolveNeighbors(p) \/ clearDeviceNeighbors(p) \/ clearPortStats(p) \/ clearStreamStats(p)
  \/ getStreamStats(p)

Users == \E p \in DOMAIN ports : Edit(p) \/ when_configApply(p) \/ Button(p)

Connection ==
  \/ Connect \/ disconnectFromHost \/ Drop \/ ServerCloses \/ on_reconnectTimer_timeout
  \/ on_rpcChannel_connected \/ on_rpcChannel_error \/ CloseDialog \/ getPortStats

Surroundings == \E p \in 1..NumPorts : TransmitEnds(p) \/ \E c \in {"free", "other"} : OtherClient(p, c)

PortGroupNext == Connection \/ Serve \/ readyRead \/ Users \/ Surroundings

\* The server answers, the client's event loop runs, the reconnect timer
\* expires, the user closes dialogs, and a server that is tried again and
\* again is reached at last.
PortGroupSpec ==
  /\ PortGroupInit /\ [][PortGroupNext]_qtVars
  /\ WF_qtVars(Serve) /\ WF_qtVars(readyRead) /\ WF_qtVars(CloseDialog)
  /\ WF_qtVars(on_reconnectTimer_timeout) /\ SF_qtVars(on_rpcChannel_connected)

-----------------------------------------------------------------------------
(* Properties.                                                             *)

Idle == sock = "connected" /\ pending = NoCall /\ ~dialog /\ wire = <<>> /\ Len(ports) = NumPorts

\* A port without changes to apply is the server's: it has the streams and the
\* device groups the client shows, with these contents, although an apply is a
\* row of requests each of which the server may have refused.  (Not so when it
\* kept what it was to delete, portgroup.cpp:672, 746, when the user edited the
\* port before it had been read, portgroup.cpp:1266, or deleted a stream that an
\* apply had added before it failed, portgroup.cpp:820.)
SyncedIsApplied ==
  Idle /\ ~ghost.early /\ ~ghost.kept /\ ~ghost.unsent =>
    \A p \in DOMAIN ports :
      ~ports[p].sync.dirty =>
        /\ StreamsOf(ports[p]) = port[p].streams
        /\ [i \in DOMAIN ports[p].groups |-> Canon(ports[p].groups[i])] = port[p].groups

\* Once everything has been read, a port of the session file which nobody else
\* has reserved has the file's streams and device groups and no others, at the
\* server and in the client, if the server refused nothing: the requests that
\* replace its contents come between the ones that read it, in the right places.
SessionOpened ==
  Idle /\ ~ghost.refused /\ used.edits = 0 /\ used.changes = 0 =>
    \A p \in DOMAIN Session :
      ports[p].conf # "other" =>
        /\ port[p].streams = Session[p].streams /\ StreamsOf(ports[p]) = Session[p].streams
        /\ port[p].groups = [i \in DOMAIN Session[p].groups |-> Canon(Session[p].groups[i])]
        /\ ports[p].groups = port[p].groups

\* The window that an apply has disabled is enabled again, whatever fails and
\* when the connection is lost.  (Not so when it is lost while a port is being
\* modified, portgroup.cpp:244.)
WindowReturns == [](~ghost.stranded) => (~enabled ~> enabled)

\* A group that is to be connected gets the ports of its server in the end.
\* (Not so if it connected again while a completion showed a dialog, the end of
\* which takes the version check for answered, pbrpcchannel.cpp:428.)
Hydrates ==
  [](~ghost.raced) => (sock = "connecting" /\ compatible ~> Len(ports) = NumPorts \/ ~reconnect \/ ~compatible)
=============================================================================
