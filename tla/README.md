# Ostinato: TLA+ models, model checking and proofs

Ostinato generates and captures packets. A server (*drone*) owns the network
ports of a machine; clients configure streams and emulated devices on the ports
and start and stop transmission and capture. This directory holds TLA+ modules
translated from the code, TLC configurations that check them on small
instances, and TLAPS proofs. `PROJECT.json` maps every definition to the lines
it models and lists the components, the hazards, the runs and the theorems.

## 1. The system

| Part | State | Operations | Interacts with |
| --- | --- | --- | --- |
| RPC client `rpc/pbrpc_client_core` | current connection, generation, connect attempts, active invocations, frames received | connect, call, disconnect, cancel, destructor, connected | its threads, the server |
| RPC server `rpc/pbrpc_server_core` | listening socket, accept thread, connections with a thread, a write mutex and notification flags | start, stop, accept, receive, reply, blob, broadcast | service, peers |
| Frames `rpc/pbrpc_core` | bytes of an incomplete frame | push, encode, header checks | both of the above |
| Client session `client/core/client_session` | ports, pending notifications, endpoint | connect, reconnect, hydrate, apply, control, statistics, capture, disconnect, cancel | RPC client |
| Port state `client/core/port_state` | desired streams and groups, what is known of the server's, marks | edits, plan, marks | session |
| Service `server/myservice` | ports, a read/write lock per port | 30 RPC methods, notification | ports, RPC server |
| Ports `server/abstractport`, `pcapport`, platform ports | streams, packet list, dirty flag, statistics | add, delete, modify, build, start, stop, statistics | transmitter, capture, devices |
| Transmitter `server/pcaptransmitter`, `pcaptxthread` | thread state, stop flag, packet sequences | start, stop, run | port |
| Capture and statistics `server/pcapsession`, `pcaprxstats`, `pcaptxttagstats`, `streamtiming` | thread state, counters, time-stamp records | start, stop, record, match, delete | port, transmitter |
| Device emulation `server/devicemanager`, `device`, `emuldevice` | groups, devices, neighbour caches | add, delete, modify, enumerate, resolve, receive | port |
| Qt RPC `rpc/rpcserver`, `rpcconn`, `pbrpcchannel` | call queue, parse state | the same RPC over Qt sockets | Qt client |
| Controller `controller/` | session, stop flag, statistics timer | connect, disconnect, reconnect, shutdown over framed stdio | session, sidecar |
| Sidecar `desktop/electron/` | child, pending requests, deadlines, termination state | start, command, stop, output handling | controller, renderer |
| Protocol library `common/` | protocol trees of the streams | field access, frame values, counts, checksums, import and export | ports, clients |
| Qt client `client/` | port groups, ports, streams, models | edits, apply, stream dialog, file operations | Qt channel |

What is hard in this system: calls, interrupts and destruction from several
threads; a connection object used by its own thread, by broadcasts and by
`stop()`; answers matched by method only; timeouts with the answer on its way;
a configuration brought to the server in many calls, any of which may be
refused, with other clients active on the same port; locks held while a blob is
sent; threads that wait for each other by polling a flag.

## 2. Modules

One module per component; `MC...` modules hold the constants, symmetry sets and
scenarios of the runs; `...Proofs`, `TcpRpcClientWire` and `TcpRpcServerSteps`
hold the proofs (section 5).

### TcpRpcClient: the RPC client

A step is one critical section (`invocationMutex_`, `stateMutex_`) or one system
call. `callMutex` is a variable because it is held across blocking calls. Each
thread has a location `pc`: `k...` inside `connect()`, `c...` inside `call()`.
`Interrupt` and `Shutdown` are `disconnect()` and `cancel()`, `Destroy...` the
destructor, `Run` the steps of a thread, `Expire` its deadline. Frames travel
whole; the peer answers a request, answers wrongly, sends a notification,
closes, or stays silent.

### TcpRpcServer and RpcPeer: the RPC server and what it promises

The owner's `start()` and `stop()` (`mainPc`), the accept thread (`acceptPc`), one
thread per connection, and notifiers, all of which write to connections
(`Writers`). A send waits for room at the peer (`Room`), so that a peer that
does not read blocks its writer. `RpcPeer` is the contract of one connection:
requests are answered in order, one terminal frame each, notifications come
after the answer to `checkVersion`, nothing is answered after an answer that
broke off. It lets a broadcast come at any time once the version was checked:
the code asks neither whether that answer was a refusal nor whether an answer
broke off before, and a contract with either condition is refuted by it.
`ServesPeers` is the refinement, on every connection.

### Framing: frames on a byte stream

The server's frame parser (`rpc/pbrpc_core.cpp`), the controller's decoder
(`controller/stdio_protocol.cpp`) and the one of the desktop application
(`desktop/electron/framing.ts`), fed with reads that cut the stream anywhere.
`wire` holds the bytes written, `decoder` what a decoder has gathered of them.

### ClientSession: sessions, notifications, interrupts

Operations hold `operationMutex_` throughout, so the locals of the operation are
single variables. A call is `Serve` (the server executes it) and the return of
the answer, with the notifications that were sent before it. Threads connect to
servers with different ports, operate, and interrupt; servers change the
configuration of a port (`Modify`) and broadcast it later (`Broadcast`).
`origin` is a history variable: the server the ports were read from.

### PortService and PortApply: bringing a port to the server

`PortService` has the stream, device-group, build and transmit methods of
`MyService` as operators on the state of a port, with their partial effects.
`PortApply` has clients that edit their copy of a port and apply it: baseline,
plan, operations, read-back, comparison, one call per step. The server tests
`isTransmitOn()` in one step (`PlanCheck`) and changes the port in another
(`PlanAct`), as the methods test it before they take the lock. A session may be
lost at any call (`Drop`); its last request may be carried out later
(`LateAct`). `Canon` is what the server makes of the contents of a group (a mac
step of 0 becomes 1). Contents of streams stand for classes of equivalent
messages. `edited` and `noise` are history variables; `noise` says of a client
whether others changed the port since its last success began to read back
(`old`), since its attempt began (`new`), and since that attempt's read-back
began (`back`).

### DronePort, PcapSession, Transmitter: the threads of a port

`DronePort` has the handlers of `MyService` as RPC threads over the port's lock
(`lock`; a recursive mutex in the Qt-free build), the dirty flag and the stream
statistics. `PcapSession` is the control structure that the capturer, the
emulation transceiver and the two statistics pollers share: `start()` and
`stop()` poll the state of a thread, `stop()` breaks the capture loop and sends
signals until the thread has left it. `Transmitter` is the transmit thread with
its statistics thread and the counts that are handed on when it finishes.
`counted` and `cleared` are history variables: packets ever counted, and those
in statistics that were cleared.

### StreamPort, PacketList, StreamBase and the protocol modules: frames

`Link`, `Network`, `Transport` and `Protocols` have the protocol classes of
`common/`: the record of a class's data, the fields it contributes to a frame
and its `setFieldData`. `Bytes` is the big-endian arithmetic they use.
`StreamBase` builds the frames (field packing, lengths, checksums, variable
fields, signature), `PacketList` the packet list in both transmit modes and the
walk of `PcapTxThread` over it, with the statistics `updateTxStreamStats()` makes
of the difference of two counters; ints and counters have the ranges `IntRange`
and `CounterRange`. Time is counted in ticks (`Second` of them a second). A user
script is a record of what its functions return; the engine, and functions that
fail for some frames only, are left out, as are the sizes a protocol caches. `StreamPort` is the port whose streams are edited one operation at a
time and whose list is built from them.

### Devices: device emulation

An RPC thread adds, changes, deletes and resolves while the transceiver thread
receives ARP, NDP and echo frames. `Enumerate` is the arithmetic of
`enumerateDevices()`; addresses are small numbers that keep subnets and steps
apart. `heard` is a history variable: what was said on the wire.

### StreamTiming and LinuxPort: time stamps and counters

`StreamTiming` pairs transmit and receive records by stream and tag. Streams
share the tags of their port, transmissions start over, tracking of the sending
and of the receiving port starts and stops, packets and captures are lost; the
timers empty the receive records every unit of time and sweep the transmit
records every `GcPeriod`. `truth` holds the delays the counted packets really
had, `wrapped` the streams to which a tag came round within `Lifetime`. `LinuxPort` has the
construction and deletion of the ports and the one thread that reads the
counters of all of them, by netlink or from `/proc`, with counters that turn
at `Narrow` or `Wide` (2^32 and 2^64 in the code).

### QtChannel and QtPortGroup: the Qt client

`QtChannel` is `PbRpcChannel` (one call on the wire, the others queued) with the
peer behind it; completions run while the channel is still pending, and one that
shows a dialog lets other events in. `QtPortGroup` has the chains of completions
by which `PortGroup` compares versions, reads ports, opens session files and
applies edits, and the buttons, timers and reconnects that fall between.

### StreamDialog and StreamFile: editing and saving streams

`StreamDialog` is the dialog with its three views of a protocol stack, the
widgets found by the address of a protocol (an address freed may be given out
again), and the conversion of rates. `StreamFile` is the stream list of
`client/port.cpp` and the native file: magic, meta data, content and checksum at
offsets, with saves that are cut short. The arithmetic of the checksum is left
out; two files are assumed not to share one.

### Controller and Sidecar: the desktop application

`Controller` is the child process: the loop of `main()` (`at`), the handlers, the
statistics poll. Frames are written one per step (`todo`, `stdout`), since main
may run between two of them. Its session is on or off; the rest of it is
`ClientSession`. `Sidecar` adds the event loop of the main process: requests
and their deadlines, `stop()`, `terminate()` with its two waits, and the snapshot
the window shows. One action is one callback with the promise continuations that
run before the next one; a call refused at once changes nothing. The child may
crash, hang or end at any time, and its end may be reported late or never.

## 3. Runs

| Run | Instance | Shows |
| --- | --- | --- |
| `client` | 2 threads, 2 addresses, 2 sockets; either 2 invocations, 2 interrupts and the destructor, or 3 invocations over one connection with 2 notifications | a published connection is current (`PublishedIsCurrent`); the destructor is last (`DestroyedIsQuiescent`); an answer is that of the own request (`AnswerIsOwn`); notifications are delivered once (`NoticesAccounted`) |
| `client_returns` | 2 threads, 2 invocations, 1 connection, 1 notification; fairness below | `DestructorReturns`, `InvocationReturns` |
| `server` | 4 scenarios: one peer that pipelines frames of every kind with a broadcast; two peers whose methods broadcast to each other; a second start; a call behind an answer that breaks off | nobody writes to a closed descriptor (`SendOnOpenSocket`); refinement of `RpcPeer` on every connection (`ServesPeers`); `stop()` returns unless a broadcast is blocked on another connection's peer (`StopReturns`) |
| `server_notify_choice` | violation | notifications reach clients that declined them |
| `session` | 2 threads, 3 servers with 2, 1 and 0 ports, 2 changes per port | the ports are the server's (`PortsAreTheServers`); a polled session catches up (`Catches`) |
| `session_stale_notice` | violation | notifications of one server are used against the next |
| `apply_retry` | 1 client, 3 edits, 1 lost session | clean means applied (`CleanIsApplied`); no edit is lost over failed attempts (`NoEditLost`); retries get through (`Converges`) |
| `apply_shared` | 2 clients, 2 edits | when `apply()` reports success the port has the client's streams and groups, unless another client changed it since the read-back began (`SuccessIsServed`) |
| `drone` | 2 clients, 6 scenarios of calls: transmit, capture, modify, statistics, devices, reads | signals reach a live session (`BreaksLiveSession`); a capture file does not change while it is sent (`CaptureIsStable`); statistics read after a stop are complete (`StatsComplete`); calls return (`CallsReturn`) |
| `port_data` | 8 scenarios, below | what a port does to data |
| `qt_client` | 3 scenarios: a session file is opened while the connection is lost and a port reserved; edits applied twice; the other buttons | a port without changes is the server's (`SyncedIsApplied`); a session is opened completely (`SessionOpened`); the window is enabled again (`WindowReturns`); a group gets its ports (`Hydrates`) |
| `sidecar` | 3 commands and a quit, 2 frames in the pipe | the window shows the session (`WindowIsTrue`); a response meets its request (`NoUnknownResponse`); commands settle and `stop()` returns whatever the child does (`CommandsSettle`, `StopReturns`) |

`port_data` explores components that share no state, one per scenario:

* streams: protocol stacks of every class, scripts included, one edit and a build in
  either mode. The bits of a frame are those of its fields (`FieldsInPlace`);
  lengths, checksums and signature are right for the receiver
  (`ReceiverAccepts`); the list sends exactly the frames of the streams
  (`SendsEveryFrame`), and the statistics are what was sent (`StatsExact`). These
  compare the code's algorithms with definitions by positions and sets.
* devices: 3 operations on 2 groups with 0 to 2 vlan levels, one of which runs
  past the greatest vlan id, one resolution, one
  received frame at a time: `EnumerationIsProduct`, `TableIsHeard`, `OwnerAnswers`.
* timing: 3 tagged packets of 2 streams over 2 tag numbers, 4 units of time, packets
  and captures lost, tracking started and stopped at both ends: `LatencyIsTrue`.
* counters and monitor: two interfaces, one's name a prefix of the other's:
  `CountersExact`, `DeletedIsLeftAlone`.
* dialog: streams of 13 protocols, 4 acts of the user: `ViewsAgree`.
* framing: frames of the lengths around the limits and malformed headers,
  cut by reads of every size: `FramesAsSent`.
* file: 4 acts, saves cut short at any message, older and foreign files:
  `LoadsWhatWasSaved`.

**Bounds.** Two threads are enough for every pair of an operation and an
interrupt, an operation and an operation, and a destructor with either. Two
addresses reach the code between two candidates. Two or three frames let a peer
pipeline a version check and requests. Two changes of a port let one fall on
either side of a read. Three edits let a group be added, fail half way, be
changed and applied again. Four calls of two clients let a start, a stop and
a second start meet a read. Three commands let one follow a failure, a deadline
or a disconnect; polls, crashes and failures are not bounded. There are two tag
numbers (256 in the code), so that tags come round both within the time records
are kept and after it. Counters turn at 4 and 8, with at most 3 counts between two
readings, so that they turn several times. The bounds are constants named
`Max...`; they limit how often the environment or the user acts, and the proofs
of section 5 hold for every value of them.

**Fairness.** Threads are scheduled (weak fairness of their steps). Nothing is
assumed of peers or networks, except in `InvocationReturns`, where time passes
(strong fairness of expiry: a thread tests its deadline again and again).
`Catches` assumes that the session is polled (the controller polls every 500
ms), that the server answers and broadcasts, that it does not keep asking for
ports of an earlier server (the second finding), and that a refresh and an
operation tried again and again succeed some time. `Converges` assumes that the
client tries again and that a build tried again and again succeeds some time,
and is about behaviours in which, from some time on, transmission stays off and
nobody else changes the port during an attempt.
`CallsReturn` assumes that the threads of the drone run and clients that read
what they are sent; it is about clients that start only a port that was stopped
and stop only one that was started, and counts the failed assertion of
`PcapPort::startTransmit()` as an end. The Qt client's properties assume that the server answers,
that the event loop delivers what was received, that the user closes dialogs,
and that a connection tried again and again succeeds some time. `CommandsSettle`
and `StopReturns` of the sidecar assume only that timers fire: not that the
child runs, nor that `close` is emitted; the last part of `StopReturns` assumes
that the controller is scheduled and its RPCs end (each has a timeout), and that
main reads.

Deadlock is checked in the session and apply runs. The others may really stop:
when the object is destroyed, when the server is stopped and the bounds are
reached, when the application has quit, and when a scenario's bounded acts are
over. `apply_shared` has a `VIEW` that leaves out the history that
`SuccessIsServed` does not refer to.

## 4. What the checks show beyond agreement

Two runs show disagreements between the code and what it says of itself; they
are quoted under `findings` in `PROJECT.json`: the two separate stores of the
notification flags in `Connection::process`, and notifications that survive
`ClientSession::connect`.

Some properties are true only with a condition that is worth knowing, and say so
in their comments. `StopReturns` of the server allows for a broadcast that is
blocked on the peer of a connection that `stop()` has not come to yet.
`CleanIsApplied` and `NoEditLost` except ports changed by others during the
apply: the contents of device groups are taken over from the read-back without a
comparison, and a timed-out request may be carried out after the session has
been set up again. `SuccessIsServed` excepts only changes after the read-back
began: what others did before it, the comparison finds. `dirty()` stays false when an apply of an unedited port fails
after it changed the server. `ReceiverAccepts` excludes checksums that start at
an odd offset. `StatsExact` excludes products of passes and repeats beyond an int,
and repeated sets that had to be split, of which `packetListSize_` counts the
later sequences once; a counter that wraps costs one packet. `LatencyIsTrue`
excludes streams to which a tag came round within about a minute (`Lifetime`):
with 256 tags and one per stream every five seconds, that takes some twenty
tracked streams. `SyncedIsApplied`, `WindowReturns` and `Hydrates` name the lines of
the Qt client that break them in the cases they exclude. `ViewsAgree` holds, and
with it the assertion in `__updateProtocol`, as long as the user leaves the
layers from the first one shown as Other on alone.

Known and not covered by a property: `connect()` leaves the loop over the
addresses with the first one for which a socket could be made; closed connections
are reaped only when the accept loop comes round; `recv()` uses the descriptor
outside of the write mutex; a change of device groups does not mark the packet
list dirty; a broadcast may follow an answer that broke off, until the socket is
closed; an answer to an ARP request may be replaced by the unresolved entry made
after it; a stop flag may cut the next transmission short; the client's copy of a
protocol may cache a wrong count of variations
(`AbstractProtocol::appendVariableField`); quitting before the desktop application is ready; the dirty flag that
`canModify()` sets, and the receive counters, without a lock; the Qt channel's
limit of 100 queued calls.

## 5. Proofs

TLAPS checks the following for every set of threads, clients, ids and values and
for every bound. Each invariant below is inductive; it was checked with TLC as an
invariant of an instance of the run's size before it was proved.

| Module | Theorems | States the property of the run |
| --- | --- | --- |
| `TcpRpcClientProofs` | `ClientInvariant`, `ClientTypes`, `PublishedConnectionIsCurrent`, `FailedCandidatesAreMarked`, `DestructorIsLast` | `client`: `PublishedIsCurrent`, `DestroyedIsQuiescent` |
| `TcpRpcClientWire` | `WireInvariant`, `AnswersAreOwn`, `NoticeInvariant`, `NoticesAreAccounted` | `client`: `AnswerIsOwn`, `NoticesAccounted` |
| `TcpRpcServerSteps`, `TcpRpcServerProofs` | `ServerInvariant`, `ServerTypesHold`, `DescriptorsAreSafe`, `ServerServesPeers` | `server`: `SendOnOpenSocket`, `ServesPeers` |
| `ClientSessionProofs` | `SessionInvariant`, `SessionHasItsPorts` | `session`: `PortsAreTheServers` |
| `PortApplyProofs` | `ApplyInvariant`, `CleanClientsAreApplied`, `EditsSurvive`, `SuccessfulApplyIsServed` | `apply_retry`: `CleanIsApplied`, `NoEditLost`; `apply_shared`: `SuccessIsServed` |
| `DronePortProofs` | `DroneInvariant`, `SignalsReachTheirSession`, `CaptureFileIsStable`, `StatisticsAreComplete` | `drone`: `BreaksLiveSession`, `CaptureIsStable`, `StatsComplete` |
| `SidecarProofs` | `SidecarInvariant`, `ResponsesMeetRequests`, `WindowTellsTheTruth` | `sidecar`: `NoUnknownResponse`, `WindowIsTrue` |

There is one lemma per action or per conjunct, and under it one step per conjunct
or per action that can disturb it.

**Client.** `ClientAssumption`: finitely many threads, at least one address.
`PublishedIsCurrent` alone is not inductive: a connection is published by a
thread that holds `callMutex_` and has compared its `operation` with
`generation_`. `ClientInv` adds who holds the mutex and which attempts are
registered, by location (`LocalsOK`); that every connection created so far is
published or marked (`ConnectionsOK`); which connections threads refer to
(`UsersOK`); that a connect overtaken by an interrupt lags behind the generation
(`GenerationsOK`); how far the destructor is (`DestructorOK`); and that
`activeInvocations_` counts the threads inside (`ActiveCounts`), from which
quiescence follows when it is 0. `WireInv`, on top of it, says that a connection is
quiet, has a torn request, or has exactly one request or its reply on the way
(`TrafficOK`), and that what is outstanding is what the call in progress sent
(`CallOK`). Answers are matched by method only; that they are the own ones
follows from the rule that a call that gives up takes its connection with it.
`NoticeInv` follows a notification from the peer to the callback. The peer numbers
them, so each is on its way once, on one connection, and has not been read
(`LinesOK`); what was read is delivered or owed by exactly one call (`DebtsOK`);
and only a thread between the first read and the end of `call()` owes anything
(`PlacesOK`). `NoticesAccounted` alone is not inductive: that the callback gets
nothing twice needs that nothing is read twice, which is a fact about the frames.

**Server.** `ServerAssumption` gives the kinds of frames and results their
ranges and keeps the names of threads apart. `ServerInv` relates the state of a
socket to `fd_`, the thread and the peer (`SocketsOK`), says who holds a write
mutex and on what (`HoldersOK`), that whoever closes is alone with a socket that
was shut down (`ClosersOK`), that requests are numbered through from the socket
to the answer (`RequestsOK`), and that an answer that ends the connection is its
last one (`AnswersOK`). `ServerServesPeers` is the refinement: the initial state
maps to an initial state of `RpcPeer`, and every action of the server and of its
peers maps, on each connection, to a step of the contract or a stutter.

**Session.** `SessionAssumption`: `None` is no thread, server or id. `SessionInv`
says that there is at most one answer on the wire and that an answer to the
request for configurations has the ports of the server it came from (`WireOK`),
and where the ports come from, by what the session is doing (`PortsOK`).

**Apply.** `ApplyAssumption`: the server's change of a group is idempotent and
leaves a blank group alone. `ApplyInv` follows a client through connect and apply:
as long as nobody else changes the port, what it has read is what the port holds
(`HydrationOK`, and `AttemptOK` from the beginning of an attempt and anew from
that of its read-back), a clean client's plan leaves the port as it is
(`CleanOK`), edited groups stay marked (`MarksOK`), and once `ModifyDeviceGroups`
was served the port has them (`SentOK`). The action properties follow from it.

**Drone port.** `DroneAssumption` names the four sessions. `DroneInv` says that
only the holder of the port's lock has calls of sessions or of the transmitter to
make (`HoldersOK`), at which of these calls each state of a session's thread is
found (`SessionsOK`), that the capture is joined while its file is sent
(`BuffersOK`), and that every counted packet is in one place (`CountsOK`).

**Sidecar.** `ControllerAssumption`: the pipe holds at least one frame.
`SideInv` is about `Out`, the frames in the pipe and those the handler has still
to write: a pending request is in one place at most (`FlowOK`), and reading `Out`
to its end never makes the window show what is not so (`ShownOK`). Controller
steps append to `Out` or cut it off, reading takes its head.

**Only model-checked.** All liveness properties, and the fairness and ENABLED
they rest on, are outside of the prover's reach: `DestructorReturns`,
`InvocationReturns`, both `StopReturns`, `Catches`, `Converges`, `CommandsSettle`,
`CallsReturn`, `WindowReturns`, `Hydrates`. The algorithms on streams, packet lists
and files (`StreamPort`, `StreamFile`) are recursive functions and folds, and what
they compute for every input needs induction over data. `FramesAsSent`,
`ViewsAgree`, `SyncedIsApplied`, `SessionOpened` and the properties of `Devices`,
`StreamTiming` and `LinuxPort` have no proof yet.

## 6. Not modelled

Widgets and dialogs other than the stream dialog (presentation); PDML, pcap and
Python conversions and the script engine (conversions without protocol state);
start-up, settings, the BSD and Windows ports (system calls). Descriptor numbers
are not modelled: a socket is open, shut or closed. A second caller of `stop()`,
and use of a session by threads without the session's locks, are outside of the
documented use. `PROJECT.json` lists the parts that are modelled in part, with
what is left out.
