---------------------------- MODULE TcpRpcServer ----------------------------
(***************************************************************************)
(* The Qt-free RPC server, rpc/pbrpc_server_core.cpp: the accept thread,   *)
(* one thread per connection, threads that broadcast notifications, and    *)
(* the thread that starts and stops the server.                            *)
(*                                                                         *)
(* Connections are numbered in the order of accept(), which is their order *)
(* in connections_.  A frame is written in one step by a thread that holds *)
(* writeMutex_ and has loaded fd_; the step waits while the socket buffer  *)
(* has no room.                                                            *)
(***************************************************************************)
EXTENDS Integers, Sequences, FiniteSets, FiniteSetsExt

CONSTANTS
  MaxConns,    \* bound: connections
  Notifiers,   \* threads outside the server that call broadcastNotification()
  Kinds,       \* kinds of frames the peers send
  Verdicts,    \* outcomes of the service method checkVersion
  Results,     \* outcomes of the other service methods
  None,        \* an unlocked writeMutex_
  Room,        \* frames that fit in the buffers between the two ends
  MaxFrames,   \* bound: frames sent by each peer
  MaxCasts,    \* bound: broadcasts
  MaxStarts    \* bound: start() calls

\* "version": checkVersion; "call": another method; "unknown": bad method id or body;
\* "stray": not a request; "bad": bad header.  "on", "off": compatible, notifications
\* wanted or not; "Broken": a blob whose source fails half way.
ASSUME ServerAssumption ==
  /\ Kinds \subseteq {"version", "call", "unknown", "stray", "bad"}
  /\ Verdicts \subseteq {"invalid", "on", "off", "incompatible"}
  /\ Results \subseteq {"Response", "Error", "Blob", "Broken"}
  /\ MaxConns \in Nat /\ Room \in Nat \ {0} /\ None \notin Notifiers \cup Nat
  /\ Notifiers \cap Nat = {} /\ "main" \notin Notifiers \cup {None}
  /\ MaxFrames \in Nat /\ MaxCasts \in Nat /\ MaxStarts \in Nat

Conns == 1..MaxConns

VARIABLES
  running,        \* running_
  listening,      \* listenFd_ >= 0
  mainPc,         \* the thread that calls start() and stop()
  mainTodo,       \* stop(): local `connections`, those not stopped yet
  acceptPc,       \* acceptThread_
  accepted,       \* number of connections accepted so far
  listed          \* connections_

VARIABLES
  fd,             \* Connection::fd_ >= 0
  sock,           \* the socket behind it
  writeMutex,     \* holder of writeMutex_
  closed,         \* closed_
  compatible,     \* compatible_
  notifications   \* notifications_

VARIABLES
  pc,             \* connection threads and notifiers
  frames,         \* FrameParser: frames parsed, not processed
  reply,          \* process(): the answer and what is to follow it
  todo            \* broadcastNotification(): connections not notified yet

VARIABLES
  peers,          \* number of peers that have connected
  peer,           \* the other end of each connection
  inq,            \* frames sent by the peer, not received
  out,            \* frames written, not read by the peer
  torn,           \* an answer broke off
  asked,          \* requests without an answer
  said,           \* verdicts of checkVersion whose answer was written
  sent, casts, starts   \* counts: frames of each peer, broadcasts, start() calls

serverVars == <<running, listening, mainPc, mainTodo, acceptPc, accepted, listed>>
flagVars   == <<closed, compatible, notifications>>
sockVars   == <<fd, sock>>
wireVars   == <<peers, peer, inq, out, torn, asked, said>>
boundVars  == <<sent, casts, starts>>
vars == <<serverVars, sockVars, writeMutex, flagVars, pc, frames, reply, todo, wireVars,
          boundVars>>

Writers == Conns \cup Notifiers
Answers == {"Response", "Error", "Blob", "Broken"}
Quiet   == [kind |-> "Error", id |-> 0, verdict |-> "none", drop |-> FALSE]

Init ==
  /\ running = FALSE /\ listening = FALSE /\ mainPc = "idle" /\ mainTodo = {}
  /\ acceptPc = "done" /\ accepted = 0 /\ listed = {}
  /\ fd = [c \in Conns |-> FALSE] /\ sock = [c \in Conns |-> "none"]
  /\ writeMutex = [c \in Conns |-> None] /\ closed = [c \in Conns |-> FALSE]
  /\ compatible = [c \in Conns |-> FALSE] /\ notifications = [c \in Conns |-> TRUE]
  /\ pc = [w \in Writers |-> IF w \in Conns THEN "none" ELSE "idle"]
  /\ frames = [c \in Conns |-> <<>>] /\ reply = [c \in Conns |-> Quiet]
  /\ todo = [w \in Writers |-> {}]
  /\ peers = 0 /\ peer = [c \in Conns |-> "none"]
  /\ inq = [c \in Conns |-> <<>>] /\ out = [c \in Conns |-> <<>>]
  /\ torn = [c \in Conns |-> FALSE] /\ asked = [c \in Conns |-> <<>>]
  /\ said = [c \in Conns |-> {}]
  /\ sent = [c \in Conns |-> 0] /\ casts = 0 /\ starts = 0

Goto(w, l) == pc' = [pc EXCEPT ![w] = l]
Alive(c) == sock[c] = "open" /\ peer[c] = "open"

-----------------------------------------------------------------------------
(* start() and acceptLoop()                                                *)

\* start(): the listening socket, then the accept thread
Start ==
  /\ mainPc = "idle" /\ ~running /\ starts < MaxStarts
  /\ starts' = starts + 1
  /\ running' = TRUE /\ listening' = TRUE /\ acceptPc' = "poll"
  /\ UNCHANGED <<mainPc, mainTodo, accepted, listed, sockVars, writeMutex, flagVars, pc,
                 frames, reply, todo, wireVars, sent, casts>>

\* removeClosedConnections(); the thread of a closed connection has nothing left to
\* do, so joining it in ~Connection does not wait
RemoveClosed(s) == {c \in s : ~closed[c]}

\* poll() comes back after its 100 ms, or with a connection
AcceptPoll ==
  /\ acceptPc = "poll"
  /\ listed' = RemoveClosed(listed)
  /\ IF ~running THEN acceptPc' = "done"
     ELSE acceptPc' \in {"poll"} \cup (IF accepted < peers THEN {"accept"} ELSE {})
  /\ UNCHANGED <<running, listening, mainPc, mainTodo, accepted, sockVars, writeMutex,
                 flagVars, pc, frames, reply, todo, wireVars, boundVars>>

\* poll() comes back with an error
AcceptPollFails ==
  /\ acceptPc = "poll" /\ running
  /\ listed' = RemoveClosed(listed) /\ acceptPc' = "done"
  /\ UNCHANGED <<running, listening, mainPc, mainTodo, accepted, sockVars, writeMutex,
                 flagVars, pc, frames, reply, todo, wireVars, boundVars>>

\* accept(), Connection(fd), connections_.push_back, start()
AcceptConn ==
  /\ acceptPc = "accept" /\ listening
  /\ LET c == accepted + 1 IN
       /\ accepted' = c
       /\ fd' = [fd EXCEPT ![c] = TRUE] /\ sock' = [sock EXCEPT ![c] = "open"]
       /\ listed' = RemoveClosed(listed \cup {c})
       /\ Goto(c, "work")
  /\ acceptPc' = "poll"
  /\ UNCHANGED <<running, listening, mainPc, mainTodo, writeMutex, flagVars, frames, reply,
                 todo, wireVars, boundVars>>

\* accept() fails: the loop ends, running_ stays as it is
AcceptFails ==
  /\ acceptPc = "accept"
  /\ acceptPc' = "done"
  /\ UNCHANGED <<running, listening, mainPc, mainTodo, accepted, listed, sockVars,
                 writeMutex, flagVars, pc, frames, reply, todo, wireVars, boundVars>>

-----------------------------------------------------------------------------
(* Connection::run() and process()                                         *)

\* The loop condition of run()
Loop(c) ==
  /\ pc[c] = "work" /\ frames[c] = <<>>
  /\ Goto(c, IF fd[c] THEN "recv" ELSE "close")
  /\ UNCHANGED <<serverVars, sockVars, writeMutex, flagVars, frames, reply, todo, wireVars,
                 boundVars>>

\* recv() and FrameParser::push(): some of the frames that have arrived.  A bad one
\* ends the loop, and the frames parsed before it in the same push() are dropped.
Recv(c) ==
  /\ pc[c] = "recv" /\ sock[c] # "closed"
  /\ \E n \in 1..Len(inq[c]) :
       LET chunk == SubSeq(inq[c], 1, n) IN
         /\ inq' = [inq EXCEPT ![c] = SubSeq(@, n + 1, Len(@))]
         /\ IF \E i \in 1..n : chunk[i].kind = "bad"
              THEN Goto(c, "close") /\ UNCHANGED frames
              ELSE Goto(c, "work") /\ frames' = [frames EXCEPT ![c] = chunk]
  /\ UNCHANGED <<serverVars, sockVars, writeMutex, flagVars, reply, todo, peers, peer, out,
                 torn, asked, said, boundVars>>

\* The end of the stream, an error, or a descriptor stop() has closed
RecvFails(c) ==
  /\ pc[c] = "recv"
  /\ sock[c] = "closed" \/ (~Alive(c) /\ inq[c] = <<>>)
  /\ Goto(c, "close")
  /\ UNCHANGED <<serverVars, sockVars, writeMutex, flagVars, frames, reply, todo, wireVars,
                 boundVars>>

Answer(c, kind, verdict, drop) ==
  reply' = [reply EXCEPT ![c] = [kind |-> kind, id |-> Head(frames[c]).id,
                                 verdict |-> verdict, drop |-> drop]]

\* The service method checkVersion, number 15
CheckVersion(c) ==
  \E v \in Verdicts :
    IF v = "invalid" THEN Answer(c, "Error", "none", FALSE)
                     ELSE Answer(c, "Response", v, v = "incompatible")

\* Any other method; a blob from a source may break off
OtherMethod(c) == \E kind \in Results : Answer(c, kind, "none", FALSE)

TakeFrame(c) == pc[c] = "work" /\ frames[c] # <<>> /\ frames' = [frames EXCEPT ![c] = Tail(@)]

\* process() up to the point where it writes the answer.  modifyPort() broadcasts
\* before it returns to process().
Process(c) ==
  /\ TakeFrame(c)
  /\ LET kind == Head(frames[c]).kind IN
       \/ /\ kind = "stray" \/ (kind = "unknown" /\ compatible[c])
          /\ Answer(c, "Error", "none", FALSE) /\ Goto(c, "replyLock") /\ UNCHANGED casts
       \/ /\ kind \in {"call", "unknown"} /\ ~compatible[c]
          /\ Answer(c, "Error", "none", TRUE) /\ Goto(c, "replyLock") /\ UNCHANGED casts
       \/ /\ kind = "version"
          /\ CheckVersion(c) /\ Goto(c, "replyLock") /\ UNCHANGED casts
       \/ /\ kind = "call" /\ compatible[c]
          /\ OtherMethod(c) /\ Goto(c, "replyLock") /\ UNCHANGED casts
       \/ /\ kind = "call" /\ compatible[c] /\ casts < MaxCasts
          /\ Answer(c, "Response", "none", FALSE) /\ Goto(c, "snap") /\ casts' = casts + 1
  /\ UNCHANGED <<serverVars, sockVars, writeMutex, flagVars, todo, wireVars, sent, starts>>

\* writeFrame() and writeBlob() take writeMutex_ and load fd_.
ReplyLock(c) ==
  /\ pc[c] = "replyLock" /\ writeMutex[c] = None
  /\ IF fd[c] THEN Goto(c, "replySend") /\ writeMutex' = [writeMutex EXCEPT ![c] = c]
              ELSE Goto(c, "replyFailed") /\ UNCHANGED writeMutex
  /\ UNCHANGED <<serverVars, sockVars, flagVars, frames, reply, todo, wireVars, boundVars>>

\* Mutant of ReplySend: the result of writeBlob() is ignored.
ReplySendOn(c) ==
  /\ pc[c] = "replySend" /\ Alive(c) /\ Len(out[c]) < Room
  /\ IF reply[c].kind = "Broken"
       THEN torn' = [torn EXCEPT ![c] = TRUE] /\ UNCHANGED out
       ELSE /\ out' = [out EXCEPT ![c] = Append(@, [kind |-> reply[c].kind,
                                                    id |-> reply[c].id])]
            /\ UNCHANGED torn
  /\ Goto(c, "after")
  /\ asked' = [asked EXCEPT ![c] = Tail(@)]
  /\ said' = [said EXCEPT ![c] = @ \cup ({reply[c].verdict} \ {"none"})]
  /\ writeMutex' = [writeMutex EXCEPT ![c] = None]
  /\ UNCHANGED <<serverVars, sockVars, flagVars, frames, reply, todo, peers, peer, inq,
                 boundVars>>

\* sendAll() gets the answer out, or as much of it as the blob source yields.
ReplySend(c) ==
  /\ pc[c] = "replySend" /\ Alive(c) /\ Len(out[c]) < Room
  /\ IF reply[c].kind = "Broken"
       THEN torn' = [torn EXCEPT ![c] = TRUE] /\ Goto(c, "close") /\ UNCHANGED out
       ELSE /\ out' = [out EXCEPT ![c] = Append(@, [kind |-> reply[c].kind,
                                                    id |-> reply[c].id])]
            /\ Goto(c, "after") /\ UNCHANGED torn
  /\ asked' = [asked EXCEPT ![c] = Tail(@)]
  /\ said' = [said EXCEPT ![c] = @ \cup ({reply[c].verdict} \ {"none"})]
  /\ writeMutex' = [writeMutex EXCEPT ![c] = None]
  /\ UNCHANGED <<serverVars, sockVars, flagVars, frames, reply, todo, peers, peer, inq,
                 boundVars>>

\* sendAll() fails on a socket that is shut down or whose peer is gone.
ReplySendFails(c) ==
  /\ pc[c] = "replySend" /\ ~Alive(c)
  /\ Goto(c, "replyFailed")
  /\ writeMutex' = [writeMutex EXCEPT ![c] = None]
  /\ UNCHANGED <<serverVars, sockVars, flagVars, frames, reply, todo, wireVars, boundVars>>

\* Only a blob that could not be written ends the connection.
ReplyFailed(c) ==
  /\ pc[c] = "replyFailed"
  /\ Goto(c, IF reply[c].kind \in {"Blob", "Broken"} THEN "close" ELSE "after")
  /\ UNCHANGED <<serverVars, sockVars, writeMutex, flagVars, frames, reply, todo, wireVars,
                 boundVars>>

\* process() after the answer: compatible_ ...
After(c) ==
  /\ pc[c] = "after"
  /\ IF reply[c].verdict # "none"
       THEN compatible' = [compatible EXCEPT ![c] = TRUE] /\ Goto(c, "setNotif")
       ELSE Goto(c, IF reply[c].drop THEN "close" ELSE "work") /\ UNCHANGED compatible
  /\ UNCHANGED <<serverVars, sockVars, writeMutex, closed, notifications, frames, reply,
                 todo, wireVars, boundVars>>

\* ... then notifications_, then closeSocket() if the controller asks for it
SetNotif(c) ==
  /\ pc[c] = "setNotif"
  /\ notifications' = [notifications EXCEPT ![c] = reply[c].verdict # "off"]
  /\ Goto(c, IF reply[c].drop THEN "close" ELSE "work")
  /\ UNCHANGED <<serverVars, sockVars, writeMutex, closed, compatible, frames, reply, todo,
                 wireVars, boundVars>>

\* closeSocket(): fd_.exchange(-1) and shutdown() ...
ShutSocket(c) ==
  /\ fd' = [fd EXCEPT ![c] = FALSE]
  /\ sock' = [sock EXCEPT ![c] = "shut"]

\* Mutant of CloseFd: writeMutex_ is not taken.
CloseFdUnlocked(c) ==
  /\ sock' = [sock EXCEPT ![c] = "closed"]
  /\ UNCHANGED fd

\* ... then close() under writeMutex_
CloseFd(c) ==
  /\ writeMutex[c] = None
  /\ sock' = [sock EXCEPT ![c] = "closed"]
  /\ UNCHANGED fd

\* The connection's own thread closes the socket unless somebody else has.
CloseSelf(c) ==
  /\ pc[c] = "close"
  /\ IF fd[c] THEN ShutSocket(c) /\ Goto(c, "closeLock")
              ELSE Goto(c, "finish") /\ UNCHANGED sockVars
  /\ UNCHANGED <<serverVars, writeMutex, flagVars, frames, reply, todo, wireVars, boundVars>>

CloseSelfLock(c) ==
  /\ pc[c] = "closeLock"
  /\ CloseFd(c) /\ Goto(c, "finish")
  /\ UNCHANGED <<serverVars, writeMutex, flagVars, frames, reply, todo, wireVars, boundVars>>

\* run() returns
Finish(c) ==
  /\ pc[c] = "finish"
  /\ closed' = [closed EXCEPT ![c] = TRUE] /\ Goto(c, "done")
  /\ UNCHANGED <<serverVars, sockVars, writeMutex, compatible, notifications, frames, reply,
                 todo, wireVars, boundVars>>

-----------------------------------------------------------------------------
(* broadcastNotification() and notify()                                    *)

\* A thread outside the server broadcasts.
CastBegin(w) ==
  /\ w \in Notifiers /\ pc[w] = "idle" /\ casts < MaxCasts
  /\ casts' = casts + 1 /\ Goto(w, "snap")
  /\ UNCHANGED <<serverVars, sockVars, writeMutex, flagVars, frames, reply, todo, wireVars,
                 sent, starts>>

\* The copy of connections_
CastSnap(w) ==
  /\ pc[w] = "snap"
  /\ todo' = [todo EXCEPT ![w] = listed] /\ Goto(w, "cast")
  /\ UNCHANGED <<serverVars, sockVars, writeMutex, flagVars, frames, reply, wireVars,
                 boundVars>>

Skip(w) == todo' = [todo EXCEPT ![w] = @ \ {Min(@)}] /\ Goto(w, "cast")

\* notify() passes over a connection that is not compatible or wants none.
CastNext(w) ==
  /\ pc[w] = "cast"
  /\ IF todo[w] = {}
       THEN Goto(w, IF w \in Conns THEN "replyLock" ELSE "idle") /\ UNCHANGED todo
     ELSE IF compatible[Min(todo[w])] /\ notifications[Min(todo[w])]
       THEN Goto(w, "castLock") /\ UNCHANGED todo
     ELSE Skip(w)
  /\ UNCHANGED <<serverVars, sockVars, writeMutex, flagVars, frames, reply, wireVars,
                 boundVars>>

CastLock(w) ==
  /\ pc[w] = "castLock"
  /\ LET c == Min(todo[w]) IN
       /\ writeMutex[c] = None
       /\ IF fd[c] THEN /\ Goto(w, "castSend") /\ UNCHANGED todo
                        /\ writeMutex' = [writeMutex EXCEPT ![c] = w]
                   ELSE Skip(w) /\ UNCHANGED writeMutex
  /\ UNCHANGED <<serverVars, sockVars, flagVars, frames, reply, wireVars, boundVars>>

CastSend(w) ==
  /\ pc[w] = "castSend"
  /\ LET c == Min(todo[w]) IN
       /\ Alive(c) /\ Len(out[c]) < Room
       /\ out' = [out EXCEPT ![c] = Append(@, [kind |-> "Notification", id |-> 0])]
       /\ writeMutex' = [writeMutex EXCEPT ![c] = None]
  /\ Skip(w)
  /\ UNCHANGED <<serverVars, sockVars, flagVars, frames, reply, peers, peer, inq, torn, asked,
                 said, boundVars>>

CastSendFails(w) ==
  /\ pc[w] = "castSend"
  /\ LET c == Min(todo[w]) IN
       ~Alive(c) /\ writeMutex' = [writeMutex EXCEPT ![c] = None]
  /\ Skip(w)
  /\ UNCHANGED <<serverVars, sockVars, flagVars, frames, reply, wireVars, boundVars>>

-----------------------------------------------------------------------------
(* stop()                                                                  *)

StopBegin ==
  /\ mainPc = "idle" /\ running
  /\ running' = FALSE /\ mainPc' = "stopListen"
  /\ UNCHANGED <<listening, mainTodo, acceptPc, accepted, listed, sockVars, writeMutex,
                 flagVars, pc, frames, reply, todo, wireVars, boundVars>>

\* The listening socket is closed; peers that were not accepted are reset.
StopListen ==
  /\ mainPc = "stopListen"
  /\ listening' = FALSE /\ mainPc' = "stopJoin"
  /\ accepted' = peers
  /\ peer' = [c \in Conns |-> IF c \in accepted + 1..peers THEN "gone" ELSE peer[c]]
  /\ UNCHANGED <<running, mainTodo, acceptPc, listed, sockVars, writeMutex, flagVars, pc,
                 frames, reply, todo, peers, inq, out, torn, asked, said, boundVars>>

\* acceptThread_.join(), and connections_ is swapped out
StopJoin ==
  /\ mainPc = "stopJoin" /\ acceptPc = "done"
  /\ mainTodo' = listed /\ listed' = {} /\ mainPc' = "stopNext"
  /\ UNCHANGED <<running, listening, acceptPc, accepted, sockVars, writeMutex, flagVars, pc,
                 frames, reply, todo, wireVars, boundVars>>

\* Mutant of StopNext: the thread is joined before the socket is closed.
StopNextJoins ==
  /\ mainPc = "stopNext"
  /\ mainPc' = IF mainTodo = {} THEN "idle" ELSE "stopWait"
  /\ UNCHANGED <<running, listening, mainTodo, acceptPc, accepted, listed, sockVars,
                 writeMutex, flagVars, pc, frames, reply, todo, wireVars, boundVars>>

\* Connection::stop() of the next connection
StopNext ==
  /\ mainPc = "stopNext"
  /\ IF mainTodo = {} THEN mainPc' = "idle" /\ UNCHANGED sockVars
     ELSE IF fd[Min(mainTodo)] THEN ShutSocket(Min(mainTodo)) /\ mainPc' = "stopClose"
     ELSE mainPc' = "stopWait" /\ UNCHANGED sockVars
  /\ UNCHANGED <<running, listening, mainTodo, acceptPc, accepted, listed, writeMutex,
                 flagVars, pc, frames, reply, todo, wireVars, boundVars>>

StopClose ==
  /\ mainPc = "stopClose"
  /\ CloseFd(Min(mainTodo)) /\ mainPc' = "stopWait"
  /\ UNCHANGED <<running, listening, mainTodo, acceptPc, accepted, listed, writeMutex,
                 flagVars, pc, frames, reply, todo, wireVars, boundVars>>

\* thread_.join()
StopWait ==
  /\ mainPc = "stopWait" /\ pc[Min(mainTodo)] = "done"
  /\ mainTodo' = mainTodo \ {Min(mainTodo)} /\ mainPc' = "stopNext"
  /\ UNCHANGED <<running, listening, acceptPc, accepted, listed, sockVars, writeMutex,
                 flagVars, pc, frames, reply, todo, wireVars, boundVars>>

-----------------------------------------------------------------------------
(* The peers                                                               *)

PeerConnect ==
  /\ listening /\ peers < MaxConns
  /\ peers' = peers + 1 /\ peer' = [peer EXCEPT ![peers + 1] = "open"]
  /\ UNCHANGED <<serverVars, sockVars, writeMutex, flagVars, pc, frames, reply, todo, inq, out,
                 torn, asked, said, boundVars>>

\* A frame reaches the socket while the server has not shut it down.
PeerSend(c, kind) ==
  /\ peer[c] = "open" /\ sock[c] \in {"none", "open"} /\ sent[c] < MaxFrames
  /\ sent' = [sent EXCEPT ![c] = @ + 1]
  /\ inq' = [inq EXCEPT ![c] = Append(@, [kind |-> kind, id |-> sent[c] + 1])]
  /\ asked' = [asked EXCEPT ![c] = Append(@, sent[c] + 1)]
  /\ UNCHANGED <<serverVars, sockVars, writeMutex, flagVars, pc, frames, reply, todo, peers,
                 peer, out, torn, said, casts, starts>>

PeerRead(c) ==
  /\ peer[c] = "open" /\ out[c] # <<>>
  /\ out' = [out EXCEPT ![c] = Tail(@)]
  /\ UNCHANGED <<serverVars, sockVars, writeMutex, flagVars, pc, frames, reply, todo, peers,
                 peer, inq, torn, asked, said, boundVars>>

\* The peer closes; what it has not read is lost.
PeerClose(c) ==
  /\ peer[c] = "open"
  /\ peer' = [peer EXCEPT ![c] = "gone"] /\ out' = [out EXCEPT ![c] = <<>>]
  /\ UNCHANGED <<serverVars, sockVars, writeMutex, flagVars, pc, frames, reply, todo, peers,
                 inq, torn, asked, said, boundVars>>

-----------------------------------------------------------------------------
AcceptLoop == AcceptPoll \/ AcceptConn \/ AcceptFails

Run(c) ==
  \/ Loop(c) \/ Recv(c) \/ RecvFails(c) \/ Process(c)
  \/ ReplyLock(c) \/ ReplySend(c) \/ ReplySendFails(c) \/ ReplyFailed(c)
  \/ After(c) \/ SetNotif(c) \/ CloseSelf(c) \/ CloseSelfLock(c) \/ Finish(c)

Broadcast(w) ==
  CastSnap(w) \/ CastNext(w) \/ CastLock(w) \/ CastSend(w) \/ CastSendFails(w)

Stop == StopListen \/ StopJoin \/ StopNext \/ StopClose \/ StopWait

Peer(c) == (\E kind \in Kinds : PeerSend(c, kind)) \/ PeerRead(c) \/ PeerClose(c)

Next ==
  \/ Start \/ StopBegin \/ Stop \/ AcceptLoop \/ AcceptPollFails
  \/ \E c \in Conns : Run(c) \/ Peer(c)
  \/ \E w \in Writers : Broadcast(w) \/ CastBegin(w)
  \/ PeerConnect

Spec == Init /\ [][Next]_vars

\* Every thread that can take a step takes one.  Nothing is assumed of the peers, and
\* poll() need not fail.
Progress ==
  /\ WF_vars(Stop) /\ WF_vars(AcceptLoop)
  /\ \A c \in Conns : WF_vars(Run(c))
  /\ \A w \in Writers : WF_vars(Broadcast(w))

-----------------------------------------------------------------------------
(* Properties                                                              *)

\* The connection that a writer holding a writeMutex_ is writing to
Target(w) == IF pc[w] = "castSend" THEN Min(todo[w]) ELSE w
Writing(w) == pc[w] \in {"replySend", "castSend"}

Closing(c) == {w \in {"self", "main"} :
                 \/ w = "self" /\ pc[c] = "closeLock"
                 \/ w = "main" /\ mainPc = "stopClose" /\ c = Min(mainTodo)}

\* Nobody writes to a descriptor that has been closed, and maybe reused: closeSocket()
\* waits for the writer that loaded fd_, whichever thread closes.  A descriptor is
\* closed once, although stop() and the connection's own thread may both want to: the
\* exchange of fd_ decides.
SendOnOpenSocket ==
  /\ \A w \in Writers : Writing(w) => sock[Target(w)] \in {"open", "shut"}
                                      /\ writeMutex[Target(w)] = w
  /\ \A c \in Conns : Cardinality(Closing(c)) <= 1 /\ (Closing(c) # {} => sock[c] = "shut")

Noticed(c) == Len(out'[c]) > Len(out[c]) /\ out'[c][Len(out'[c])].kind = "Notification"

\* "Sent only to connections which completed method 15 compatibility and whose
\* method-15 controller left notifications enabled."
NotifiedByChoice == [][\A c \in Conns : Noticed(c) => "on" \in said[c]]_vars

Life(c) ==
  IF peer[c] = "none" THEN "new"
  ELSE IF peer[c] = "open" /\ sock[c] \in {"none", "open"} THEN "up" ELSE "down"

\* checkVersion has been answered, other than as an invalid request.
Greeted(c) ==
  IF "incompatible" \in said[c] THEN "refused" ELSE IF said[c] \subseteq {"invalid"} THEN "no" ELSE "yes"

Contract(c) == INSTANCE RpcPeer
                 WITH life <- Life(c), torn <- torn[c], out <- out[c],
                      asked <- IF Life(c) = "up" THEN asked[c] ELSE <<>>,
                      greeted <- IF Life(c) = "up" THEN Greeted(c) ELSE "no"

\* On every connection the server behaves as RpcPeer says: one answer per request, in
\* order, no answer behind one that broke off or that said that the version is
\* incompatible, no notification before the answer to checkVersion.  (This is \A c : Contract(c)!Spec.)
ServesPeers ==
  (\A c \in Conns : Contract(c)!Init) /\ [][\A c \in Conns : Contract(c)!Step]_vars

\* A thread waits for room in a socket that its peer does not read.
BlockedOnPeer(w) == Writing(w) /\ Alive(Target(w)) /\ Len(out[Target(w)]) >= Room

\* stop() returns, or it waits for the thread of a connection whose service method is
\* blocked broadcasting to the peer of another connection.
StopReturns ==
  mainPc # "idle" ~> \/ mainPc = "idle"
                     \/ \E c \in mainTodo : BlockedOnPeer(c) /\ Target(c) # c

=============================================================================
