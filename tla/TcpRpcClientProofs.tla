------------------------- MODULE TcpRpcClientProofs -------------------------
(***************************************************************************)
(* Theorems about TcpRpcClient, for any number of threads, addresses,      *)
(* invocations, connections, interrupts and notifications.                 *)
(*                                                                         *)
(* ClientInv is inductive; the safety properties of the client object      *)
(* follow from it.  Beyond the type invariant it says                      *)
(*   - who holds callMutex_ and which attempts are registered,             *)
(*   - that every connection ever created is published or marked,          *)
(*   - that a connect() overtaken by an interrupt lags behind generation_, *)
(*   - how far the destructor has come,                                    *)
(*   - that activeInvocations_ counts the threads inside the client.       *)
(***************************************************************************)
EXTENDS TcpRpcClient, FiniteSets, FiniteSetTheorems, TLAPS

Held == ConnectHeld \cup CallHeld
Unpublished == {"kShut", "kResolve", "kAddr", "kSocket", "kClose"}
WithConnection == (ConnectHeld \ Unpublished) \cup CallHeld
Registered == ConnectHeld \cup {"kLock", "kErase"}

\* callMutex_, the attempts and the locals of a thread, by location
LocalOK(t) ==
  /\ pc[t] \in Held <=> callMutex = t
  /\ t \in attempts <=> pc[t] \in Registered
  /\ pc[t] \in WithConnection => cur[t] # None
  /\ pc[t] \in Unpublished \ {"kShut"} => cur[t] = None
  /\ pc[t] \in {"kAddr", "kSocket", "kClose"} => res[t] = "Transport"
  /\ pc[t] \in {"kSocket", "kClose"} => addr[t] # Addresses
  /\ pc[t] \in {"kFail", "cFail"} => res[t] \in Errors
LocalsOK == \A t \in Threads : LocalOK(t)

\* connection_ and the connections created so far: each is published or marked
ConnectionsOK ==
  /\ connection # None => connection <= conns
  /\ \A c \in toShut : c <= conns /\ c # connection
  /\ \A c \in Conns : c <= conns /\ c # connection => cIntr[c] # "none"
  /\ \A c \in Conns : c > conns => cIntr[c] = "none" /\ ~cShut[c]

\* The connections the threads refer to
UserOK(t) ==
  /\ cur[t] # None => cur[t] <= conns
  /\ pc[t] \in Unpublished => connection = None
  /\ pc[t] = "kAfter" => connection # cur[t]
UsersOK == \A t \in Threads : UserOK(t)

\* Generations: an interrupt leaves every connect() in progress behind.
GenerationOK(t) ==
  /\ oper[t] <= generation
  /\ pc[t] \in ConnectHeld /\ attemptIntr[t] # "none" => oper[t] < generation
  /\ pc[t] = "idle" => attemptIntr[t] = "none"
  /\ dtor \in {"waiting", "destroyed"} => oper[t] < generation
GenerationsOK == \A t \in Threads : GenerationOK(t)

\* Progress of the destructor
DestructorOK ==
  /\ dtor # "alive" => shuttingDown
  /\ dtor \in {"waiting", "destroyed"} => connection = None
  /\ dtor = "destroyed" => active = 0

Inside == {t \in Threads : pc[t] # "idle"}
ActiveCounts == active = Cardinality(Inside)

ClientInv ==
  /\ TypeOK /\ LocalsOK /\ ConnectionsOK /\ UsersOK /\ PublishedIsCurrent
  /\ GenerationsOK /\ DestructorOK /\ ActiveCounts

-----------------------------------------------------------------------------
(* Facts about single definitions                                          *)

\* What a thread of connect() or call() may be at is a location.
LEMMA LocationFacts ==
  /\ \A l \in ConnectHeld \cup CallHeld : l \in Locations
  /\ "idle" \in Locations /\ "kLock" \in Locations /\ "kErase" \in Locations
  /\ "cLock" \in Locations /\ "cNotify" \in Locations /\ "end" \in Locations
  BY Zenon DEF Locations

\* The reasons of an interrupt, and what a call may report by itself, are errors.
LEMMA ErrorFacts ==
  /\ Reasons \subseteq Errors
  /\ "Disconnected" \in Errors /\ "Timeout" \in Errors /\ "Transport" \in Errors
  /\ "Remote" \in Errors /\ "Protocol" \in Errors /\ "InvalidProtobuf" \in Errors
  BY Zenon DEF Errors, Reasons

\* connectInterrupted() returns an error, and so does an interrupted wait().
LEMMA ReasonFacts ==
  ClientInv => \A t \in Threads :
    /\ ConnectInterrupted(t) \in Errors
    /\ pc[t] \in WithConnection =>
         cur[t] \in Conns /\ (cIntr[cur[t]] # "none" => cIntr[cur[t]] \in Errors)
  BY DEF ClientInv, TypeOK, ConnectionType, LocalType, ConnectInterrupted, FirstReason,
         Errors, Reasons, LocalsOK, LocalOK

\* A thread in the middle of call() has a connection.
LEMMA CallHasConnection ==
  ClientInv => \A t \in Threads : pc[t] \in CallHeld => cur[t] \in Conns
  BY Zenon DEF ClientInv, TypeOK, LocalType, LocalsOK, LocalOK, WithConnection

\* Taking a frame yields a frame and leaves a sequence of frames.
LEMMA TakeFrame ==
  ASSUME ClientInv, NEW t \in Threads, Take(t)
  PROVE  /\ Head(pending[cur[t]]) \in Frames
         /\ Head(pending[cur[t]]).id \in Nat
         /\ pending' \in [Conns -> Seq(Frames)]
<1>1. cur[t] \in Conns
  BY Zenon, CallHasConnection DEF Take, CallHeld
<1>2. pending[cur[t]] \in Seq(Frames) /\ pending[cur[t]] # <<>>
  BY Zenon, <1>1 DEF Take, ClientInv, TypeOK, WireType
<1>3. Head(pending[cur[t]]) \in Frames /\ Tail(pending[cur[t]]) \in Seq(Frames)
  BY <1>2
<1>4. Head(pending[cur[t]]).id \in Nat
  BY Zenon, <1>3 DEF Frames
<1>5. pending' \in [Conns -> Seq(Frames)]
  BY <1>3, ZenonT(40) DEF Take, ClientInv, TypeOK, WireType
<1> QED
  BY Zenon, <1>3, <1>4, <1>5

-----------------------------------------------------------------------------
(* Every step preserves the type invariant.                                *)

\* A step keeps the types of the connections: state, interruption and peer of each socket.
LEMMA ConnectionTypeStep == ClientInv /\ Next => ConnectionType'
<1> SUFFICES ASSUME ClientInv, Next PROVE ConnectionType'
  BY Zenon
<1> USE DEF ClientInv, TypeOK, ConnectionType, connVars, Take
<1>1. ASSUME NEW t \in Threads, ConnectLock(t) PROVE ConnectionType'
  BY <1>1, ErrorFacts DEF ConnectLock, SwapOut, FirstReason
<1>2. ASSUME NEW t \in Threads, ConnectShut(t) PROVE ConnectionType'
  BY Zenon, <1>2 DEF ConnectShut
<1>3. ASSUME NEW t \in Threads, ConnectPublish(t) PROVE ConnectionType'
  <2>1. conns' \in 0..MaxConns
    BY <1>3, ClientAssumption DEF ConnectPublish
  <2>2. cGen' \in [Conns -> Nat]
    BY <1>3, ZenonT(40) DEF ConnectPublish, LocalType
  <2> QED
    BY Zenon, <1>3, <2>1, <2>2 DEF ConnectPublish
<1>4. ASSUME NEW t \in Threads, ConnectFail(t) PROVE ConnectionType'
  BY <1>4, ZenonT(40) DEF ConnectFail, Fail, LocalsOK, LocalOK
<1>5. ASSUME NEW t \in Threads, ConnectSettle(t) PROVE ConnectionType'
  BY Zenon, <1>5 DEF ConnectSettle
<1>6. ASSUME NEW t \in Threads, CallFail(t) PROVE ConnectionType'
  BY <1>6, ZenonT(40) DEF CallFail, Fail, LocalsOK, LocalOK
<1>7. ASSUME NEW t \in Threads,
              ConnectResolve(t) \/ ConnectAddr(t) \/ ConnectNoSocket(t) \/
              ConnectNoFcntl(t) \/ ConnectClose(t) \/ ConnectCheck(t) \/
              ConnectSocket(t) \/ ConnectWait(t) \/ ConnectSoError(t) \/ ConnectAfter(t)
              \/ ConnectErase(t) \/ ConnectBegin(t) \/ ConnectPoll(t) \/
              ConnectAddrExpired(t) \/ ConnectExpired(t)
       PROVE  ConnectionType'
  BY <1>7, ZenonT(40) DEF ConnectResolve, ConnectAddr, ConnectNoSocket, ConnectNoFcntl,
     ConnectClose, ConnectCheck, ConnectSocket, ConnectWait, ConnectSoError,
     ConnectAfter, ConnectErase, ConnectBegin, ConnectPoll, ConnectAddrExpired,
     ConnectExpired
<1>8. ASSUME NEW t \in Threads,
              CallLock(t) \/ CallWait(t) \/ CallReadable(t) \/ SendPart(t) \/
              SendRest(t) \/ SendFails(t) \/ Recv(t) \/ RecvFails(t) \/
              TakeNotification(t) \/ TakeReply(t) \/ TakeBad(t) \/ CallNotify(t) \/
              CallSink(t) \/ End(t) \/ CallBegin(t) \/ CallPollFails(t) \/
              CallWritable(t) \/ CallExpired(t)
       PROVE  ConnectionType'
  BY <1>8, ZenonT(40) DEF CallLock, CallWait, CallReadable, SendPart, SendRest, SendFails, Recv,
     RecvFails, TakeNotification, TakeReply, TakeBad, CallNotify, CallSink, End,
     CallBegin, CallPollFails, CallWritable, CallExpired
<1>9. ASSUME NEW c \in Conns, Shutdown(c) PROVE ConnectionType'
  BY Zenon, <1>9 DEF Shutdown
<1>10. ASSUME NEW c \in Conns,
              PeerReply(c) \/ PeerNotify(c) \/ PeerClose(c)
       PROVE  ConnectionType'
  BY Zenon, <1>10 DEF PeerReply, PeerNotify, PeerClose
<1>11. ASSUME NEW reason \in Reasons, Interrupt(reason) PROVE ConnectionType'
  BY Zenon, <1>11, ErrorFacts DEF Interrupt, InterruptSection, SwapOut, FirstReason, ObjectType
<1>12. CASE DestroyMark
  BY Zenon, <1>12 DEF DestroyMark
<1>13. CASE DestroyInterrupt
  BY Zenon, <1>13, ErrorFacts DEF DestroyInterrupt, InterruptSection, SwapOut, FirstReason,
     ObjectType
<1>14. CASE DestroyWait
  BY Zenon, <1>14 DEF DestroyWait
<1> QED
  BY ZenonT(40), <1>1, <1>2, <1>3, <1>4, <1>5, <1>6, <1>7, <1>8, <1>9, <1>10, <1>11, <1>12, <1>13,
     <1>14
  DEF Next, Run, ConnectStep, CallStep, Environment, Expire, Peer, Destroy

\* A step leaves every thread at a location of its code.
LEMMA PcTypeStep == ClientInv /\ Next => pc' \in [Threads -> Locations]
<1> SUFFICES ASSUME ClientInv, Next PROVE pc' \in [Threads -> Locations]
  BY Zenon
<1> USE LocationFacts DEF ClientInv, TypeOK, ControlType, ConnectHeld, CallHeld, Goto,
      ConnectReturn, NextAddress, WaitReady, WaitFails, WaitExpired, WaitInterrupted,
      InterruptSection
<1>1. ASSUME NEW t \in Threads,
              ConnectLock(t) \/ ConnectShut(t) \/ ConnectResolve(t) \/ ConnectAddr(t) \/
              ConnectNoSocket(t) \/ ConnectNoFcntl(t) \/ ConnectClose(t) \/
              ConnectPublish(t) \/ ConnectCheck(t) \/ ConnectSocket(t) \/ ConnectWait(t)
              \/ ConnectSoError(t) \/ ConnectFail(t) \/ ConnectAfter(t) \/
              ConnectSettle(t) \/ ConnectErase(t) \/ ConnectBegin(t) \/ ConnectPoll(t)
              \/ ConnectAddrExpired(t) \/ ConnectExpired(t)
       PROVE  pc' \in [Threads -> Locations]
  BY <1>1, ZenonT(40) DEF ConnectLock, ConnectShut, ConnectResolve, ConnectAddr, ConnectNoSocket,
     ConnectNoFcntl, ConnectClose, ConnectPublish, ConnectCheck, ConnectSocket,
     ConnectWait, ConnectSoError, ConnectFail, ConnectAfter, ConnectSettle,
     ConnectErase, ConnectBegin, ConnectPoll, ConnectAddrExpired, ConnectExpired
<1>2. ASSUME NEW t \in Threads,
              CallLock(t) \/ CallWait(t) \/ CallReadable(t) \/ SendPart(t) \/
              SendRest(t) \/ SendFails(t) \/ Recv(t) \/ RecvFails(t) \/
              TakeNotification(t) \/ TakeReply(t) \/ TakeBad(t) \/ CallFail(t) \/
              CallNotify(t) \/ CallSink(t) \/ End(t) \/ CallBegin(t) \/ CallPollFails(t)
              \/ CallWritable(t) \/ CallExpired(t)
       PROVE  pc' \in [Threads -> Locations]
  BY <1>2, ZenonT(40) DEF CallLock, CallWait, CallReadable, SendPart, SendRest, SendFails, Recv,
     RecvFails, TakeNotification, TakeReply, TakeBad, CallFail, CallNotify, CallSink,
     End, CallBegin, CallPollFails, CallWritable, CallExpired
<1>3. ASSUME NEW c \in Conns,
              Shutdown(c) \/ PeerReply(c) \/ PeerNotify(c) \/ PeerClose(c)
       PROVE  pc' \in [Threads -> Locations]
  BY Zenon, <1>3 DEF Shutdown, PeerReply, PeerNotify, PeerClose
<1>4. ASSUME NEW reason \in Reasons, Interrupt(reason) PROVE pc' \in [Threads -> Locations]
  BY Zenon, <1>4 DEF Interrupt
<1>5. CASE DestroyMark
  BY Zenon, <1>5 DEF DestroyMark
<1>6. CASE DestroyInterrupt
  BY Zenon, <1>6 DEF DestroyInterrupt
<1>7. CASE DestroyWait
  BY Zenon, <1>7 DEF DestroyWait
<1> QED
  BY Zenon, <1>1, <1>2, <1>3, <1>4, <1>5, <1>6, <1>7
  DEF Next, Run, ConnectStep, CallStep, Environment, Expire, Peer, Destroy

\* A step leaves every thread with a result that connect() or call() may return.
LEMMA ResTypeStep == ClientInv /\ Next => res' \in [Threads -> Errors \cup {"ok", "Blob"}]
<1> SUFFICES ASSUME ClientInv, Next PROVE res' \in [Threads -> Errors \cup {"ok", "Blob"}]
  BY Zenon
<1> USE ReasonFacts, ErrorFacts DEF ClientInv, TypeOK, ControlType, Return,
      ConnectReturn, WaitReady, WaitFails, WaitExpired, InterruptSection
<1>1. ASSUME NEW t \in Threads, ConnectWait(t) PROVE res' \in [Threads -> Errors \cup {"ok", "Blob"}]
  BY Zenon, <1>1 DEF ConnectWait, WaitInterrupted, Waiting, WithConnection, Unpublished,
     ConnectHeld, CallHeld
<1>2. ASSUME NEW t \in Threads, CallWait(t) PROVE res' \in [Threads -> Errors \cup {"ok", "Blob"}]
  BY Zenon, <1>2 DEF CallWait, WaitInterrupted, Waiting, WithConnection, Unpublished,
     ConnectHeld, CallHeld
<1>3. ASSUME NEW t \in Threads,
              ConnectLock(t) \/ ConnectShut(t) \/ ConnectResolve(t) \/ ConnectAddr(t) \/
              ConnectNoSocket(t) \/ ConnectNoFcntl(t) \/ ConnectClose(t) \/
              ConnectPublish(t) \/ ConnectCheck(t) \/ ConnectSocket(t) \/
              ConnectSoError(t) \/ ConnectFail(t) \/ ConnectAfter(t) \/ ConnectSettle(t)
              \/ ConnectErase(t) \/ ConnectBegin(t) \/ ConnectPoll(t) \/
              ConnectAddrExpired(t) \/ ConnectExpired(t)
       PROVE  res' \in [Threads -> Errors \cup {"ok", "Blob"}]
  BY <1>3, ZenonT(40) DEF ConnectLock, ConnectShut, ConnectResolve, ConnectAddr, ConnectNoSocket,
     ConnectNoFcntl, ConnectClose, ConnectPublish, ConnectCheck, ConnectSocket,
     ConnectSoError, ConnectFail, ConnectAfter, ConnectSettle, ConnectErase,
     ConnectBegin, ConnectPoll, ConnectAddrExpired, ConnectExpired
<1>4. ASSUME NEW t \in Threads,
              CallLock(t) \/ CallReadable(t) \/ SendPart(t) \/ SendRest(t) \/
              SendFails(t) \/ Recv(t) \/ RecvFails(t) \/ TakeNotification(t) \/
              TakeReply(t) \/ TakeBad(t) \/ CallFail(t) \/ CallNotify(t) \/ CallSink(t)
              \/ End(t) \/ CallBegin(t) \/ CallPollFails(t) \/ CallWritable(t) \/
              CallExpired(t)
       PROVE  res' \in [Threads -> Errors \cup {"ok", "Blob"}]
  BY <1>4, ZenonT(40) DEF CallLock, CallReadable, SendPart, SendRest, SendFails, Recv, RecvFails,
     TakeNotification, TakeReply, TakeBad, CallFail, CallNotify, CallSink, End,
     CallBegin, CallPollFails, CallWritable, CallExpired
<1>5. ASSUME NEW c \in Conns,
              Shutdown(c) \/ PeerReply(c) \/ PeerNotify(c) \/ PeerClose(c)
       PROVE  res' \in [Threads -> Errors \cup {"ok", "Blob"}]
  BY Zenon, <1>5 DEF Shutdown, PeerReply, PeerNotify, PeerClose
<1>6. ASSUME NEW reason \in Reasons, Interrupt(reason) PROVE res' \in [Threads -> Errors \cup {"ok", "Blob"}]
  BY Zenon, <1>6 DEF Interrupt
<1>7. CASE DestroyMark
  BY Zenon, <1>7 DEF DestroyMark
<1>8. CASE DestroyInterrupt
  BY Zenon, <1>8 DEF DestroyInterrupt
<1>9. CASE DestroyWait
  BY Zenon, <1>9 DEF DestroyWait
<1> QED
  BY ZenonT(40), <1>1, <1>2, <1>3, <1>4, <1>5, <1>6, <1>7, <1>8, <1>9
  DEF Next, Run, ConnectStep, CallStep, Environment, Expire, Peer, Destroy

\* A step keeps the types of the locals of connect() and call().
LEMMA LocalTypeStep == ClientInv /\ Next => LocalType'
<1> SUFFICES ASSUME ClientInv, Next PROVE LocalType'
  BY Zenon
<1> USE DEF ClientInv, TypeOK, LocalType, connectVars, callVars
<1>1. ASSUME NEW t \in Threads, ConnectLock(t) PROVE LocalType'
  <2>1. CASE shuttingDown \/ attemptIntr[t] # "none"
    BY Zenon, <1>1, <2>1 DEF ConnectLock
  <2>2. CASE ~(shuttingDown \/ attemptIntr[t] # "none")
    <3>1. cur' \in [Threads -> Conns \cup {None}]
      BY <1>1, <2>2, ZenonT(40) DEF ConnectLock, ObjectType
    <3>2. generation + 1 \in Nat
      BY DEF ObjectType
    <3>3. oper' \in [Threads -> Nat]
      BY <1>1, <2>2, <3>2, ZenonT(40) DEF ConnectLock
    <3> QED
      BY Zenon, <1>1, <3>1, <3>3 DEF ConnectLock
  <2> QED
    BY Zenon, <2>1, <2>2
<1>2. ASSUME NEW t \in Threads, ConnectShut(t) PROVE LocalType'
  BY Zenon, <1>2 DEF ConnectShut
<1>3. ASSUME NEW t \in Threads, ConnectNoSocket(t) PROVE LocalType'
  <2>1. addr[t] + 1 \in 0..Addresses
    BY <1>3, ClientAssumption DEF ConnectNoSocket, LocalsOK, LocalOK
  <2>2. addr' \in [Threads -> 0..Addresses]
    BY <1>3, <2>1, ZenonT(40) DEF ConnectNoSocket, NextAddress
  <2> QED
    BY Zenon, <1>3, <2>2 DEF ConnectNoSocket
<1>4. ASSUME NEW t \in Threads, ConnectClose(t) PROVE LocalType'
  <2>1. addr[t] + 1 \in 0..Addresses
    BY <1>4, ClientAssumption, SMTT(30) DEF ConnectClose, LocalsOK, LocalOK
  <2>2. addr' \in [Threads -> 0..Addresses]
    BY <1>4, <2>1, ZenonT(40) DEF ConnectClose, NextAddress
  <2> QED
    BY Zenon, <1>4, <2>2 DEF ConnectClose
<1>5. ASSUME NEW t \in Threads, ConnectPublish(t) PROVE LocalType'
  <2>1. conns < MaxConns => conns + 1 \in Conns
    BY ClientAssumption DEF ConnectionType, Conns
  <2>2. cur' \in [Threads -> Conns \cup {None}]
    BY <1>5, <2>1, ZenonT(40) DEF ConnectPublish
  <2> QED
    BY Zenon, <1>5, <2>2 DEF ConnectPublish
<1>6. ASSUME NEW t \in Threads, CallLock(t) PROVE LocalType'
  <2>1. cur' \in [Threads -> Conns \cup {None}]
    BY Zenon, <1>6 DEF CallLock, ObjectType
  <2> QED
    BY Zenon, <1>6, <2>1 DEF CallLock
<1>7. ASSUME NEW t \in Threads, SendRest(t) PROVE LocalType'
  BY SMTT(30), <1>7 DEF SendRest, HistoryType
<1>8. ASSUME NEW t \in Threads, TakeNotification(t) PROVE LocalType'
  <2>1. Head(pending[cur[t]]).id \in Nat
    BY Zenon, <1>8, TakeFrame DEF TakeNotification
  <2>2. notices' \in [Threads -> Seq(Nat)]
    BY <1>8, <2>1, SMTT(30) DEF TakeNotification
  <2> QED
    BY Zenon, <1>8, <2>2 DEF TakeNotification, Take
<1>9. ASSUME NEW t \in Threads, TakeReply(t) PROVE LocalType'
  BY <1>9, TakeFrame, ZenonT(40) DEF TakeReply, Take
<1>10. ASSUME NEW t \in Threads, CallNotify(t) PROVE LocalType'
  <2>1. notices[t] \in Seq(Nat) /\ notices[t] # <<>>
    BY Zenon, <1>10 DEF CallNotify
  <2>2. Tail(notices[t]) \in Seq(Nat)
    BY <2>1
  <2> QED
    BY Zenon, <1>10, <2>2 DEF CallNotify
<1>11. ASSUME NEW t \in Threads, End(t) PROVE LocalType'
  <2>1. 0 \in Nat /\ 0 \in 0..Addresses /\ "none" \in Reasons \cup {"none"}
    BY SMTT(30), ClientAssumption
  <2> QED
    BY Zenon, <1>11, <2>1 DEF End
<1>12. ASSUME NEW t \in Threads,
              ConnectResolve(t) \/ ConnectAddr(t) \/ ConnectNoFcntl(t) \/
              ConnectCheck(t) \/ ConnectSocket(t) \/ ConnectWait(t) \/ ConnectSoError(t)
              \/ ConnectFail(t) \/ ConnectAfter(t) \/ ConnectSettle(t) \/
              ConnectErase(t) \/ ConnectBegin(t) \/ ConnectPoll(t) \/
              ConnectAddrExpired(t) \/ ConnectExpired(t)
       PROVE  LocalType'
  BY <1>12, ZenonT(40) DEF ConnectResolve, ConnectAddr, ConnectNoFcntl, ConnectCheck, ConnectSocket,
     ConnectWait, ConnectSoError, ConnectFail, ConnectAfter, ConnectSettle,
     ConnectErase, ConnectBegin, ConnectPoll, ConnectAddrExpired, ConnectExpired
<1>13. ASSUME NEW t \in Threads,
              CallWait(t) \/ CallReadable(t) \/ SendPart(t) \/ SendFails(t) \/ Recv(t)
              \/ RecvFails(t) \/ TakeBad(t) \/ CallFail(t) \/ CallSink(t) \/
              CallBegin(t) \/ CallPollFails(t) \/ CallWritable(t) \/ CallExpired(t)
       PROVE  LocalType'
  BY <1>13, ZenonT(40) DEF CallWait, CallReadable, SendPart, SendFails, Recv, RecvFails, TakeBad,
     CallFail, CallSink, CallBegin, CallPollFails, CallWritable, CallExpired, Take
<1>14. ASSUME NEW c \in Conns,
              Shutdown(c) \/ PeerReply(c) \/ PeerNotify(c) \/ PeerClose(c)
       PROVE  LocalType'
  BY Zenon, <1>14 DEF Shutdown, PeerReply, PeerNotify, PeerClose
<1>15. ASSUME NEW reason \in Reasons, Interrupt(reason) PROVE LocalType'
  BY Zenon, <1>15 DEF Interrupt, InterruptSection, FirstReason, Reasons
<1>16. CASE DestroyMark
  BY Zenon, <1>16 DEF DestroyMark
<1>17. CASE DestroyInterrupt
  BY Zenon, <1>17 DEF DestroyInterrupt, InterruptSection, FirstReason, Reasons
<1>18. CASE DestroyWait
  BY Zenon, <1>18 DEF DestroyWait
<1> QED
  BY ZenonT(40), <1>1, <1>2, <1>3, <1>4, <1>5, <1>6, <1>7, <1>8, <1>9, <1>10, <1>11, <1>12, <1>13,
     <1>14, <1>15, <1>16, <1>17, <1>18
  DEF Next, Run, ConnectStep, CallStep, Environment, Expire, Peer, Destroy

\* A step keeps the types of what is under way between client and peers.
LEMMA WireTypeStep == ClientInv /\ Next => WireType'
<1> SUFFICES ASSUME ClientInv, Next PROVE WireType'
  BY Zenon
<1> USE DEF ClientInv, TypeOK, WireType, wireVars
<1>1. ASSUME NEW t \in Threads, ConnectSocket(t) PROVE WireType'
  BY <1>1, ZenonT(40) DEF ConnectSocket
<1>2. ASSUME NEW t \in Threads, ConnectSoError(t) PROVE WireType'
  BY <1>2, ZenonT(40) DEF ConnectSoError
<1>3. ASSUME NEW t \in Threads, SendPart(t) PROVE WireType'
  BY <1>3, ZenonT(40) DEF SendPart
<1>4. ASSUME NEW t \in Threads, SendRest(t) PROVE WireType'
  <2>1. cur[t] \in Conns
    BY Zenon, <1>4, CallHasConnection DEF SendRest, CallHeld
  <2>2. Append(asked[cur[t]], sent + 1) \in Seq(Nat)
    BY <2>1 DEF HistoryType
  <2>3. asked' \in [Conns -> Seq(Nat)]
    <3>1. CASE peerUp[cur[t]]
      BY <1>4, <2>2, <3>1, ZenonT(40) DEF SendRest
    <3>2. CASE ~peerUp[cur[t]]
      BY Zenon, <1>4, <3>2 DEF SendRest
    <3> QED
      BY Zenon, <3>1, <3>2
  <2> QED
    BY <1>4, <2>3, ZenonT(40) DEF SendRest
<1>5. ASSUME NEW t \in Threads, Recv(t) PROVE WireType'
  <2>1. cur[t] \in Conns
    <3>1. pc[t] \in CallHeld
      BY Zenon, <1>5 DEF Recv, CallHeld
    <3> QED
      BY <3>1, CallHasConnection, ZenonT(40)
  <2>2. PICK n \in 1..Len(inbox[cur[t]]) :
          /\ pending' = [pending EXCEPT ![cur[t]] = @ \o SubSeq(inbox[cur[t]], 1, n)]
          /\ inbox' = [inbox EXCEPT ![cur[t]] = SubSeq(@, n + 1, Len(@))]
    BY <1>5, ZenonT(40) DEF Recv
  <2>3. inbox[cur[t]] \in Seq(Frames) /\ pending[cur[t]] \in Seq(Frames)
    BY Zenon, <2>1
  <2>4. /\ SubSeq(inbox[cur[t]], 1, n) \in Seq(Frames)
        /\ SubSeq(inbox[cur[t]], n + 1, Len(inbox[cur[t]])) \in Seq(Frames)
    BY <2>3
  <2>5. pending[cur[t]] \o SubSeq(inbox[cur[t]], 1, n) \in Seq(Frames)
    BY <2>3, <2>4
  <2> QED
    BY <1>5, <2>2, <2>4, <2>5, ZenonT(40) DEF Recv
<1>6. ASSUME NEW t \in Threads, TakeNotification(t) PROVE WireType'
  BY <1>6, TakeFrame, ZenonT(40) DEF TakeNotification, Take
<1>7. ASSUME NEW t \in Threads, TakeReply(t) PROVE WireType'
  BY <1>7, TakeFrame, ZenonT(40) DEF TakeReply, Take
<1>8. ASSUME NEW t \in Threads, TakeBad(t) PROVE WireType'
  BY <1>8, TakeFrame, ZenonT(40) DEF TakeBad, Take
<1>9. ASSUME NEW t \in Threads,
              ConnectLock(t) \/ ConnectShut(t) \/ ConnectResolve(t) \/ ConnectAddr(t) \/
              ConnectNoSocket(t) \/ ConnectNoFcntl(t) \/ ConnectClose(t) \/
              ConnectPublish(t) \/ ConnectCheck(t) \/ ConnectWait(t) \/ ConnectFail(t)
              \/ ConnectAfter(t) \/ ConnectSettle(t) \/ ConnectErase(t) \/
              ConnectBegin(t) \/ ConnectPoll(t) \/ ConnectAddrExpired(t) \/
              ConnectExpired(t)
       PROVE  WireType'
  BY <1>9, ZenonT(40) DEF ConnectLock, ConnectShut, ConnectResolve, ConnectAddr, ConnectNoSocket,
     ConnectNoFcntl, ConnectClose, ConnectPublish, ConnectCheck, ConnectWait,
     ConnectFail, ConnectAfter, ConnectSettle, ConnectErase, ConnectBegin, ConnectPoll,
     ConnectAddrExpired, ConnectExpired
<1>10. ASSUME NEW t \in Threads,
              CallLock(t) \/ CallWait(t) \/ CallReadable(t) \/ SendFails(t) \/
              RecvFails(t) \/ CallFail(t) \/ CallNotify(t) \/ CallSink(t) \/ End(t) \/
              CallBegin(t) \/ CallPollFails(t) \/ CallWritable(t) \/ CallExpired(t)
       PROVE  WireType'
  BY <1>10, ZenonT(40) DEF CallLock, CallWait, CallReadable, SendFails, RecvFails, CallFail,
     CallNotify, CallSink, End, CallBegin, CallPollFails, CallWritable, CallExpired
<1>11. ASSUME NEW c \in Conns, PeerReply(c) PROVE WireType'
  BY <1>11 DEF PeerReply, Frames, Replies
<1>12. ASSUME NEW c \in Conns, PeerNotify(c) PROVE WireType'
  <2>1. [kind |-> "Notification", id |-> noted + 1] \in Frames
    BY DEF Frames, HistoryType
  <2>2. Append(inbox[c], [kind |-> "Notification", id |-> noted + 1]) \in Seq(Frames)
    BY <2>1
  <2> QED
    BY Zenon, <1>12, <2>2 DEF PeerNotify
<1>13. ASSUME NEW c \in Conns, PeerClose(c) PROVE WireType'
  BY <1>13 DEF PeerClose
<1>14. ASSUME NEW c \in Conns, Shutdown(c) PROVE WireType'
  BY Zenon, <1>14 DEF Shutdown
<1>15. ASSUME NEW reason \in Reasons, Interrupt(reason) PROVE WireType'
  BY Zenon, <1>15 DEF Interrupt, InterruptSection
<1>16. CASE DestroyMark
  BY Zenon, <1>16 DEF DestroyMark
<1>17. CASE DestroyInterrupt
  BY Zenon, <1>17 DEF DestroyInterrupt, InterruptSection
<1>18. CASE DestroyWait
  BY Zenon, <1>18 DEF DestroyWait
<1> QED
  BY ZenonT(40), <1>1, <1>2, <1>3, <1>4, <1>5, <1>6, <1>7, <1>8, <1>9, <1>10, <1>11, <1>12, <1>13,
     <1>14, <1>15, <1>16, <1>17, <1>18
  DEF Next, Run, ConnectStep, CallStep, Environment, Expire, Peer, Destroy

\* A step keeps the types of the history variables.
LEMMA HistoryTypeStep == ClientInv /\ Next => HistoryType'
<1> SUFFICES ASSUME ClientInv, Next PROVE HistoryType'
  BY Zenon
<1> USE DEF ClientInv, TypeOK, HistoryType, histVars
<1>1. ASSUME NEW t \in Threads, SendRest(t) PROVE HistoryType'
  <2>1. sent' = sent + 1 /\ UNCHANGED <<taken, delivered, ops, intrs, noted>>
    BY <1>1, ZenonT(40) DEF SendRest
  <2> QED
    BY SMTT(30), <2>1
<1>2. ASSUME NEW t \in Threads, TakeNotification(t) PROVE HistoryType'
  BY <1>2, TakeFrame, ZenonT(40) DEF TakeNotification, Take
<1>3. ASSUME NEW t \in Threads, CallNotify(t) PROVE HistoryType'
  <2>1. notices[t] \in Seq(Nat) /\ notices[t] # <<>>
    BY Zenon, <1>3 DEF CallNotify, LocalType
  <2>2. Head(notices[t]) \in Nat
    BY <2>1
  <2> QED
    BY <1>3, <2>2, ZenonT(40) DEF CallNotify
<1>4. ASSUME NEW t \in Threads, ConnectBegin(t) PROVE HistoryType'
  BY <1>4 DEF ConnectBegin
<1>5. ASSUME NEW t \in Threads, CallBegin(t) PROVE HistoryType'
  BY <1>5, SMTT(30) DEF CallBegin
<1>6. ASSUME NEW t \in Threads,
              ConnectLock(t) \/ ConnectShut(t) \/ ConnectResolve(t) \/ ConnectAddr(t) \/
              ConnectNoSocket(t) \/ ConnectNoFcntl(t) \/ ConnectClose(t) \/
              ConnectPublish(t) \/ ConnectCheck(t) \/ ConnectSocket(t) \/ ConnectWait(t)
              \/ ConnectSoError(t) \/ ConnectFail(t) \/ ConnectAfter(t) \/
              ConnectSettle(t) \/ ConnectErase(t) \/ ConnectPoll(t) \/
              ConnectAddrExpired(t) \/ ConnectExpired(t)
       PROVE  HistoryType'
  BY <1>6, ZenonT(40) DEF ConnectLock, ConnectShut, ConnectResolve, ConnectAddr, ConnectNoSocket,
     ConnectNoFcntl, ConnectClose, ConnectPublish, ConnectCheck, ConnectSocket,
     ConnectWait, ConnectSoError, ConnectFail, ConnectAfter, ConnectSettle,
     ConnectErase, ConnectPoll, ConnectAddrExpired, ConnectExpired
<1>7. ASSUME NEW t \in Threads,
              CallLock(t) \/ CallWait(t) \/ CallReadable(t) \/ SendPart(t) \/
              SendFails(t) \/ Recv(t) \/ RecvFails(t) \/ TakeReply(t) \/ TakeBad(t) \/
              CallFail(t) \/ CallSink(t) \/ End(t) \/ CallPollFails(t) \/
              CallWritable(t) \/ CallExpired(t)
       PROVE  HistoryType'
  BY <1>7, ZenonT(40) DEF CallLock, CallWait, CallReadable, SendPart, SendFails, Recv, RecvFails,
     TakeReply, TakeBad, CallFail, CallSink, End, CallPollFails, CallWritable,
     CallExpired, Take
<1>8. ASSUME NEW c \in Conns, PeerNotify(c) PROVE HistoryType'
  BY <1>8, SMTT(30) DEF PeerNotify
<1>9. ASSUME NEW c \in Conns,
              Shutdown(c) \/ PeerReply(c) \/ PeerClose(c)
       PROVE  HistoryType'
  BY <1>9, ZenonT(40) DEF Shutdown, PeerReply, PeerClose
<1>10. ASSUME NEW reason \in Reasons, Interrupt(reason) PROVE HistoryType'
  BY <1>10 DEF Interrupt, InterruptSection
<1>11. CASE DestroyMark
  BY Zenon, <1>11 DEF DestroyMark
<1>12. CASE DestroyInterrupt
  BY Zenon, <1>12 DEF DestroyInterrupt, InterruptSection
<1>13. CASE DestroyWait
  BY Zenon, <1>13 DEF DestroyWait
<1> QED
  BY ZenonT(40), <1>1, <1>2, <1>3, <1>4, <1>5, <1>6, <1>7, <1>8, <1>9, <1>10, <1>11, <1>12, <1>13
  DEF Next, Run, ConnectStep, CallStep, Environment, Expire, Peer, Destroy

-----------------------------------------------------------------------------
(* The locals of the threads, and the connections                          *)

\* A step keeps what the location of a thread in connect() or call() says of the
\* mutex, the registered attempt and its locals.
LEMMA LocalsStep == ClientInv /\ Next => LocalsOK'
<1> SUFFICES ASSUME ClientInv, Next, NEW u \in Threads PROVE LocalOK(u)'
  BY Zenon DEF LocalsOK
<1>0. /\ pc \in [Threads -> Locations] /\ res \in [Threads -> Errors \cup {"ok", "Blob"}]
      /\ LocalType /\ ConnectionType /\ LocalsOK /\ None \notin Threads
  BY Zenon, ClientAssumption DEF ClientInv, TypeOK, ControlType
<1> USE <1>0 DEF LocalType, LocalsOK, LocalOK, Held, Registered, WithConnection, Unpublished, ConnectHeld, CallHeld,
      Goto, Return, ConnectReturn, invVars, connectVars
<1>1. ASSUME NEW t \in Threads, ConnectLock(t) PROVE LocalOK(u)'
  <2>1. CASE shuttingDown \/ attemptIntr[t] # "none"
    BY <1>1, <2>1 DEF ConnectLock
  <2>2. CASE ~(shuttingDown \/ attemptIntr[t] # "none") /\ u = t
    BY <1>1, <2>2 DEF ConnectLock
  <2>3. CASE ~(shuttingDown \/ attemptIntr[t] # "none") /\ u # t
    BY <1>1, <2>3 DEF ConnectLock
  <2> QED
    BY Zenon, <2>1, <2>2, <2>3
<1>2. ASSUME NEW t \in Threads, ConnectShut(t) PROVE LocalOK(u)'
  BY <1>2 DEF ConnectShut
<1>3. ASSUME NEW t \in Threads, ConnectResolve(t) PROVE LocalOK(u)'
  BY <1>3 DEF ConnectResolve
<1>4. ASSUME NEW t \in Threads, ConnectAddr(t) PROVE LocalOK(u)'
  BY <1>4 DEF ConnectAddr
<1>5. ASSUME NEW t \in Threads, ConnectNoSocket(t) PROVE LocalOK(u)'
  BY <1>5 DEF ConnectNoSocket, NextAddress
<1>6. ASSUME NEW t \in Threads, ConnectNoFcntl(t) PROVE LocalOK(u)'
  BY <1>6 DEF ConnectNoFcntl
<1>7. ASSUME NEW t \in Threads, ConnectClose(t) PROVE LocalOK(u)'
  BY <1>7 DEF ConnectClose, NextAddress
<1>8. ASSUME NEW t \in Threads, ConnectPublish(t) PROVE LocalOK(u)'
  <2>1. CASE generation # oper[t]
    BY <1>8, <2>1 DEF ConnectPublish
  <2>2. CASE generation = oper[t] /\ u = t
    <3>1. conns + 1 # None
      BY ClientAssumption DEF ConnectionType
    <3> QED
      BY <1>8, <2>2, <3>1 DEF ConnectPublish
  <2>3. CASE generation = oper[t] /\ u # t
    BY <1>8, <2>3 DEF ConnectPublish
  <2> QED
    BY Zenon, <2>1, <2>2, <2>3
<1>9. ASSUME NEW t \in Threads, ConnectCheck(t) PROVE LocalOK(u)'
  BY <1>9 DEF ConnectCheck
<1>10. ASSUME NEW t \in Threads, ConnectSocket(t) PROVE LocalOK(u)'
  BY <1>10, ErrorFacts DEF ConnectSocket
<1>11. ASSUME NEW t \in Threads, ConnectWait(t) PROVE LocalOK(u)'
  BY Zenon, <1>11 DEF ConnectWait, WaitInterrupted
<1>12. ASSUME NEW t \in Threads, ConnectSoError(t) PROVE LocalOK(u)'
  BY <1>12, ErrorFacts DEF ConnectSoError
<1>13. ASSUME NEW t \in Threads, ConnectFail(t) PROVE LocalOK(u)'
  BY <1>13 DEF ConnectFail
<1>14. ASSUME NEW t \in Threads, ConnectAfter(t) PROVE LocalOK(u)'
  BY <1>14 DEF ConnectAfter
<1>15. ASSUME NEW t \in Threads, ConnectSettle(t) PROVE LocalOK(u)'
  BY <1>15 DEF ConnectSettle
<1>16. ASSUME NEW t \in Threads, ConnectErase(t) PROVE LocalOK(u)'
  BY <1>16 DEF ConnectErase
<1>17. ASSUME NEW t \in Threads, CallLock(t) PROVE LocalOK(u)'
  BY SMTT(30), <1>17 DEF CallLock, Usable
<1>18. ASSUME NEW t \in Threads, CallWait(t) PROVE LocalOK(u)'
  BY <1>18 DEF CallWait, WaitInterrupted, Waiting
<1>19. ASSUME NEW t \in Threads, CallReadable(t) PROVE LocalOK(u)'
  BY <1>19 DEF CallReadable, WaitReady
<1>20. ASSUME NEW t \in Threads, SendPart(t) PROVE LocalOK(u)'
  BY <1>20 DEF SendPart
<1>21. ASSUME NEW t \in Threads, SendRest(t) PROVE LocalOK(u)'
  BY Zenon, <1>21 DEF SendRest
<1>22. ASSUME NEW t \in Threads, SendFails(t) PROVE LocalOK(u)'
  BY Zenon, <1>22, ErrorFacts DEF SendFails
<1>23. ASSUME NEW t \in Threads, Recv(t) PROVE LocalOK(u)'
  BY Zenon, <1>23 DEF Recv
<1>24. ASSUME NEW t \in Threads, RecvFails(t) PROVE LocalOK(u)'
  BY <1>24, ErrorFacts DEF RecvFails
<1>25. ASSUME NEW t \in Threads, TakeNotification(t) PROVE LocalOK(u)'
  BY Zenon, <1>25 DEF TakeNotification, Take
<1>26. ASSUME NEW t \in Threads, TakeReply(t) PROVE LocalOK(u)'
  BY <1>26 DEF TakeReply, Take
<1>27. ASSUME NEW t \in Threads, TakeBad(t) PROVE LocalOK(u)'
  BY <1>27, ErrorFacts DEF TakeBad, Take
<1>28. ASSUME NEW t \in Threads, CallFail(t) PROVE LocalOK(u)'
  BY Zenon, <1>28 DEF CallFail
<1>29. ASSUME NEW t \in Threads, CallNotify(t) PROVE LocalOK(u)'
  BY Zenon, <1>29 DEF CallNotify
<1>30. ASSUME NEW t \in Threads, CallSink(t) PROVE LocalOK(u)'
  BY <1>30 DEF CallSink
<1>31. ASSUME NEW t \in Threads, End(t) PROVE LocalOK(u)'
  BY SMTT(30), <1>31 DEF End
<1>32. ASSUME NEW t \in Threads, ConnectBegin(t) PROVE LocalOK(u)'
  <2>1. CASE shuttingDown
    BY <1>32, <2>1 DEF ConnectBegin
  <2>2. CASE ~shuttingDown /\ u = t
    BY <1>32, <2>2, ZenonT(40) DEF ConnectBegin
  <2>3. CASE ~shuttingDown /\ u # t
    BY <1>32, <2>3 DEF ConnectBegin
  <2> QED
    BY Zenon, <2>1, <2>2, <2>3
<1>33. ASSUME NEW t \in Threads, CallBegin(t) PROVE LocalOK(u)'
  BY SMTT(30), <1>33 DEF CallBegin
<1>34. ASSUME NEW t \in Threads, ConnectPoll(t) PROVE LocalOK(u)'
  BY <1>34, ErrorFacts, SMTT(30) DEF ConnectPoll, WaitReady, WaitFails
<1>35. ASSUME NEW t \in Threads, CallPollFails(t) PROVE LocalOK(u)'
  BY <1>35, ErrorFacts DEF CallPollFails, WaitFails, Waiting
<1>36. ASSUME NEW t \in Threads, CallWritable(t) PROVE LocalOK(u)'
  BY <1>36 DEF CallWritable, WaitReady
<1>37. ASSUME NEW t \in Threads, ConnectAddrExpired(t) PROVE LocalOK(u)'
  BY <1>37 DEF ConnectAddrExpired
<1>38. ASSUME NEW t \in Threads, ConnectExpired(t) PROVE LocalOK(u)'
  BY SMTT(30), <1>38, ErrorFacts DEF ConnectExpired, WaitExpired
<1>39. ASSUME NEW t \in Threads, CallExpired(t) PROVE LocalOK(u)'
  BY <1>39, ErrorFacts, SMTT(30) DEF CallExpired, WaitExpired, Waiting
<1>40. ASSUME NEW c \in Conns,
              Shutdown(c) \/ PeerReply(c) \/ PeerNotify(c) \/ PeerClose(c)
       PROVE  LocalOK(u)'
  BY <1>40 DEF Shutdown, PeerReply, PeerNotify, PeerClose
<1>41. ASSUME NEW reason \in Reasons, Interrupt(reason) PROVE LocalOK(u)'
  BY Zenon, <1>41 DEF Interrupt, InterruptSection
<1>42. CASE DestroyMark
  BY Zenon, <1>42 DEF DestroyMark
<1>43. CASE DestroyInterrupt
  BY Zenon, <1>43 DEF DestroyInterrupt, InterruptSection
<1>44. CASE DestroyWait
  BY Zenon, <1>44 DEF DestroyWait
<1> QED
  BY <1>1, <1>2, <1>3, <1>4, <1>5, <1>6, <1>7, <1>8, <1>9, <1>10, <1>11, <1>12, <1>13,
     <1>14, <1>15, <1>16, <1>17, <1>18, <1>19, <1>20, <1>21, <1>22, <1>23, <1>24, <1>25,
     <1>26, <1>27, <1>28, <1>29, <1>30, <1>31, <1>32, <1>33, <1>34, <1>35, <1>36, <1>37,
     <1>38, <1>39, <1>40, <1>41, <1>42, <1>43, <1>44, ZenonT(30)
  DEF Next, Run, ConnectStep, CallStep, Environment, Expire, Peer, Destroy

\* A step keeps every created connection published or marked, and the others untouched.
LEMMA ConnectionsStep == ClientInv /\ Next => ConnectionsOK'
<1> SUFFICES ASSUME ClientInv, Next PROVE ConnectionsOK'
  BY Zenon
<1>0. ConnectionsOK /\ UsersOK /\ LocalsOK /\ TypeOK /\ None \notin Nat /\ MaxConns \in Nat
  BY Zenon, ClientAssumption DEF ClientInv
<1> USE <1>0 DEF ConnectionsOK, stateVars, connVars
<1>1. ASSUME NEW t \in Threads, ConnectLock(t) PROVE ConnectionsOK'
  BY <1>1 DEF ConnectLock, SwapOut, FirstReason, TypeOK, ObjectType, ConnectionType,
     Conns
<1>2. ASSUME NEW t \in Threads, ConnectShut(t) PROVE ConnectionsOK'
  <2>1. UNCHANGED <<connection, conns, toShut, cIntr>>
    BY Zenon, <1>2 DEF ConnectShut
  <2>2. \A c \in Conns : c > conns => c # cur[t]
    <3>1. cur[t] \in Conns \cup {None} /\ (cur[t] # None => cur[t] <= conns)
      BY Zenon, <1>2 DEF UsersOK, UserOK, TypeOK, LocalType
    <3> QED
      BY <3>1, ClientAssumption DEF Conns, TypeOK, ConnectionType
  <2>3. \A c \in Conns : c > conns => cShut'[c] = cShut[c]
    BY Zenon, <1>2, <2>2 DEF ConnectShut, TypeOK, ConnectionType
  <2> QED
    BY Zenon, <2>1, <2>3
<1>3. ASSUME NEW t \in Threads, ConnectPublish(t) PROVE ConnectionsOK'
  BY <1>3 DEF ConnectPublish, UsersOK, UserOK, Unpublished, TypeOK, ObjectType,
     ConnectionType, Conns
<1>4. ASSUME NEW t \in Threads, ConnectFail(t) PROVE ConnectionsOK'
  <2>1. CASE connection = cur[t]
    <3>1. cur[t] \in Conns /\ res[t] # "none"
      BY <1>4, ZenonT(40) DEF ConnectFail, LocalsOK, LocalOK, WithConnection, Unpublished, ConnectHeld,
                 CallHeld, TypeOK, LocalType, Errors, Reasons
    <3>2. cur[t] <= conns
      BY <1>4, <3>1, ClientAssumption DEF ConnectFail, UsersOK, UserOK, Conns
    <3>3. /\ connection' = None /\ UNCHANGED <<conns, toShut>>
          /\ cIntr' = [cIntr EXCEPT ![cur[t]] = res[t]]
          /\ cShut' = [cShut EXCEPT ![cur[t]] = TRUE]
      BY Zenon, <1>4, <2>1 DEF ConnectFail, Fail
    <3>4. \A c \in Conns : c > conns => c # cur[t]
      BY <3>1, <3>2 DEF Conns, TypeOK, ConnectionType
    <3>5. \A c \in toShut : c # None
      BY ClientAssumption DEF TypeOK, ConnectionType, Conns
    <3> QED
      BY Zenon, <2>1, <3>1, <3>3, <3>4, <3>5 DEF TypeOK, ConnectionType
  <2>2. CASE connection # cur[t]
    BY Zenon, <1>4, <2>2 DEF ConnectFail, Fail
  <2> QED
    BY Zenon, <2>1, <2>2
<1>5. ASSUME NEW t \in Threads, CallFail(t) PROVE ConnectionsOK'
  <2>1. CASE connection = cur[t]
    <3>1. cur[t] \in Conns /\ res[t] # "none"
      BY <1>5, ZenonT(40) DEF CallFail, LocalsOK, LocalOK, WithConnection, Unpublished, ConnectHeld,
                 CallHeld, TypeOK, LocalType, Errors, Reasons
    <3>2. cur[t] <= conns
      BY <1>5, <3>1, ClientAssumption DEF CallFail, UsersOK, UserOK, Conns
    <3>3. /\ connection' = None /\ UNCHANGED <<conns, toShut>>
          /\ cIntr' = [cIntr EXCEPT ![cur[t]] = res[t]]
          /\ cShut' = [cShut EXCEPT ![cur[t]] = TRUE]
      BY Zenon, <1>5, <2>1 DEF CallFail, Fail
    <3>4. \A c \in Conns : c > conns => c # cur[t]
      BY <3>1, <3>2 DEF Conns, TypeOK, ConnectionType
    <3>5. \A c \in toShut : c # None
      BY ClientAssumption DEF TypeOK, ConnectionType, Conns
    <3> QED
      BY Zenon, <2>1, <3>1, <3>3, <3>4, <3>5 DEF TypeOK, ConnectionType
  <2>2. CASE connection # cur[t]
    BY Zenon, <1>5, <2>2 DEF CallFail, Fail
  <2> QED
    BY Zenon, <2>1, <2>2
<1>6. ASSUME NEW t \in Threads,
              ConnectResolve(t) \/ ConnectAddr(t) \/ ConnectNoSocket(t) \/
              ConnectNoFcntl(t) \/ ConnectClose(t) \/ ConnectCheck(t) \/
              ConnectSocket(t) \/ ConnectWait(t) \/ ConnectSoError(t) \/ ConnectAfter(t)
              \/ ConnectSettle(t) \/ ConnectErase(t) \/ ConnectBegin(t) \/
              ConnectPoll(t) \/ ConnectAddrExpired(t) \/ ConnectExpired(t)
       PROVE  ConnectionsOK'
  <2> HIDE DEF ConnectionsOK
  <2>1. UNCHANGED <<connection, conns, toShut, cIntr, cShut>>
    BY <1>6, ZenonT(30) DEF ConnectResolve, ConnectAddr, ConnectNoSocket, ConnectNoFcntl,
     ConnectClose, ConnectCheck, ConnectSocket, ConnectWait, ConnectSoError,
     ConnectAfter, ConnectSettle, ConnectErase, ConnectBegin, ConnectPoll,
     ConnectAddrExpired, ConnectExpired
  <2> QED
    BY Zenon, <2>1 DEF ConnectionsOK
<1>7. ASSUME NEW t \in Threads,
              CallLock(t) \/ CallWait(t) \/ CallReadable(t) \/ SendPart(t) \/
              SendRest(t) \/ SendFails(t) \/ Recv(t) \/ RecvFails(t) \/
              TakeNotification(t) \/ TakeReply(t) \/ TakeBad(t) \/ CallNotify(t) \/
              CallSink(t) \/ End(t) \/ CallBegin(t) \/ CallPollFails(t) \/
              CallWritable(t) \/ CallExpired(t)
       PROVE  ConnectionsOK'
  <2> HIDE DEF ConnectionsOK
  <2>1. UNCHANGED <<connection, conns, toShut, cIntr, cShut>>
    BY <1>7, ZenonT(30) DEF CallLock, CallWait, CallReadable, SendPart, SendRest, SendFails, Recv,
     RecvFails, TakeNotification, TakeReply, TakeBad, CallNotify, CallSink, End,
     CallBegin, CallPollFails, CallWritable, CallExpired, Take
  <2> QED
    BY Zenon, <2>1 DEF ConnectionsOK
<1>8. ASSUME NEW c \in Conns, Shutdown(c) PROVE ConnectionsOK'
  BY Zenon, <1>8 DEF Shutdown, TypeOK, ConnectionType, Conns
<1>9. ASSUME NEW c \in Conns,
              PeerReply(c) \/ PeerNotify(c) \/ PeerClose(c)
       PROVE  ConnectionsOK'
  BY Zenon, <1>9 DEF PeerReply, PeerNotify, PeerClose
<1>10. ASSUME NEW reason \in Reasons, Interrupt(reason) PROVE ConnectionsOK'
  BY <1>10 DEF Interrupt, InterruptSection, SwapOut, FirstReason, Reasons, TypeOK,
     ObjectType, ConnectionType, Conns
<1>11. CASE DestroyMark
  BY Zenon, <1>11 DEF DestroyMark
<1>12. CASE DestroyInterrupt
  BY <1>12 DEF DestroyInterrupt, InterruptSection, SwapOut, FirstReason, Reasons,
     TypeOK, ObjectType, ConnectionType, Conns
<1>13. CASE DestroyWait
  BY Zenon, <1>13 DEF DestroyWait
<1> QED
  BY <1>1, <1>2, <1>3, <1>4, <1>5, <1>6, <1>7, <1>8, <1>9, <1>10, <1>11, <1>12, <1>13, ZenonT(30)
  DEF Next, Run, ConnectStep, CallStep, Environment, Expire, Peer, Destroy

\* A step publishes no connection of an overtaken attempt and marks none it leaves published.
LEMMA PublishedStep == ClientInv /\ Next => PublishedIsCurrent'
<1> SUFFICES ASSUME ClientInv, Next PROVE PublishedIsCurrent'
  BY Zenon
<1>0. /\ PublishedIsCurrent /\ ConnectionsOK /\ UsersOK /\ ConnectionType
      /\ generation \in Nat /\ connection \in Conns \cup {None}
      /\ cur \in [Threads -> Conns \cup {None}] /\ None \notin Nat /\ MaxConns \in Nat
  BY Zenon, ClientAssumption DEF ClientInv, TypeOK, ObjectType, LocalType
<1> USE <1>0 DEF ConnectionType, Conns, PublishedIsCurrent, stateVars,
      connVars, Take
<1>1. ASSUME NEW t \in Threads, ConnectLock(t) PROVE PublishedIsCurrent'
  BY Zenon, <1>1 DEF ConnectLock, SwapOut
<1>2. ASSUME NEW t \in Threads, ConnectShut(t) PROVE PublishedIsCurrent'
  BY Zenon, <1>2 DEF ConnectShut, UsersOK, UserOK, Unpublished
<1>3. ASSUME NEW t \in Threads, ConnectPublish(t) PROVE PublishedIsCurrent'
  <2>1. CASE generation # oper[t]
    BY Zenon, <1>3, <2>1 DEF ConnectPublish
  <2>2. CASE generation = oper[t]
    <3>1. conns + 1 \in Conns /\ connection' = conns + 1
      BY <1>3, <2>2 DEF ConnectPublish
    <3>2. cIntr[conns + 1] = "none" /\ ~cShut[conns + 1]
      BY <3>1, SMTT(30) DEF ConnectionsOK
    <3> QED
      BY Zenon, <1>3, <2>2, <3>1, <3>2 DEF ConnectPublish
  <2> QED
    BY Zenon, <2>1, <2>2
<1>4. ASSUME NEW t \in Threads, ConnectFail(t) PROVE PublishedIsCurrent'
  BY Zenon, <1>4 DEF ConnectFail, Fail
<1>5. ASSUME NEW t \in Threads, CallFail(t) PROVE PublishedIsCurrent'
  BY Zenon, <1>5 DEF CallFail, Fail
<1>6. ASSUME NEW t \in Threads,
              ConnectResolve(t) \/ ConnectAddr(t) \/ ConnectNoSocket(t) \/
              ConnectNoFcntl(t) \/ ConnectClose(t) \/ ConnectCheck(t) \/
              ConnectSocket(t) \/ ConnectWait(t) \/ ConnectSoError(t) \/ ConnectAfter(t)
              \/ ConnectSettle(t) \/ ConnectErase(t) \/ ConnectBegin(t) \/
              ConnectPoll(t) \/ ConnectAddrExpired(t) \/ ConnectExpired(t)
       PROVE  PublishedIsCurrent'
  <2> HIDE DEF PublishedIsCurrent
  <2>1. UNCHANGED <<generation, connection, cGen, cIntr, cShut>>
    BY <1>6, ZenonT(30) DEF ConnectResolve, ConnectAddr, ConnectNoSocket, ConnectNoFcntl,
     ConnectClose, ConnectCheck, ConnectSocket, ConnectWait, ConnectSoError,
     ConnectAfter, ConnectSettle, ConnectErase, ConnectBegin, ConnectPoll,
     ConnectAddrExpired, ConnectExpired
  <2> QED
    BY Zenon, <2>1 DEF PublishedIsCurrent
<1>7. ASSUME NEW t \in Threads,
              CallLock(t) \/ CallWait(t) \/ CallReadable(t) \/ SendPart(t) \/
              SendRest(t) \/ SendFails(t) \/ Recv(t) \/ RecvFails(t) \/
              TakeNotification(t) \/ TakeReply(t) \/ TakeBad(t) \/ CallNotify(t) \/
              CallSink(t) \/ End(t) \/ CallBegin(t) \/ CallPollFails(t) \/
              CallWritable(t) \/ CallExpired(t)
       PROVE  PublishedIsCurrent'
  <2> HIDE DEF PublishedIsCurrent
  <2>1. UNCHANGED <<generation, connection, cGen, cIntr, cShut>>
    BY <1>7, ZenonT(30) DEF CallLock, CallWait, CallReadable, SendPart, SendRest, SendFails, Recv,
     RecvFails, TakeNotification, TakeReply, TakeBad, CallNotify, CallSink, End,
     CallBegin, CallPollFails, CallWritable, CallExpired
  <2> QED
    BY Zenon, <2>1 DEF PublishedIsCurrent
<1>8. ASSUME NEW c \in Conns, Shutdown(c) PROVE PublishedIsCurrent'
  BY Zenon, <1>8 DEF Shutdown, ConnectionsOK
<1>9. ASSUME NEW c \in Conns,
              PeerReply(c) \/ PeerNotify(c) \/ PeerClose(c)
       PROVE  PublishedIsCurrent'
  BY Zenon, <1>9 DEF PeerReply, PeerNotify, PeerClose
<1>10. ASSUME NEW reason \in Reasons, Interrupt(reason) PROVE PublishedIsCurrent'
  BY Zenon, <1>10 DEF Interrupt, InterruptSection, SwapOut
<1>11. CASE DestroyMark
  BY Zenon, <1>11 DEF DestroyMark
<1>12. CASE DestroyInterrupt
  BY Zenon, <1>12 DEF DestroyInterrupt, InterruptSection, SwapOut
<1>13. CASE DestroyWait
  BY Zenon, <1>13 DEF DestroyWait
<1> QED
  BY <1>1, <1>2, <1>3, <1>4, <1>5, <1>6, <1>7, <1>8, <1>9, <1>10, <1>11, <1>12, <1>13, ZenonT(30)
  DEF Next, Run, ConnectStep, CallStep, Environment, Expire, Peer, Destroy

\* A step that leaves the connections alone and does not take u to where they matter
LEMMA UserFrame ==
  ASSUME NEW u \in Threads, UserOK(u), UNCHANGED <<connection, conns>>, cur'[u] = cur[u],
         \/ pc'[u] = pc[u] \/ pc'[u] \notin Unpublished \cup {"kAfter"}
         \/ pc[u] \in Unpublished /\ pc'[u] \in Unpublished
  PROVE  UserOK(u)'
  BY Zenon DEF UserOK, Unpublished

\* A step keeps what holds of the connections that calls and attempts refer to.
LEMMA UsersStep == ClientInv /\ Next => UsersOK'
<1> SUFFICES ASSUME ClientInv, Next, NEW u \in Threads PROVE UserOK(u)'
  BY Zenon DEF UsersOK
<1>0. /\ pc \in [Threads -> Locations] /\ cur \in [Threads -> Conns \cup {None}]
      /\ UserOK(u) /\ ConnectionType /\ ConnectionsOK /\ LocalsOK /\ PublishedIsCurrent
      /\ None \notin Threads
  BY Zenon, ClientAssumption DEF ClientInv, TypeOK, ControlType, LocalType, UsersOK
<1> USE <1>0 DEF Unpublished, Goto, ConnectReturn, stateVars, connVars
<1>1. ASSUME NEW t \in Threads, ConnectLock(t) PROVE UserOK(u)'
  <2>1. CASE shuttingDown \/ attemptIntr[t] # "none"
    BY Zenon, <1>1, <2>1 DEF UserOK, ConnectLock
  <2>2. CASE ~(shuttingDown \/ attemptIntr[t] # "none")
    <3>1. connection' = None /\ conns' = conns
      BY Zenon, <1>1, <2>2 DEF ConnectLock, SwapOut
    <3>2. pc[u] # "kAfter"
      BY Zenon, <1>1 DEF ConnectLock, LocalsOK, LocalOK, Held, ConnectHeld
    <3>3. pc'[u] # "kAfter"
      BY Zenon, <1>1, <2>2, <3>2 DEF ConnectLock
    <3>4. cur'[u] = IF u = t THEN connection ELSE cur[u]
      BY Zenon, <1>1, <2>2 DEF ConnectLock
    <3>5. cur'[u] # None => cur'[u] <= conns
      BY Zenon, <3>4 DEF UserOK, ConnectionsOK
    <3> QED
      BY Zenon, <3>1, <3>3, <3>5 DEF UserOK
  <2> QED
    BY Zenon, <2>1, <2>2
<1>2. ASSUME NEW t \in Threads, ConnectShut(t) PROVE UserOK(u)'
  BY Zenon, <1>2 DEF UserOK, ConnectShut
<1>3. ASSUME NEW t \in Threads, ConnectResolve(t) PROVE UserOK(u)'
  BY Zenon, <1>3, UserFrame DEF ConnectResolve
<1>4. ASSUME NEW t \in Threads, ConnectAddr(t) PROVE UserOK(u)'
  BY Zenon, <1>4, UserFrame DEF ConnectAddr
<1>5. ASSUME NEW t \in Threads, ConnectNoSocket(t) PROVE UserOK(u)'
  BY Zenon, <1>5, UserFrame DEF ConnectNoSocket, NextAddress
<1>6. ASSUME NEW t \in Threads, ConnectNoFcntl(t) PROVE UserOK(u)'
  BY Zenon, <1>6, UserFrame DEF ConnectNoFcntl
<1>7. ASSUME NEW t \in Threads, ConnectClose(t) PROVE UserOK(u)'
  BY Zenon, <1>7, UserFrame DEF ConnectClose, NextAddress
<1>8. ASSUME NEW t \in Threads, ConnectPublish(t) PROVE UserOK(u)'
  <2>1. CASE generation # oper[t]
    BY Zenon, <1>8, <2>1 DEF UserOK, ConnectPublish
  <2>2. CASE generation = oper[t]
    <3>1. conns' = conns + 1 /\ conns \in Nat
      <4>1. conns \in Nat
        BY ClientAssumption DEF ConnectionType
      <4> QED
        BY Zenon, <1>8, <2>2, <4>1 DEF ConnectPublish
    <3>2. cur[u] # None => cur[u] <= conns /\ cur[u] \in Nat
      BY DEF UserOK, Conns
    <3>3. cur'[u] # None => cur'[u] <= conns'
      <4>1. cur'[u] = IF u = t THEN conns + 1 ELSE cur[u]
        BY Zenon, <1>8, <2>2 DEF ConnectPublish
      <4> QED
        BY <3>1, <3>2, <4>1
    <3>4. u # t => pc[u] \notin Unpublished \cup {"kAfter"}
      BY Zenon, <1>8 DEF ConnectPublish, LocalsOK, LocalOK, Held, ConnectHeld
    <3>5. pc'[u] \notin Unpublished \cup {"kAfter"}
      BY Zenon, <1>8, <2>2, <3>4 DEF ConnectPublish
    <3> QED
      BY Zenon, <3>3, <3>5 DEF UserOK
  <2> QED
    BY Zenon, <2>1, <2>2
<1>9. ASSUME NEW t \in Threads, ConnectCheck(t) PROVE UserOK(u)'
  BY Zenon, <1>9, UserFrame DEF ConnectCheck
<1>10. ASSUME NEW t \in Threads, ConnectSocket(t) PROVE UserOK(u)'
  BY <1>10, UserFrame, ZenonT(40) DEF ConnectSocket
<1>11. ASSUME NEW t \in Threads, ConnectWait(t) PROVE UserOK(u)'
  BY Zenon, <1>11 DEF UserOK, ConnectWait, WaitInterrupted, PublishedIsCurrent, LocalsOK, LocalOK,
     WithConnection, ConnectHeld, CallHeld
<1>12. ASSUME NEW t \in Threads, ConnectSoError(t) PROVE UserOK(u)'
  BY <1>12, UserFrame, ZenonT(40) DEF ConnectSoError
<1>13. ASSUME NEW t \in Threads, ConnectFail(t) PROVE UserOK(u)'
  BY Zenon, <1>13 DEF UserOK, ConnectFail, Fail, LocalsOK, LocalOK, WithConnection, ConnectHeld,
     CallHeld
<1>14. ASSUME NEW t \in Threads, ConnectAfter(t) PROVE UserOK(u)'
  BY <1>14, UserFrame, ZenonT(40) DEF ConnectAfter
<1>15. ASSUME NEW t \in Threads, ConnectSettle(t) PROVE UserOK(u)'
  BY <1>15, UserFrame, ZenonT(40) DEF ConnectSettle
<1>16. ASSUME NEW t \in Threads, ConnectErase(t) PROVE UserOK(u)'
  BY <1>16, UserFrame, ZenonT(40) DEF ConnectErase
<1>17. ASSUME NEW t \in Threads, CallLock(t) PROVE UserOK(u)'
  <2>1. UNCHANGED <<connection, conns>>
    BY Zenon, <1>17 DEF CallLock
  <2>2. cur'[u] # None => cur'[u] <= conns
    BY Zenon, <1>17 DEF UserOK, CallLock, ConnectionsOK
  <2>3. pc'[u] = pc[u] \/ pc'[u] \in {"end", "cWrite"}
    BY Zenon, <1>17 DEF CallLock
  <2>4. pc[u] \notin Unpublished \cup {"kAfter"}
    <3>1. callMutex # u
      BY Zenon, <1>17, <1>0 DEF CallLock
    <3>2. pc[u] \notin Held
      BY Zenon, <3>1 DEF LocalsOK, LocalOK
    <3> QED
      BY Zenon, <3>2 DEF Held, ConnectHeld
  <2> QED
    BY Zenon, <2>1, <2>2, <2>3, <2>4 DEF UserOK
<1>18. ASSUME NEW t \in Threads, CallWait(t) PROVE UserOK(u)'
  BY <1>18, UserFrame, ZenonT(40) DEF CallWait, WaitInterrupted, Waiting
<1>19. ASSUME NEW t \in Threads, CallReadable(t) PROVE UserOK(u)'
  BY <1>19, UserFrame, ZenonT(40) DEF CallReadable, WaitReady
<1>20. ASSUME NEW t \in Threads, SendPart(t) PROVE UserOK(u)'
  BY Zenon, <1>20, UserFrame DEF SendPart
<1>21. ASSUME NEW t \in Threads, SendRest(t) PROVE UserOK(u)'
  BY Zenon, <1>21, UserFrame DEF SendRest
<1>22. ASSUME NEW t \in Threads, SendFails(t) PROVE UserOK(u)'
  BY Zenon, <1>22, UserFrame DEF SendFails
<1>23. ASSUME NEW t \in Threads, Recv(t) PROVE UserOK(u)'
  BY Zenon, <1>23, UserFrame DEF Recv
<1>24. ASSUME NEW t \in Threads, RecvFails(t) PROVE UserOK(u)'
  BY Zenon, <1>24, UserFrame DEF RecvFails
<1>25. ASSUME NEW t \in Threads, TakeNotification(t) PROVE UserOK(u)'
  BY Zenon, <1>25, UserFrame DEF TakeNotification, Take
<1>26. ASSUME NEW t \in Threads, TakeReply(t) PROVE UserOK(u)'
  BY Zenon, <1>26, UserFrame DEF TakeReply, Take
<1>27. ASSUME NEW t \in Threads, TakeBad(t) PROVE UserOK(u)'
  BY Zenon, <1>27, UserFrame DEF TakeBad, Take
<1>28. ASSUME NEW t \in Threads, CallFail(t) PROVE UserOK(u)'
  BY Zenon, <1>28 DEF UserOK, CallFail, Fail, LocalsOK, LocalOK, WithConnection, ConnectHeld, CallHeld
<1>29. ASSUME NEW t \in Threads, CallNotify(t) PROVE UserOK(u)'
  BY Zenon, <1>29, UserFrame DEF CallNotify
<1>30. ASSUME NEW t \in Threads, CallSink(t) PROVE UserOK(u)'
  BY Zenon, <1>30, UserFrame DEF CallSink
<1>31. ASSUME NEW t \in Threads, End(t) PROVE UserOK(u)'
  BY Zenon, <1>31 DEF UserOK, End
<1>32. ASSUME NEW t \in Threads, ConnectBegin(t) PROVE UserOK(u)'
  BY Zenon, <1>32, UserFrame DEF ConnectBegin
<1>33. ASSUME NEW t \in Threads, CallBegin(t) PROVE UserOK(u)'
  BY Zenon, <1>33, UserFrame DEF CallBegin
<1>34. ASSUME NEW t \in Threads, ConnectPoll(t) PROVE UserOK(u)'
  BY Zenon, <1>34, UserFrame DEF ConnectPoll, WaitReady, WaitFails
<1>35. ASSUME NEW t \in Threads, CallPollFails(t) PROVE UserOK(u)'
  BY Zenon, <1>35, UserFrame DEF CallPollFails, WaitFails, Waiting
<1>36. ASSUME NEW t \in Threads, CallWritable(t) PROVE UserOK(u)'
  BY Zenon, <1>36, UserFrame DEF CallWritable, WaitReady
<1>37. ASSUME NEW t \in Threads, ConnectAddrExpired(t) PROVE UserOK(u)'
  BY Zenon, <1>37, UserFrame DEF ConnectAddrExpired
<1>38. ASSUME NEW t \in Threads, ConnectExpired(t) PROVE UserOK(u)'
  BY Zenon, <1>38, UserFrame DEF ConnectExpired, WaitExpired
<1>39. ASSUME NEW t \in Threads, CallExpired(t) PROVE UserOK(u)'
  BY Zenon, <1>39, UserFrame DEF CallExpired, WaitExpired, Waiting
<1>40. ASSUME NEW c \in Conns,
              Shutdown(c) \/ PeerReply(c) \/ PeerNotify(c) \/ PeerClose(c)
       PROVE  UserOK(u)'
  BY <1>40, UserFrame, ZenonT(40) DEF Shutdown, PeerReply, PeerNotify, PeerClose
<1>41. ASSUME NEW reason \in Reasons, Interrupt(reason) PROVE UserOK(u)'
  BY <1>41, ZenonT(40) DEF UserOK, Interrupt, InterruptSection, SwapOut, LocalsOK, LocalOK, WithConnection,
     ConnectHeld, CallHeld
<1>42. CASE DestroyMark
  BY Zenon, <1>42, UserFrame DEF DestroyMark
<1>43. CASE DestroyInterrupt
  BY Zenon, <1>43 DEF UserOK, DestroyInterrupt, InterruptSection, SwapOut, LocalsOK, LocalOK,
     WithConnection, ConnectHeld, CallHeld
<1>44. CASE DestroyWait
  BY Zenon, <1>44, UserFrame DEF DestroyWait
<1> QED
  BY <1>1, <1>2, <1>3, <1>4, <1>5, <1>6, <1>7, <1>8, <1>9, <1>10, <1>11, <1>12, <1>13,
     <1>14, <1>15, <1>16, <1>17, <1>18, <1>19, <1>20, <1>21, <1>22, <1>23, <1>24, <1>25,
     <1>26, <1>27, <1>28, <1>29, <1>30, <1>31, <1>32, <1>33, <1>34, <1>35, <1>36, <1>37,
     <1>38, <1>39, <1>40, <1>41, <1>42, <1>43, <1>44, ZenonT(30)
  DEF Next, Run, ConnectStep, CallStep, Environment, Expire, Peer, Destroy

-----------------------------------------------------------------------------
(* The object, the generations, the destructor and activeInvocations_      *)

\* activeInvocations_ is positive while a thread is inside the client.
LEMMA InsideIsFinite == IsFiniteSet(Inside) /\ Cardinality(Inside) \in Nat
<1>1. IsFiniteSet(Inside)
  BY Zenon, FS_Subset, ClientAssumption DEF Inside
<1> QED
  BY Zenon, <1>1, FS_CardinalityType

\* While a thread is inside, activeInvocations_ is not 0.
LEMMA ActiveIsPositive ==
  ASSUME ClientInv, NEW t \in Threads, pc[t] # "idle"
  PROVE  active > 0
<1>1. Cardinality(Inside) # 0
  BY InsideIsFinite, FS_EmptySet DEF Inside
<1> QED
  BY <1>1, InsideIsFinite DEF ClientInv, ActiveCounts

\* A step keeps the types of the members of the object.
LEMMA ObjectTypeStep == ClientInv /\ Next => ObjectType'
<1> SUFFICES ASSUME ClientInv, Next PROVE ObjectType'
  BY Zenon
<1>0. ObjectType /\ ConnectionType
  BY Zenon DEF ClientInv, TypeOK
<1> USE <1>0 DEF ObjectType, stateVars, invVars, ConnectReturn, Take
<1>1. ASSUME NEW t \in Threads, ConnectLock(t) PROVE ObjectType'
  BY <1>1 DEF ConnectLock, SwapOut
<1>2. ASSUME NEW t \in Threads, ConnectPublish(t) PROVE ObjectType'
  <2>1. conns < MaxConns => conns + 1 \in Conns
    BY SMTT(30), ClientAssumption DEF ConnectionType, Conns
  <2> QED
    BY Zenon, <1>2, <2>1 DEF ConnectPublish
<1>3. ASSUME NEW t \in Threads, ConnectFail(t) PROVE ObjectType'
  BY <1>3 DEF ConnectFail, Fail
<1>4. ASSUME NEW t \in Threads, ConnectErase(t) PROVE ObjectType'
  BY Zenon, <1>4 DEF ConnectErase
<1>5. ASSUME NEW t \in Threads, CallFail(t) PROVE ObjectType'
  BY <1>5 DEF CallFail, Fail
<1>6. ASSUME NEW t \in Threads, End(t) PROVE ObjectType'
  <2>1. active > 0
    BY Zenon, <1>6, ActiveIsPositive DEF End
  <2> QED
    BY <1>6, <2>1 DEF End
<1>7. ASSUME NEW t \in Threads, ConnectBegin(t) PROVE ObjectType'
  BY <1>7 DEF ConnectBegin
<1>8. ASSUME NEW t \in Threads, CallBegin(t) PROVE ObjectType'
  BY <1>8 DEF CallBegin
<1>9. ASSUME NEW t \in Threads,
              ConnectShut(t) \/ ConnectResolve(t) \/ ConnectAddr(t) \/
              ConnectNoSocket(t) \/ ConnectNoFcntl(t) \/ ConnectClose(t) \/
              ConnectCheck(t) \/ ConnectSocket(t) \/ ConnectWait(t) \/ ConnectSoError(t)
              \/ ConnectAfter(t) \/ ConnectSettle(t) \/ ConnectPoll(t) \/
              ConnectAddrExpired(t) \/ ConnectExpired(t)
       PROVE  ObjectType'
  <2> HIDE DEF ObjectType
  <2>1. /\ UNCHANGED <<generation, connection, attempts, active, shuttingDown, dtor, dtorOld>>
        /\ callMutex' \in {callMutex, None}
    BY <1>9, ZenonT(30) DEF ConnectShut, ConnectResolve, ConnectAddr, ConnectNoSocket, ConnectNoFcntl,
     ConnectClose, ConnectCheck, ConnectSocket, ConnectWait, ConnectSoError,
     ConnectAfter, ConnectSettle, ConnectPoll, ConnectAddrExpired, ConnectExpired,
     NextAddress
  <2> QED
    BY Zenon, <2>1 DEF ObjectType
<1>10. ASSUME NEW t \in Threads,
              CallLock(t) \/ CallWait(t) \/ CallReadable(t) \/ SendPart(t) \/
              SendRest(t) \/ SendFails(t) \/ Recv(t) \/ RecvFails(t) \/
              TakeNotification(t) \/ TakeReply(t) \/ TakeBad(t) \/ CallNotify(t) \/
              CallSink(t) \/ CallPollFails(t) \/ CallWritable(t) \/ CallExpired(t)
       PROVE  ObjectType'
  <2> HIDE DEF ObjectType
  <2>1. /\ UNCHANGED <<generation, connection, attempts, active, shuttingDown, dtor, dtorOld>>
        /\ callMutex' \in {callMutex, None, t}
    BY <1>10, ZenonT(30) DEF CallLock, CallWait, CallReadable, SendPart, SendRest, SendFails, Recv,
     RecvFails, TakeNotification, TakeReply, TakeBad, CallNotify, CallSink,
     CallPollFails, CallWritable, CallExpired
  <2> QED
    BY Zenon, <2>1 DEF ObjectType
<1>11. ASSUME NEW c \in Conns,
              Shutdown(c) \/ PeerReply(c) \/ PeerNotify(c) \/ PeerClose(c)
       PROVE  ObjectType'
  BY Zenon, <1>11 DEF Shutdown, PeerReply, PeerNotify, PeerClose
<1>12. ASSUME NEW reason \in Reasons, Interrupt(reason) PROVE ObjectType'
  BY <1>12 DEF Interrupt, InterruptSection, SwapOut
<1>13. CASE DestroyMark
  BY Zenon, <1>13 DEF DestroyMark
<1>14. CASE DestroyInterrupt
  BY <1>14 DEF DestroyInterrupt, InterruptSection, SwapOut
<1>15. CASE DestroyWait
  BY Zenon, <1>15 DEF DestroyWait
<1> QED
  BY ZenonT(30), <1>1, <1>2, <1>3, <1>4, <1>5, <1>6, <1>7, <1>8, <1>9, <1>10, <1>11, <1>12, <1>13,
     <1>14, <1>15, ZenonT(30)
  DEF Next, Run, ConnectStep, CallStep, Environment, Expire, Peer, Destroy

\* A step keeps the type invariant.
LEMMA TypeOKStep == ClientInv /\ Next => TypeOK'
  BY Zenon, ObjectTypeStep, ConnectionTypeStep, PcTypeStep, ResTypeStep, LocalTypeStep,
     WireTypeStep, HistoryTypeStep DEF TypeOK, ControlType

-----------------------------------------------------------------------------
(* Every step preserves the other conjuncts of the invariant.              *)

\* A step keeps an interrupted attempt behind generation_, and no attempt ahead of it.
LEMMA GenerationsStep == ClientInv /\ Next => GenerationsOK'
<1> SUFFICES ASSUME ClientInv, Next, NEW u \in Threads PROVE GenerationOK(u)'
  BY Zenon DEF GenerationsOK
<1>0. /\ generation \in Nat /\ pc \in [Threads -> Locations] /\ oper \in [Threads -> Nat]
      /\ attemptIntr \in [Threads -> Reasons \cup {"none"}]
      /\ GenerationOK(u) /\ LocalsOK /\ DestructorOK
  BY Zenon DEF ClientInv, TypeOK, ObjectType, ControlType, LocalType, GenerationsOK
<1> USE <1>0 DEF GenerationOK, Goto, ConnectReturn, stateVars, invVars, connectVars, ConnectHeld
<1>1. ASSUME NEW t \in Threads, ConnectLock(t) PROVE GenerationOK(u)'
  <2>1. CASE shuttingDown \/ attemptIntr[t] # "none"
    BY Zenon, <1>1, <2>1 DEF ConnectLock
  <2>2. CASE ~(shuttingDown \/ attemptIntr[t] # "none")
    <3>1. dtor' = "alive"
      BY Zenon, <1>1, <2>2 DEF ConnectLock, DestructorOK
    <3>2. generation' = generation + 1 /\ UNCHANGED attemptIntr
      BY Zenon, <1>1, <2>2 DEF ConnectLock, SwapOut
    <3>3. oper'[u] = IF u = t THEN generation + 1 ELSE oper[u]
      BY Zenon, <1>1, <2>2 DEF ConnectLock
    <3>4. pc'[u] = IF u = t THEN "kShut" ELSE pc[u]
      BY Zenon, <1>1, <2>2 DEF ConnectLock
    <3> QED
      BY <2>2, <3>1, <3>2, <3>3, <3>4
  <2> QED
    BY Zenon, <2>1, <2>2
<1>2. ASSUME NEW t \in Threads, ConnectShut(t) PROVE GenerationOK(u)'
  BY Zenon, <1>2 DEF ConnectShut
<1>3. ASSUME NEW t \in Threads, ConnectResolve(t) PROVE GenerationOK(u)'
  BY Zenon, <1>3 DEF ConnectResolve
<1>4. ASSUME NEW t \in Threads, ConnectAddr(t) PROVE GenerationOK(u)'
  BY Zenon, <1>4 DEF ConnectAddr
<1>5. ASSUME NEW t \in Threads, ConnectNoSocket(t) PROVE GenerationOK(u)'
  BY Zenon, <1>5 DEF ConnectNoSocket, NextAddress
<1>6. ASSUME NEW t \in Threads, ConnectNoFcntl(t) PROVE GenerationOK(u)'
  BY Zenon, <1>6 DEF ConnectNoFcntl
<1>7. ASSUME NEW t \in Threads, ConnectClose(t) PROVE GenerationOK(u)'
  BY Zenon, <1>7 DEF ConnectClose, NextAddress
<1>8. ASSUME NEW t \in Threads, ConnectPublish(t) PROVE GenerationOK(u)'
  BY Zenon, <1>8 DEF ConnectPublish
<1>9. ASSUME NEW t \in Threads, ConnectCheck(t) PROVE GenerationOK(u)'
  BY Zenon, <1>9 DEF ConnectCheck
<1>10. ASSUME NEW t \in Threads, ConnectSocket(t) PROVE GenerationOK(u)'
  BY Zenon, <1>10 DEF ConnectSocket
<1>11. ASSUME NEW t \in Threads, ConnectWait(t) PROVE GenerationOK(u)'
  BY Zenon, <1>11 DEF ConnectWait, WaitInterrupted
<1>12. ASSUME NEW t \in Threads, ConnectSoError(t) PROVE GenerationOK(u)'
  BY Zenon, <1>12 DEF ConnectSoError
<1>13. ASSUME NEW t \in Threads, ConnectFail(t) PROVE GenerationOK(u)'
  <2>1. /\ generation' = generation \/ generation' = generation + 1
        /\ UNCHANGED <<oper, attemptIntr, dtor>>
        /\ pc'[u] = IF u = t THEN "kAfter" ELSE pc[u]
    BY Zenon, <1>13 DEF ConnectFail, Fail
  <2>2. oper[u] \in Nat /\ generation \in Nat
    BY Zenon
  <2> QED
    BY <1>13, <2>1, <2>2, SMTT(30) DEF ConnectFail
<1>14. ASSUME NEW t \in Threads, ConnectAfter(t) PROVE GenerationOK(u)'
  BY Zenon, <1>14 DEF ConnectAfter
<1>15. ASSUME NEW t \in Threads, ConnectSettle(t) PROVE GenerationOK(u)'
  BY <1>15, ZenonT(40) DEF ConnectSettle
<1>16. ASSUME NEW t \in Threads, ConnectErase(t) PROVE GenerationOK(u)'
  BY Zenon, <1>16 DEF ConnectErase
<1>17. ASSUME NEW t \in Threads, CallLock(t) PROVE GenerationOK(u)'
  BY Zenon, <1>17 DEF CallLock, Usable
<1>18. ASSUME NEW t \in Threads, CallWait(t) PROVE GenerationOK(u)'
  BY Zenon, <1>18 DEF CallWait, WaitInterrupted, Waiting
<1>19. ASSUME NEW t \in Threads, CallReadable(t) PROVE GenerationOK(u)'
  BY Zenon, <1>19 DEF CallReadable, WaitReady
<1>20. ASSUME NEW t \in Threads, SendPart(t) PROVE GenerationOK(u)'
  BY Zenon, <1>20 DEF SendPart
<1>21. ASSUME NEW t \in Threads, SendRest(t) PROVE GenerationOK(u)'
  BY Zenon, <1>21 DEF SendRest
<1>22. ASSUME NEW t \in Threads, SendFails(t) PROVE GenerationOK(u)'
  BY Zenon, <1>22 DEF SendFails
<1>23. ASSUME NEW t \in Threads, Recv(t) PROVE GenerationOK(u)'
  BY Zenon, <1>23 DEF Recv
<1>24. ASSUME NEW t \in Threads, RecvFails(t) PROVE GenerationOK(u)'
  BY Zenon, <1>24 DEF RecvFails
<1>25. ASSUME NEW t \in Threads, TakeNotification(t) PROVE GenerationOK(u)'
  BY Zenon, <1>25 DEF TakeNotification, Take
<1>26. ASSUME NEW t \in Threads, TakeReply(t) PROVE GenerationOK(u)'
  BY Zenon, <1>26 DEF TakeReply, Take
<1>27. ASSUME NEW t \in Threads, TakeBad(t) PROVE GenerationOK(u)'
  BY Zenon, <1>27 DEF TakeBad, Take
<1>28. ASSUME NEW t \in Threads, CallFail(t) PROVE GenerationOK(u)'
  <2>1. /\ generation' = generation \/ generation' = generation + 1
        /\ UNCHANGED <<oper, attemptIntr, dtor>>
        /\ pc'[u] = IF u = t THEN "cNotify" ELSE pc[u]
    BY Zenon, <1>28 DEF CallFail, Fail
  <2>2. oper[u] \in Nat /\ generation \in Nat
    BY Zenon
  <2> QED
    BY <1>28, <2>1, <2>2 DEF CallFail
<1>29. ASSUME NEW t \in Threads, CallNotify(t) PROVE GenerationOK(u)'
  BY Zenon, <1>29 DEF CallNotify
<1>30. ASSUME NEW t \in Threads, CallSink(t) PROVE GenerationOK(u)'
  BY Zenon, <1>30 DEF CallSink
<1>31. ASSUME NEW t \in Threads, End(t) PROVE GenerationOK(u)'
  <2>1. /\ UNCHANGED <<generation, dtor>>
        /\ u # t => oper'[u] = oper[u] /\ pc'[u] = pc[u] /\ attemptIntr'[u] = attemptIntr[u]
        /\ u = t => oper'[u] = 0 /\ pc'[u] = "idle" /\ attemptIntr'[u] = "none"
    BY Zenon, <1>31 DEF End
  <2>2. CASE u = t
    BY <2>1, <2>2
  <2>3. CASE u # t
    BY Zenon, <2>1, <2>3
  <2> QED
    BY Zenon, <2>2, <2>3
<1>32. ASSUME NEW t \in Threads, ConnectBegin(t) PROVE GenerationOK(u)'
  BY Zenon, <1>32 DEF ConnectBegin, LocalsOK, LocalOK, Registered
<1>33. ASSUME NEW t \in Threads, CallBegin(t) PROVE GenerationOK(u)'
  BY Zenon, <1>33 DEF CallBegin
<1>34. ASSUME NEW t \in Threads, ConnectPoll(t) PROVE GenerationOK(u)'
  BY Zenon, <1>34 DEF ConnectPoll, WaitReady, WaitFails
<1>35. ASSUME NEW t \in Threads, CallPollFails(t) PROVE GenerationOK(u)'
  BY Zenon, <1>35 DEF CallPollFails, WaitFails, Waiting
<1>36. ASSUME NEW t \in Threads, CallWritable(t) PROVE GenerationOK(u)'
  BY Zenon, <1>36 DEF CallWritable, WaitReady
<1>37. ASSUME NEW t \in Threads, ConnectAddrExpired(t) PROVE GenerationOK(u)'
  BY Zenon, <1>37 DEF ConnectAddrExpired
<1>38. ASSUME NEW t \in Threads, ConnectExpired(t) PROVE GenerationOK(u)'
  BY Zenon, <1>38 DEF ConnectExpired, WaitExpired
<1>39. ASSUME NEW t \in Threads, CallExpired(t) PROVE GenerationOK(u)'
  BY Zenon, <1>39 DEF CallExpired, WaitExpired, Waiting
<1>40. ASSUME NEW c \in Conns,
              Shutdown(c) \/ PeerReply(c) \/ PeerNotify(c) \/ PeerClose(c)
       PROVE  GenerationOK(u)'
  BY Zenon, <1>40 DEF Shutdown, PeerReply, PeerNotify, PeerClose
<1>41. ASSUME NEW reason \in Reasons, Interrupt(reason) PROVE GenerationOK(u)'
  <2>1. /\ generation' = generation + 1 /\ UNCHANGED <<oper, pc>>
        /\ u \notin attempts => attemptIntr'[u] = attemptIntr[u]
    BY Zenon, <1>41 DEF Interrupt, InterruptSection, SwapOut
  <2>2. pc[u] = "idle" => u \notin attempts
    BY Zenon DEF LocalsOK, LocalOK, Registered
  <2>3. oper[u] \in Nat /\ generation \in Nat
    BY Zenon
  <2> QED
    BY <2>1, <2>2, <2>3
<1>42. CASE DestroyMark
  BY Zenon, <1>42 DEF DestroyMark
<1>43. CASE DestroyInterrupt
  <2>1. /\ generation' = generation + 1 /\ UNCHANGED <<oper, pc>>
        /\ u \notin attempts => attemptIntr'[u] = attemptIntr[u]
    BY Zenon, <1>43 DEF DestroyInterrupt, InterruptSection, SwapOut
  <2>2. pc[u] = "idle" => u \notin attempts
    BY Zenon DEF LocalsOK, LocalOK, Registered
  <2>3. oper[u] \in Nat /\ generation \in Nat
    BY Zenon
  <2> QED
    BY <2>1, <2>2, <2>3, SMTT(30)
<1>44. CASE DestroyWait
  BY Zenon, <1>44 DEF DestroyWait
<1> QED
  BY <1>1, <1>2, <1>3, <1>4, <1>5, <1>6, <1>7, <1>8, <1>9, <1>10, <1>11, <1>12, <1>13,
     <1>14, <1>15, <1>16, <1>17, <1>18, <1>19, <1>20, <1>21, <1>22, <1>23, <1>24, <1>25,
     <1>26, <1>27, <1>28, <1>29, <1>30, <1>31, <1>32, <1>33, <1>34, <1>35, <1>36, <1>37,
     <1>38, <1>39, <1>40, <1>41, <1>42, <1>43, <1>44, ZenonT(30)
  DEF Next, Run, ConnectStep, CallStep, Environment, Expire, Peer, Destroy

\* A step keeps the destructor in order: closing first, then the wait, then the end.
LEMMA DestructorStep == ClientInv /\ Next => DestructorOK'
<1> SUFFICES ASSUME ClientInv, Next PROVE DestructorOK'
  BY Zenon
<1>0. DestructorOK /\ GenerationsOK /\ ObjectType /\ LocalType
  BY Zenon DEF ClientInv, TypeOK
<1> USE <1>0 DEF DestructorOK, stateVars, invVars, Take, ConnectReturn
<1>1. ASSUME NEW t \in Threads, ConnectLock(t) PROVE DestructorOK'
  BY Zenon, <1>1 DEF ConnectLock, SwapOut
<1>2. ASSUME NEW t \in Threads, ConnectPublish(t) PROVE DestructorOK'
  BY <1>2, SMTT(30) DEF ConnectPublish, GenerationsOK, GenerationOK, ObjectType, LocalType
<1>3. ASSUME NEW t \in Threads, ConnectFail(t) PROVE DestructorOK'
  BY Zenon, <1>3 DEF ConnectFail, Fail
<1>4. ASSUME NEW t \in Threads, CallFail(t) PROVE DestructorOK'
  BY Zenon, <1>4 DEF CallFail, Fail
<1>5. ASSUME NEW t \in Threads, End(t) PROVE DestructorOK'
  BY <1>5, ActiveIsPositive DEF End, ObjectType
<1>6. ASSUME NEW t \in Threads, ConnectBegin(t) PROVE DestructorOK'
  BY Zenon, <1>6 DEF ConnectBegin
<1>7. ASSUME NEW t \in Threads, CallBegin(t) PROVE DestructorOK'
  BY Zenon, <1>7 DEF CallBegin
<1>8. ASSUME NEW t \in Threads,
              ConnectShut(t) \/ ConnectResolve(t) \/ ConnectAddr(t) \/
              ConnectNoSocket(t) \/ ConnectNoFcntl(t) \/ ConnectClose(t) \/
              ConnectCheck(t) \/ ConnectSocket(t) \/ ConnectWait(t) \/ ConnectSoError(t)
              \/ ConnectAfter(t) \/ ConnectSettle(t) \/ ConnectErase(t) \/
              ConnectPoll(t) \/ ConnectAddrExpired(t) \/ ConnectExpired(t)
       PROVE  DestructorOK'
  <2> HIDE DEF DestructorOK
  <2>1. UNCHANGED <<dtor, shuttingDown, connection, active>>
    BY <1>8, ZenonT(30) DEF ConnectShut, ConnectResolve, ConnectAddr, ConnectNoSocket, ConnectNoFcntl,
     ConnectClose, ConnectCheck, ConnectSocket, ConnectWait, ConnectSoError,
     ConnectAfter, ConnectSettle, ConnectErase, ConnectPoll, ConnectAddrExpired,
     ConnectExpired
  <2> QED
    BY Zenon, <2>1 DEF DestructorOK
<1>9. ASSUME NEW t \in Threads,
              CallLock(t) \/ CallWait(t) \/ CallReadable(t) \/ SendPart(t) \/
              SendRest(t) \/ SendFails(t) \/ Recv(t) \/ RecvFails(t) \/
              TakeNotification(t) \/ TakeReply(t) \/ TakeBad(t) \/ CallNotify(t) \/
              CallSink(t) \/ CallPollFails(t) \/ CallWritable(t) \/ CallExpired(t)
       PROVE  DestructorOK'
  <2> HIDE DEF DestructorOK
  <2>1. UNCHANGED <<dtor, shuttingDown, connection, active>>
    BY <1>9, ZenonT(30) DEF CallLock, CallWait, CallReadable, SendPart, SendRest, SendFails, Recv,
     RecvFails, TakeNotification, TakeReply, TakeBad, CallNotify, CallSink,
     CallPollFails, CallWritable, CallExpired
  <2> QED
    BY Zenon, <2>1 DEF DestructorOK
<1>10. ASSUME NEW c \in Conns,
              Shutdown(c) \/ PeerReply(c) \/ PeerNotify(c) \/ PeerClose(c)
       PROVE  DestructorOK'
  BY Zenon, <1>10 DEF Shutdown, PeerReply, PeerNotify, PeerClose
<1>11. ASSUME NEW reason \in Reasons, Interrupt(reason) PROVE DestructorOK'
  BY Zenon, <1>11 DEF Interrupt, InterruptSection, SwapOut
<1>12. CASE DestroyMark
  BY Zenon, <1>12 DEF DestroyMark
<1>13. CASE DestroyInterrupt
  BY Zenon, <1>13 DEF DestroyInterrupt, InterruptSection, SwapOut
<1>14. CASE DestroyWait
  BY Zenon, <1>14 DEF DestroyWait
<1> QED
  BY <1>1, <1>2, <1>3, <1>4, <1>5, <1>6, <1>7, <1>8, <1>9, <1>10, <1>11, <1>12, <1>13,
     <1>14, ZenonT(30)
  DEF Next, Run, ConnectStep, CallStep, Environment, Expire, Peer, Destroy

\* Entering and leaving the client changes the number of threads inside by one.
LEMMA InsideStep ==
  ASSUME ClientInv, NEW t \in Threads, NEW l \in Locations, Goto(t, l)
  PROVE  Inside' = IF l = "idle" THEN Inside \ {t} ELSE Inside \cup {t}
  BY Zenon DEF Inside, Goto, ClientInv, TypeOK, ControlType

\* A thread that enters connect() or call() adds one to the threads inside.
LEMMA EnterCounts ==
  ASSUME ClientInv, NEW t \in Threads, pc[t] = "idle",
         NEW l \in Locations \ {"idle"}, Goto(t, l)
  PROVE  Cardinality(Inside') = Cardinality(Inside) + 1
<1>1. Inside' = Inside \cup {t}
  BY Zenon, InsideStep
<1>2. t \notin Inside
  BY Zenon DEF Inside
<1> QED
  BY ZenonT(40), <1>1, <1>2, InsideIsFinite, FS_AddElement

\* A thread that leaves connect() or call() takes one from the threads inside.
LEMMA LeaveCounts ==
  ASSUME ClientInv, NEW t \in Threads, pc[t] # "idle", Goto(t, "idle")
  PROVE  Cardinality(Inside') = Cardinality(Inside) - 1
<1>1. Inside' = Inside \ {t}
  BY Zenon, InsideStep, LocationFacts
<1>2. t \in Inside
  BY Zenon DEF Inside
<1> QED
  BY Zenon, <1>1, <1>2, InsideIsFinite, FS_RemoveElement

\* A step that moves no thread in or out, and leaves the counter alone, keeps the count.
LEMMA InsideFrame ==
  ASSUME ActiveCounts, active' = active,
         \A u \in Threads : pc'[u] = "idle" <=> pc[u] = "idle"
  PROVE  ActiveCounts'
<1>1. Inside' = Inside
  BY Zenon DEF Inside
<1> QED
  BY Zenon, <1>1 DEF ActiveCounts

\* A step keeps activeInvocations_ equal to the number of threads inside.
LEMMA ActiveStep == ClientInv /\ Next => ActiveCounts'
<1> SUFFICES ASSUME ClientInv, Next PROVE ActiveCounts'
  BY Zenon
<1>0. pc \in [Threads -> Locations] /\ ActiveCounts
  BY Zenon DEF ClientInv, TypeOK, ControlType
<1> USE <1>0 DEF invVars
<1>1. ASSUME NEW t \in Threads, ConnectLock(t) PROVE ActiveCounts'
  BY Zenon, <1>1, InsideFrame DEF ConnectLock, Goto, ConnectReturn
<1>2. ASSUME NEW t \in Threads, ConnectShut(t) PROVE ActiveCounts'
  BY Zenon, <1>2, InsideFrame DEF ConnectShut, Goto, ConnectReturn
<1>3. ASSUME NEW t \in Threads, ConnectResolve(t) PROVE ActiveCounts'
  BY Zenon, <1>3, InsideFrame DEF ConnectResolve, Goto, ConnectReturn
<1>4. ASSUME NEW t \in Threads, ConnectAddr(t) PROVE ActiveCounts'
  BY Zenon, <1>4, InsideFrame DEF ConnectAddr, Goto, ConnectReturn
<1>5. ASSUME NEW t \in Threads, ConnectNoSocket(t) PROVE ActiveCounts'
  BY Zenon, <1>5, InsideFrame DEF ConnectNoSocket, Goto, ConnectReturn,
     NextAddress
<1>6. ASSUME NEW t \in Threads, ConnectNoFcntl(t) PROVE ActiveCounts'
  BY Zenon, <1>6, InsideFrame DEF ConnectNoFcntl, Goto, ConnectReturn
<1>7. ASSUME NEW t \in Threads, ConnectClose(t) PROVE ActiveCounts'
  BY Zenon, <1>7, InsideFrame DEF ConnectClose, Goto, ConnectReturn,
     NextAddress
<1>8. ASSUME NEW t \in Threads, ConnectPublish(t) PROVE ActiveCounts'
  BY Zenon, <1>8, InsideFrame DEF ConnectPublish, Goto, ConnectReturn
<1>9. ASSUME NEW t \in Threads, ConnectCheck(t) PROVE ActiveCounts'
  BY Zenon, <1>9, InsideFrame DEF ConnectCheck, Goto, ConnectReturn
<1>10. ASSUME NEW t \in Threads, ConnectSocket(t) PROVE ActiveCounts'
  BY Zenon, <1>10, InsideFrame DEF ConnectSocket, Goto, ConnectReturn
<1>11. ASSUME NEW t \in Threads, ConnectWait(t) PROVE ActiveCounts'
  BY Zenon, <1>11, InsideFrame DEF ConnectWait, Goto, ConnectReturn,
     WaitInterrupted
<1>12. ASSUME NEW t \in Threads, ConnectSoError(t) PROVE ActiveCounts'
  BY Zenon, <1>12, InsideFrame DEF ConnectSoError, Goto, ConnectReturn
<1>13. ASSUME NEW t \in Threads, ConnectFail(t) PROVE ActiveCounts'
  BY Zenon, <1>13, InsideFrame DEF ConnectFail, Goto, ConnectReturn
<1>14. ASSUME NEW t \in Threads, ConnectAfter(t) PROVE ActiveCounts'
  BY Zenon, <1>14, InsideFrame DEF ConnectAfter, Goto, ConnectReturn
<1>15. ASSUME NEW t \in Threads, ConnectSettle(t) PROVE ActiveCounts'
  BY Zenon, <1>15, InsideFrame DEF ConnectSettle, Goto, ConnectReturn
<1>16. ASSUME NEW t \in Threads, ConnectErase(t) PROVE ActiveCounts'
  BY Zenon, <1>16, InsideFrame DEF ConnectErase, Goto, ConnectReturn
<1>17. ASSUME NEW t \in Threads, CallLock(t) PROVE ActiveCounts'
  BY Zenon, <1>17, InsideFrame DEF CallLock, Goto, ConnectReturn, Usable
<1>18. ASSUME NEW t \in Threads, CallWait(t) PROVE ActiveCounts'
  BY Zenon, <1>18, InsideFrame DEF CallWait, Goto, ConnectReturn,
     WaitInterrupted, Waiting
<1>19. ASSUME NEW t \in Threads, CallReadable(t) PROVE ActiveCounts'
  BY Zenon, <1>19, InsideFrame DEF CallReadable, Goto, ConnectReturn, WaitReady
<1>20. ASSUME NEW t \in Threads, SendPart(t) PROVE ActiveCounts'
  BY Zenon, <1>20, InsideFrame DEF SendPart, Goto, ConnectReturn
<1>21. ASSUME NEW t \in Threads, SendRest(t) PROVE ActiveCounts'
  BY Zenon, <1>21, InsideFrame DEF SendRest, Goto, ConnectReturn
<1>22. ASSUME NEW t \in Threads, SendFails(t) PROVE ActiveCounts'
  BY Zenon, <1>22, InsideFrame DEF SendFails, Goto, ConnectReturn
<1>23. ASSUME NEW t \in Threads, Recv(t) PROVE ActiveCounts'
  BY Zenon, <1>23, InsideFrame DEF Recv, Goto, ConnectReturn
<1>24. ASSUME NEW t \in Threads, RecvFails(t) PROVE ActiveCounts'
  BY <1>24, InsideFrame, ZenonT(40) DEF RecvFails, Goto, ConnectReturn
<1>25. ASSUME NEW t \in Threads, TakeNotification(t) PROVE ActiveCounts'
  BY Zenon, <1>25, InsideFrame DEF TakeNotification, Goto, ConnectReturn, Take
<1>26. ASSUME NEW t \in Threads, TakeReply(t) PROVE ActiveCounts'
  BY Zenon, <1>26, InsideFrame DEF TakeReply, Goto, ConnectReturn, Take
<1>27. ASSUME NEW t \in Threads, TakeBad(t) PROVE ActiveCounts'
  BY Zenon, <1>27, InsideFrame DEF TakeBad, Goto, ConnectReturn, Take
<1>28. ASSUME NEW t \in Threads, CallFail(t) PROVE ActiveCounts'
  BY Zenon, <1>28, InsideFrame DEF CallFail, Goto, ConnectReturn
<1>29. ASSUME NEW t \in Threads, CallNotify(t) PROVE ActiveCounts'
  BY Zenon, <1>29, InsideFrame DEF CallNotify, Goto, ConnectReturn
<1>30. ASSUME NEW t \in Threads, CallSink(t) PROVE ActiveCounts'
  BY Zenon, <1>30, InsideFrame DEF CallSink, Goto, ConnectReturn
<1>31. ASSUME NEW t \in Threads, End(t) PROVE ActiveCounts'
  <2>1. Cardinality(Inside') = Cardinality(Inside) - 1
    BY Zenon, <1>31, LeaveCounts DEF End
  <2> QED
    BY Zenon, <1>31, <2>1 DEF ActiveCounts, End
<1>32. ASSUME NEW t \in Threads, ConnectBegin(t) PROVE ActiveCounts'
  <2>1. CASE shuttingDown
    BY Zenon, <1>32, <2>1, InsideFrame DEF ConnectBegin
  <2>2. CASE ~shuttingDown
    <3>1. Cardinality(Inside') = Cardinality(Inside) + 1
      BY <1>32, <2>2, LocationFacts, EnterCounts, SMTT(30) DEF ConnectBegin
    <3> QED
      BY Zenon, <1>32, <2>2, <3>1 DEF ActiveCounts, ConnectBegin
  <2> QED
    BY Zenon, <2>1, <2>2
<1>33. ASSUME NEW t \in Threads, CallBegin(t) PROVE ActiveCounts'
  <2>1. CASE shuttingDown
    BY Zenon, <1>33, <2>1, InsideFrame DEF CallBegin
  <2>2. CASE ~shuttingDown
    <3>1. Cardinality(Inside') = Cardinality(Inside) + 1
      BY Zenon, <1>33, <2>2, LocationFacts, EnterCounts DEF CallBegin
    <3> QED
      BY Zenon, <1>33, <2>2, <3>1 DEF ActiveCounts, CallBegin
  <2> QED
    BY Zenon, <2>1, <2>2
<1>34. ASSUME NEW t \in Threads, ConnectPoll(t) PROVE ActiveCounts'
  BY Zenon, <1>34, InsideFrame DEF ConnectPoll, Goto, ConnectReturn, WaitReady,
     WaitFails
<1>35. ASSUME NEW t \in Threads, CallPollFails(t) PROVE ActiveCounts'
  BY Zenon, <1>35, InsideFrame DEF CallPollFails, Goto, ConnectReturn,
     WaitFails, Waiting
<1>36. ASSUME NEW t \in Threads, CallWritable(t) PROVE ActiveCounts'
  BY Zenon, <1>36, InsideFrame DEF CallWritable, Goto, ConnectReturn, WaitReady
<1>37. ASSUME NEW t \in Threads, ConnectAddrExpired(t) PROVE ActiveCounts'
  BY Zenon, <1>37, InsideFrame DEF ConnectAddrExpired, Goto, ConnectReturn
<1>38. ASSUME NEW t \in Threads, ConnectExpired(t) PROVE ActiveCounts'
  BY Zenon, <1>38, InsideFrame DEF ConnectExpired, Goto, ConnectReturn,
     WaitExpired
<1>39. ASSUME NEW t \in Threads, CallExpired(t) PROVE ActiveCounts'
  BY Zenon, <1>39, InsideFrame DEF CallExpired, Goto, ConnectReturn,
     WaitExpired, Waiting
<1>40. ASSUME NEW c \in Conns,
              Shutdown(c) \/ PeerReply(c) \/ PeerNotify(c) \/ PeerClose(c)
       PROVE  ActiveCounts'
  BY Zenon, <1>40, InsideFrame DEF Shutdown, PeerReply, PeerNotify, PeerClose
<1>41. ASSUME NEW reason \in Reasons, Interrupt(reason) PROVE ActiveCounts'
  BY Zenon, <1>41, InsideFrame DEF Interrupt, InterruptSection
<1>42. CASE DestroyMark
  BY Zenon, <1>42, InsideFrame DEF DestroyMark
<1>43. CASE DestroyInterrupt
  BY Zenon, <1>43, InsideFrame DEF DestroyInterrupt, InterruptSection
<1>44. CASE DestroyWait
  BY Zenon, <1>44, InsideFrame DEF DestroyWait
<1> QED
  BY <1>1, <1>2, <1>3, <1>4, <1>5, <1>6, <1>7, <1>8, <1>9, <1>10, <1>11, <1>12, <1>13,
     <1>14, <1>15, <1>16, <1>17, <1>18, <1>19, <1>20, <1>21, <1>22, <1>23, <1>24, <1>25,
     <1>26, <1>27, <1>28, <1>29, <1>30, <1>31, <1>32, <1>33, <1>34, <1>35, <1>36, <1>37,
     <1>38, <1>39, <1>40, <1>41, <1>42, <1>43, <1>44, ZenonT(30)
  DEF Next, Run, ConnectStep, CallStep, Environment, Expire, Peer, Destroy

-----------------------------------------------------------------------------
(* Theorems                                                                *)

\* The invariant holds of a new object.
LEMMA InitClientInv == Init => ClientInv
<1> SUFFICES ASSUME Init PROVE ClientInv
  BY Zenon
<1>1. TypeOK
  <2>1. ObjectType
    BY ZenonT(40) DEF Init, ObjectType
  <2>2. ConnectionType
    BY ClientAssumption DEF Init, ConnectionType
  <2>3. ControlType /\ LocalType
    BY ClientAssumption, LocationFacts DEF Init, ControlType, LocalType
  <2>4. WireType
    BY DEF Init, WireType
  <2>5. HistoryType
    BY Zenon DEF Init, HistoryType
  <2> QED
    BY Zenon, <2>1, <2>2, <2>3, <2>4, <2>5 DEF TypeOK
<1>2. LocalsOK /\ UsersOK /\ GenerationsOK
  <2>1. LocalsOK
    BY Zenon, ClientAssumption
    DEF Init, LocalsOK, LocalOK, Held, Registered, WithConnection, Unpublished, ConnectHeld, CallHeld
  <2>2. UsersOK
    BY Zenon, ClientAssumption DEF Init, UsersOK, UserOK, Held, WithConnection, ConnectHeld, CallHeld
  <2>3. GenerationsOK
    BY ClientAssumption DEF Init, GenerationsOK, GenerationOK, Registered
  <2> QED
    BY Zenon, <2>1, <2>2, <2>3
<1>3. ConnectionsOK /\ PublishedIsCurrent /\ DestructorOK
  BY ClientAssumption DEF Init, ConnectionsOK, PublishedIsCurrent, DestructorOK, Conns
<1>4. ActiveCounts
  <2>1. Inside = {}
    BY Zenon DEF Init, Inside
  <2> QED
    BY Zenon, <2>1, FS_EmptySet DEF Init, ActiveCounts
<1> QED
  BY Zenon, <1>1, <1>2, <1>3, <1>4 DEF ClientInv

\* The invariant is inductive.
LEMMA NextClientInv == ClientInv /\ [Next]_vars => ClientInv'
<1> SUFFICES ASSUME ClientInv, [Next]_vars PROVE ClientInv'
  BY Zenon
<1>1. CASE Next
  BY SMTT(30), <1>1, TypeOKStep, LocalsStep, ConnectionsStep, UsersStep, PublishedStep,
     GenerationsStep, DestructorStep, ActiveStep DEF ClientInv
<1>2. CASE UNCHANGED vars
  <2> USE <1>2 DEF vars, stateVars, invVars, connVars, connectVars, callVars, wireVars,
                  histVars
  <2>1. TypeOK'
    BY ZenonT(40) DEF ClientInv, TypeOK, ObjectType, ConnectionType, ControlType, LocalType,
           WireType, HistoryType
  <2>2. LocalsOK' /\ UsersOK' /\ GenerationsOK'
    BY ZenonT(40) DEF ClientInv, LocalsOK, LocalOK, UsersOK, UserOK, GenerationsOK, GenerationOK
  <2>3. ConnectionsOK' /\ PublishedIsCurrent' /\ DestructorOK' /\ ActiveCounts'
    BY Zenon DEF ClientInv, ConnectionsOK, PublishedIsCurrent, DestructorOK, ActiveCounts, Inside
  <2> QED
    BY Zenon, <2>1, <2>2, <2>3 DEF ClientInv
<1> QED
  BY Zenon, <1>1, <1>2

\* The inductive invariant holds in every reachable state.
THEOREM ClientInvariant == Spec => []ClientInv
  BY InitClientInv, NextClientInv, PTL DEF Spec

\* The variables of the client keep their types; in particular activeInvocations_
\* never goes below zero and connect() never runs past the last address.
THEOREM ClientTypes == Spec => []TypeOK
<1>1. ClientInv => TypeOK
  BY Zenon DEF ClientInv
<1> QED
  BY <1>1, ClientInvariant, PTL

\* The published connection is always of the current generation, unmarked and not
\* shut down: interrupt(), connect() and fail() cannot leave a retired one behind.
THEOREM PublishedConnectionIsCurrent == Spec => []PublishedIsCurrent
<1>1. ClientInv => PublishedIsCurrent
  BY Zenon DEF ClientInv
<1> QED
  BY <1>1, ClientInvariant, PTL

\* A candidate that failed to connect is marked when connect() looks at it, so that
\* the loop over the addresses always ends there.
THEOREM FailedCandidatesAreMarked == Spec => []FailedCandidateIsMarked
<1>1. ClientInv => FailedCandidateIsMarked
  <2> SUFFICES ASSUME ClientInv, NEW t \in Threads, pc[t] = "kAfter"
               PROVE  cIntr[cur[t]] # "none" /\ connection # cur[t]
    BY ZenonT(40) DEF FailedCandidateIsMarked
  <2>1. cur[t] \in Conns
    BY ZenonT(40) DEF ClientInv, TypeOK, LocalType, LocalsOK, LocalOK, WithConnection, Unpublished,
           ConnectHeld, CallHeld
  <2>2. cur[t] <= conns /\ connection # cur[t]
    BY <2>1, ClientAssumption DEF ClientInv, UsersOK, UserOK, Conns
  <2> QED
    BY <2>1, <2>2, ZenonT(40) DEF ClientInv, ConnectionsOK
<1> QED
  BY <1>1, ClientInvariant, PTL

\* The destructor of TcpRpcClient returns to a client nobody is inside of, and no
\* connect() it overtook has left a connection behind.
THEOREM DestructorIsLast == Spec => []DestroyedIsQuiescent
<1>1. ClientInv => DestroyedIsQuiescent
  <2> SUFFICES ASSUME ClientInv, dtor = "destroyed"
               PROVE  /\ \A t \in Threads : pc[t] = "idle"
                      /\ connection = None /\ attempts = {} /\ callMutex = None
    BY Zenon DEF DestroyedIsQuiescent
  <2>1. active = 0 /\ connection = None
    BY Zenon DEF ClientInv, DestructorOK
  <2>2. \A t \in Threads : pc[t] = "idle"
    BY SMTT(30), <2>1, ActiveIsPositive
  <2>3. attempts = {} /\ callMutex = None
    BY Zenon, <2>2 DEF ClientInv, TypeOK, ObjectType, LocalsOK, LocalOK, Held, Registered,
                ConnectHeld, CallHeld
  <2> QED
    BY Zenon, <2>1, <2>2, <2>3
<1> QED
  BY <1>1, ClientInvariant, PTL

=============================================================================
