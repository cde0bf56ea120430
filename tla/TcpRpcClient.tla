---------------------------- MODULE TcpRpcClient ----------------------------
(***************************************************************************)
(* The Qt-free RPC client, rpc/pbrpc_client_core.cpp: any number of        *)
(* threads connect and call over one TcpRpcClient while other threads      *)
(* disconnect, cancel or destroy it.                                       *)
(*                                                                         *)
(* A step of the model is one critical section of invocationMutex_ and     *)
(* stateMutex_ (nested in that order, never held across a blocking call),  *)
(* or one system call.  callMutex_ is held across blocking calls and is    *)
(* therefore a variable.  Frames travel whole: the bytes of a frame that   *)
(* recv() has not completed yet are still the wire's.                      *)
(***************************************************************************)
EXTENDS Integers, Sequences, FiniteSets

CONSTANTS
  Threads,     \* threads that use the client
  None,        \* null connection_, unlocked callMutex_
  Addresses,   \* number of addresses getaddrinfo() returns
  MaxOps,      \* bound: connect() and call() invocations
  MaxConns,    \* bound: sockets created
  MaxIntr,     \* bound: disconnect() and cancel() invocations
  MaxNotices   \* bound: notifications sent by the peer

ASSUME ClientAssumption ==
  /\ IsFiniteSet(Threads) /\ None \notin Threads /\ None \notin Nat
  /\ Addresses \in Nat \ {0}
  /\ MaxOps \in Nat /\ MaxConns \in Nat /\ MaxIntr \in Nat /\ MaxNotices \in Nat

Conns == 1..MaxConns

VARIABLES
  generation,    \* generation_
  connection,    \* connection_
  callMutex,     \* holder of callMutex_
  attempts,      \* connectAttempts_: the threads whose attempt is registered
  active,        \* activeInvocations_
  shuttingDown,  \* shuttingDown_
  dtor,          \* progress of the destructor
  dtorOld        \* the connection the destructor's interrupt() swapped out

VARIABLES
  conns,         \* number of Connection objects created so far
  cGen,          \* Connection::generation
  cState,        \* Connection::state
  cIntr,         \* Connection::interrupted ("none" is 0)
  cShut,         \* shutdown(fd) was called
  toShut         \* connections interrupt() swapped out, shutdown(fd) to come

VARIABLES
  pc,            \* where each thread is
  res,           \* error of the Result the invocation will return
  cur,           \* the thread's local shared_ptr: candidate or connection
  oper,          \* connect(): local `operation`
  addr,          \* connect(): addresses tried so far
  attemptIntr,   \* connect(): ConnectAttempt::interrupted
  req,           \* call(): number of the request sent (0: none yet)
  answered,      \* call(): number of the request the accepted reply answers
  notices        \* call(): notifications read, callbacks to come

VARIABLES
  peerUp,        \* the peer has accepted the connection and not closed it
  partial,       \* a request is on the wire in part
  asked,         \* requests the peer has not answered
  inbox,         \* frames sent by the peer, not received yet
  pending,       \* Connection::pending: frames received, not parsed yet
  taken,         \* notifications parsed by some call()
  delivered,     \* notifications handed to the callback
  ops, intrs, sent, noted  \* counts of invocations, interrupts, requests, notifications

stateVars == <<generation, connection>>
invVars   == <<attempts, active, shuttingDown, dtor, dtorOld>>
connVars  == <<conns, cGen, cState, cIntr, cShut, toShut>>
connectVars == <<oper, addr, attemptIntr>>
callVars  == <<req, answered, notices>>
wireVars  == <<peerUp, partial, asked, inbox, pending>>
histVars  == <<taken, delivered, ops, intrs, sent, noted>>
vars == <<stateVars, callMutex, invVars, connVars, pc, res, cur, connectVars,
          callVars, wireVars, histVars>>

Reasons == {"Canceled", "Disconnected"}
Errors  == Reasons \cup {"Timeout", "Transport", "Remote", "Protocol", "InvalidProtobuf"}
\* "Malformed": a bad type, length or method id; "Garbled": a body that does not parse
Replies == {"Response", "Error", "Blob", "Malformed", "Garbled"}
Frames  == [kind : Replies \cup {"Notification"}, id : Nat]

ConnectHeld == {"kShut", "kResolve", "kAddr", "kSocket", "kClose", "kCheck", "kConnect",
                "kWait", "kSoError", "kFail", "kAfter", "kSettle"}
CallHeld == {"cWrite", "cSend", "cRead", "cRecv", "cFail"}
Locations == ConnectHeld \cup CallHeld \cup
             {"idle", "kLock", "kErase", "cLock", "cNotify", "end"}

Init ==
  /\ generation = 0 /\ connection = None /\ callMutex = None
  /\ attempts = {} /\ active = 0 /\ shuttingDown = FALSE
  /\ dtor = "alive" /\ dtorOld = None
  /\ conns = 0 /\ toShut = {}
  /\ cGen = [c \in Conns |-> 0] /\ cState = [c \in Conns |-> "Connecting"]
  /\ cIntr = [c \in Conns |-> "none"] /\ cShut = [c \in Conns |-> FALSE]
  /\ pc = [t \in Threads |-> "idle"] /\ res = [t \in Threads |-> "ok"]
  /\ cur = [t \in Threads |-> None]
  /\ oper = [t \in Threads |-> 0] /\ addr = [t \in Threads |-> 0]
  /\ attemptIntr = [t \in Threads |-> "none"]
  /\ req = [t \in Threads |-> 0] /\ answered = [t \in Threads |-> 0]
  /\ notices = [t \in Threads |-> <<>>]
  /\ peerUp = [c \in Conns |-> FALSE] /\ partial = [c \in Conns |-> FALSE]
  /\ asked = [c \in Conns |-> <<>>] /\ inbox = [c \in Conns |-> <<>>]
  /\ pending = [c \in Conns |-> <<>>]
  /\ taken = {} /\ delivered = {}
  /\ ops = 0 /\ intrs = 0 /\ sent = 0 /\ noted = 0

-----------------------------------------------------------------------------
(* Shared by the handlers.                                                 *)

Goto(t, l) == pc' = [pc EXCEPT ![t] = l]
Return(t, e) == res' = [res EXCEPT ![t] = e]

\* compare_exchange_strong(0, reason)
FirstReason(old, reason) == IF old = "none" THEN reason ELSE old

\* connectInterrupted(): the attempt's reason, Disconnected if it has none
ConnectInterrupted(t) == FirstReason(attemptIntr[t], "Disconnected")

\* connection_ is swapped out and its interrupted flag set unless already set
SwapOut(reason) ==
  /\ generation' = generation + 1
  /\ connection' = None
  /\ cIntr' = [c \in Conns |-> IF c = connection THEN FirstReason(cIntr[c], reason)
                                                 ELSE cIntr[c]]

\* poll() reports an error, a hang-up or the end of the stream.
Dead(c) == cShut[c] \/ ~peerUp[c]

\* What call() asks of connection_, and what connected() reports
Usable == connection # None /\ cState[connection] = "Connected"
connected == Usable /\ cIntr[connection] = "none"

\* fail(detach = true) with the error chosen in res.  The holder of callMutex_ is
\* the only user of the socket once connection_ no longer names it, so its
\* shutdown(fd), which follows the critical section, is part of the step.
Fail(t) ==
  IF connection = cur[t]
    THEN /\ generation' = generation + 1
         /\ connection' = None
         /\ cIntr' = [cIntr EXCEPT ![cur[t]] = res[t]]
         /\ cShut' = [cShut EXCEPT ![cur[t]] = TRUE]
    ELSE UNCHANGED <<generation, connection, cIntr, cShut>>

\* wait(): the connection is interrupted
WaitInterrupted(t, l) ==
  /\ cIntr[cur[t]] # "none"
  /\ Return(t, cIntr[cur[t]]) /\ Goto(t, l)

\* wait(): the deadline has passed; fail(), a critical section of its own, follows
WaitExpired(t, failed) ==
  /\ cIntr[cur[t]] = "none"
  /\ Return(t, "Timeout") /\ Goto(t, failed)

\* wait(): poll() fails, or reports an error or hang-up and none of `events`
WaitFails(t, failed) ==
  /\ cIntr[cur[t]] = "none"
  /\ \/ Return(t, "Transport")
     \/ Dead(cur[t]) /\ Return(t, "Disconnected")
  /\ Goto(t, failed)

\* wait(): one of `events` is reported
WaitReady(t, l) ==
  /\ cIntr[cur[t]] = "none"
  /\ Goto(t, l) /\ UNCHANGED res

-----------------------------------------------------------------------------
(* disconnect(), cancel() and the destructor                               *)

\* The critical section of interrupt()
InterruptSection(reason) ==
  /\ attemptIntr' = [t \in Threads |-> IF t \in attempts
                       THEN FirstReason(attemptIntr[t], reason) ELSE attemptIntr[t]]
  /\ SwapOut(reason)
  /\ toShut' = toShut \cup ({connection} \ {None})
  /\ UNCHANGED <<callMutex, attempts, active, conns, cGen, cState, cShut, pc, res, cur,
                 oper, addr, callVars, wireVars, taken, delivered, ops, sent,
                 noted>>

Interrupt(reason) ==
  /\ dtor # "destroyed" /\ intrs < MaxIntr
  /\ intrs' = intrs + 1
  /\ InterruptSection(reason)
  /\ UNCHANGED <<shuttingDown, dtor, dtorOld>>

\* interrupt() after its critical section
Shutdown(c) ==
  /\ c \in toShut
  /\ toShut' = toShut \ {c}
  /\ cShut' = [cShut EXCEPT ![c] = TRUE]
  /\ UNCHANGED <<stateVars, callMutex, invVars, conns, cGen, cState, cIntr, pc, res, cur,
                 connectVars, callVars, wireVars, histVars>>

DestroyMark ==
  /\ dtor = "alive"
  /\ shuttingDown' = TRUE /\ dtor' = "marked"
  /\ UNCHANGED <<stateVars, callMutex, attempts, active, dtorOld, connVars, pc, res, cur,
                 connectVars, callVars, wireVars, histVars>>

\* Mutant of DestroyInterrupt: running invocations are left alone.
DestroyNoInterrupt ==
  /\ dtor = "marked"
  /\ dtor' = "waiting"
  /\ UNCHANGED <<stateVars, callMutex, attempts, active, shuttingDown, dtorOld, connVars,
                 pc, res, cur, connectVars, callVars, wireVars, histVars>>

DestroyInterrupt ==
  /\ dtor = "marked"
  /\ dtor' = "waiting" /\ dtorOld' = connection
  /\ InterruptSection("Disconnected")
  /\ UNCHANGED <<shuttingDown, intrs>>

\* Mutant of DestroyWait: activeInvocations_ is not waited for.
DestroyNoWait ==
  /\ dtor = "waiting" /\ dtorOld \notin toShut
  /\ dtor' = "destroyed"
  /\ UNCHANGED <<stateVars, callMutex, attempts, active, shuttingDown, dtorOld, connVars,
                 pc, res, cur, connectVars, callVars, wireVars, histVars>>

DestroyWait ==
  /\ dtor = "waiting" /\ dtorOld \notin toShut /\ active = 0
  /\ dtor' = "destroyed"
  /\ UNCHANGED <<stateVars, callMutex, attempts, active, shuttingDown, dtorOld, connVars,
                 pc, res, cur, connectVars, callVars, wireVars, histVars>>

-----------------------------------------------------------------------------
(* connect()                                                               *)

\* beginConnectInvocation()
ConnectBegin(t) ==
  /\ pc[t] = "idle" /\ dtor # "destroyed" /\ ops < MaxOps
  /\ ops' = ops + 1
  /\ IF shuttingDown
       THEN Return(t, "Disconnected") /\ UNCHANGED <<active, attempts, pc>>
       ELSE /\ active' = active + 1
            /\ attempts' = attempts \cup {t}
            /\ Goto(t, "kLock") /\ UNCHANGED res
  /\ UNCHANGED <<stateVars, callMutex, shuttingDown, dtor, dtorOld, connVars, cur,
                 connectVars, callVars, wireVars, taken, delivered, intrs, sent, noted>>

\* callMutex_, then the section that retires the previous connection
ConnectLock(t) ==
  /\ pc[t] = "kLock" /\ callMutex = None
  /\ IF shuttingDown \/ attemptIntr[t] # "none"
       THEN /\ Return(t, ConnectInterrupted(t)) /\ Goto(t, "kErase")
            /\ UNCHANGED <<stateVars, callMutex, cIntr, cur, oper>>
       ELSE /\ callMutex' = t
            /\ SwapOut("Disconnected")
            /\ cur' = [cur EXCEPT ![t] = connection]
            /\ oper' = [oper EXCEPT ![t] = generation + 1]
            /\ Goto(t, "kShut") /\ UNCHANGED res
  /\ UNCHANGED <<invVars, conns, cGen, cState, cShut, toShut, addr, attemptIntr,
                 callVars, wireVars, histVars>>

ConnectShut(t) ==
  /\ pc[t] = "kShut"
  /\ cShut' = [c \in Conns |-> cShut[c] \/ c = cur[t]]
  /\ cur' = [cur EXCEPT ![t] = None]
  /\ Goto(t, "kResolve")
  /\ UNCHANGED <<stateVars, callMutex, invVars, conns, cGen, cState, cIntr, toShut, res,
                 connectVars, callVars, wireVars, histVars>>

\* connect() returns e and releases callMutex_.
ConnectReturn(t, e) == Return(t, e) /\ Goto(t, "kErase") /\ callMutex' = None

\* getaddrinfo(), and the check that follows it
ConnectResolve(t) ==
  /\ pc[t] = "kResolve"
  /\ IF generation # oper[t] \/ attemptIntr[t] # "none"
       THEN ConnectReturn(t, ConnectInterrupted(t))
       ELSE \/ ConnectReturn(t, "Transport")
            \/ Return(t, "Transport") /\ Goto(t, "kAddr") /\ UNCHANGED callMutex
  /\ UNCHANGED <<stateVars, invVars, connVars, cur, connectVars, callVars,
                 wireVars, histVars>>

\* Head of the loop over the addresses
ConnectAddr(t) ==
  /\ pc[t] = "kAddr"
  /\ IF addr[t] = Addresses THEN ConnectReturn(t, res[t])
     ELSE IF generation # oper[t] THEN ConnectReturn(t, ConnectInterrupted(t))
     ELSE Goto(t, "kSocket") /\ UNCHANGED <<res, callMutex>>
  /\ UNCHANGED <<stateVars, invVars, connVars, cur, connectVars, callVars,
                 wireVars, histVars>>

ConnectAddrExpired(t) ==
  /\ pc[t] = "kAddr" /\ addr[t] # Addresses /\ generation = oper[t]
  /\ ConnectReturn(t, "Timeout")
  /\ UNCHANGED <<stateVars, invVars, connVars, cur, connectVars, callVars, wireVars,
                 histVars>>

NextAddress(t) == addr' = [addr EXCEPT ![t] = @ + 1] /\ Goto(t, "kAddr")

\* socket() fails: next address unless the attempt is interrupted
ConnectNoSocket(t) ==
  /\ pc[t] = "kSocket"
  /\ IF attemptIntr[t] # "none"
       THEN ConnectReturn(t, ConnectInterrupted(t)) /\ UNCHANGED addr
       ELSE NextAddress(t) /\ UNCHANGED <<res, callMutex>>
  /\ UNCHANGED <<stateVars, invVars, connVars, cur, oper, attemptIntr, callVars,
                 wireVars, histVars>>

\* fcntl() fails: the attempt is read once to choose the result ...
ConnectNoFcntl(t) ==
  /\ pc[t] = "kSocket"
  /\ IF attemptIntr[t] # "none"
       THEN ConnectReturn(t, ConnectInterrupted(t))
       ELSE Goto(t, "kClose") /\ UNCHANGED <<res, callMutex>>
  /\ UNCHANGED <<stateVars, invVars, connVars, cur, connectVars, callVars,
                 wireVars, histVars>>

\* ... and once more, after close(fd), to choose between break and continue.
ConnectClose(t) ==
  /\ pc[t] = "kClose"
  /\ IF attemptIntr[t] # "none"
       THEN ConnectReturn(t, res[t]) /\ UNCHANGED addr
       ELSE NextAddress(t) /\ UNCHANGED <<res, callMutex>>
  /\ UNCHANGED <<stateVars, invVars, connVars, cur, oper, attemptIntr, callVars,
                 wireVars, histVars>>

\* Mutant of ConnectPublish: the generation is not checked again.
ConnectPublishUnchecked(t) ==
  /\ pc[t] = "kSocket" /\ conns < MaxConns
  /\ conns' = conns + 1
  /\ cGen' = [cGen EXCEPT ![conns + 1] = oper[t]]
  /\ connection' = conns + 1
  /\ cur' = [cur EXCEPT ![t] = conns + 1]
  /\ Goto(t, "kCheck")
  /\ UNCHANGED <<generation, callMutex, invVars, cState, cIntr, cShut, toShut, res,
                 connectVars, callVars, wireVars, histVars>>

\* The candidate is created and, if nothing interfered, published as connection_.
ConnectPublish(t) ==
  /\ pc[t] = "kSocket"
  /\ IF generation # oper[t]
       THEN /\ ConnectReturn(t, ConnectInterrupted(t))
            /\ UNCHANGED <<connection, conns, cGen, cur>>
       ELSE /\ conns < MaxConns
            /\ conns' = conns + 1
            /\ cGen' = [cGen EXCEPT ![conns + 1] = oper[t]]
            /\ connection' = conns + 1
            /\ cur' = [cur EXCEPT ![t] = conns + 1]
            /\ Goto(t, "kCheck") /\ UNCHANGED <<res, callMutex>>
  /\ UNCHANGED <<generation, invVars, cState, cIntr, cShut, toShut, connectVars,
                 callVars, wireVars, histVars>>

\* The two checks between publishing the candidate and ::connect()
ConnectCheck(t) ==
  /\ pc[t] = "kCheck"
  /\ IF \/ shuttingDown \/ connection # cur[t] \/ generation # oper[t]
        \/ cIntr[cur[t]] # "none"
       THEN ConnectReturn(t, ConnectInterrupted(t))
       ELSE Goto(t, "kConnect") /\ UNCHANGED <<res, callMutex>>
  /\ UNCHANGED <<stateVars, invVars, connVars, cur, connectVars, callVars,
                 wireVars, histVars>>

\* ::connect(): connected at once, in progress, or refused
ConnectSocket(t) ==
  /\ pc[t] = "kConnect"
  /\ \/ /\ Goto(t, "kSettle") /\ UNCHANGED res
        /\ peerUp' = [peerUp EXCEPT ![cur[t]] = TRUE]
     \/ Goto(t, "kWait") /\ UNCHANGED <<res, peerUp>>
     \/ Return(t, "Transport") /\ Goto(t, "kFail") /\ UNCHANGED peerUp
  /\ UNCHANGED <<stateVars, callMutex, invVars, connVars, cur, connectVars,
                 callVars, partial, asked, inbox, pending, histVars>>

\* wait(candidate, POLLOUT) in connect()
ConnectWait(t) ==
  /\ pc[t] = "kWait"
  /\ WaitInterrupted(t, "kAfter")
  /\ UNCHANGED <<stateVars, callMutex, invVars, connVars, cur, connectVars,
                 callVars, wireVars, histVars>>

ConnectExpired(t) ==
  /\ pc[t] = "kWait"
  /\ WaitExpired(t, "kFail")
  /\ UNCHANGED <<stateVars, callMutex, invVars, connVars, cur, connectVars, callVars,
                 wireVars, histVars>>

ConnectPoll(t) ==
  /\ pc[t] = "kWait"
  /\ WaitReady(t, "kSoError") \/ WaitFails(t, "kFail")
  /\ UNCHANGED <<stateVars, callMutex, invVars, connVars, cur, connectVars,
                 callVars, wireVars, histVars>>

\* getsockopt(SO_ERROR)
ConnectSoError(t) ==
  /\ pc[t] = "kSoError"
  /\ \/ /\ Goto(t, "kSettle") /\ UNCHANGED res
        /\ peerUp' = [peerUp EXCEPT ![cur[t]] = TRUE]
     \/ Return(t, "Transport") /\ Goto(t, "kFail") /\ UNCHANGED peerUp
  /\ UNCHANGED <<stateVars, callMutex, invVars, connVars, cur, connectVars,
                 callVars, partial, asked, inbox, pending, histVars>>

ConnectFail(t) ==
  /\ pc[t] = "kFail"
  /\ Fail(t) /\ Goto(t, "kAfter")
  /\ UNCHANGED <<callMutex, invVars, conns, cGen, cState, toShut, res, cur,
                 connectVars, callVars, wireVars, histVars>>

\* The socket did not connect.  The candidate is interrupted by now, by fail() if
\* by nobody else (FailedCandidateIsMarked), so the loop ends here: the statements
\* that would try the next address after a failed ::connect() are never reached.
ConnectAfter(t) ==
  /\ pc[t] = "kAfter"
  /\ ConnectReturn(t, IF attemptIntr[t] # "none" THEN ConnectInterrupted(t) ELSE res[t])
  /\ UNCHANGED <<stateVars, invVars, connVars, cur, connectVars, callVars,
                 wireVars, histVars>>

\* The socket connected.
ConnectSettle(t) ==
  /\ pc[t] = "kSettle"
  /\ IF connection # cur[t] \/ generation # oper[t] \/ cIntr[cur[t]] # "none"
       THEN ConnectReturn(t, ConnectInterrupted(t)) /\ UNCHANGED cState
       ELSE /\ cState' = [cState EXCEPT ![cur[t]] = "Connected"]
            /\ ConnectReturn(t, "ok")
  /\ UNCHANGED <<stateVars, invVars, conns, cGen, cIntr, cShut, toShut, cur,
                 connectVars, callVars, wireVars, histVars>>

\* endConnectInvocation(): the attempt is erased, then endInvocation()
ConnectErase(t) ==
  /\ pc[t] = "kErase"
  /\ attempts' = attempts \ {t}
  /\ Goto(t, "end")
  /\ UNCHANGED <<stateVars, callMutex, active, shuttingDown, dtor, dtorOld, connVars, res,
                 cur, connectVars, callVars, wireVars, histVars>>

\* endInvocation(); the locals of the invocation are gone
End(t) ==
  /\ pc[t] = "end"
  /\ active' = active - 1
  /\ Goto(t, "idle")
  /\ res' = [res EXCEPT ![t] = "ok"] /\ cur' = [cur EXCEPT ![t] = None]
  /\ oper' = [oper EXCEPT ![t] = 0] /\ addr' = [addr EXCEPT ![t] = 0]
  /\ attemptIntr' = [attemptIntr EXCEPT ![t] = "none"]
  /\ req' = [req EXCEPT ![t] = 0] /\ answered' = [answered EXCEPT ![t] = 0]
  /\ UNCHANGED <<stateVars, callMutex, attempts, shuttingDown, dtor, dtorOld, connVars,
                 notices, wireVars, histVars>>

-----------------------------------------------------------------------------
(* call()                                                                  *)

\* beginInvocation(), and tmpfile() for a call with a blob sink
CallBegin(t) ==
  /\ pc[t] = "idle" /\ dtor # "destroyed" /\ ops < MaxOps
  /\ ops' = ops + 1
  /\ IF shuttingDown
       THEN Return(t, "Disconnected") /\ UNCHANGED <<active, pc>>
       ELSE /\ active' = active + 1
            /\ \/ Goto(t, "cLock") /\ UNCHANGED res
               \/ Goto(t, "end") /\ Return(t, "Transport")
  /\ UNCHANGED <<stateVars, callMutex, attempts, shuttingDown, dtor, dtorOld, connVars, cur,
                 connectVars, callVars, wireVars, taken, delivered, intrs, sent,
                 noted>>

\* callMutex_, the snapshot of connection_, and the checks on the request
CallLock(t) ==
  /\ pc[t] = "cLock" /\ callMutex = None
  /\ \/ /\ ~Usable
        /\ Return(t, "Disconnected") /\ Goto(t, "end")
        /\ UNCHANGED <<callMutex, cur>>
     \/ /\ Usable
        /\ Return(t, "InvalidProtobuf") /\ Goto(t, "end")
        /\ UNCHANGED <<callMutex, cur>>
     \/ /\ Usable
        /\ callMutex' = t /\ cur' = [cur EXCEPT ![t] = connection]
        /\ Goto(t, "cWrite") /\ UNCHANGED res
  /\ UNCHANGED <<stateVars, invVars, connVars, connectVars, callVars, wireVars,
                 histVars>>

\* wait() in writeAll(), nextHeader() and readPayload().  The readers do not
\* wait while Connection::pending holds what they need.
Waiting(t) == pc[t] = "cWrite" \/ (pc[t] = "cRead" /\ pending[cur[t]] = <<>>)

\* An interrupted wait() returns the reason without fail(): call() goes on to its
\* callbacks.
CallWait(t) ==
  /\ Waiting(t)
  /\ WaitInterrupted(t, "cNotify") /\ callMutex' = None
  /\ UNCHANGED <<stateVars, invVars, connVars, cur, connectVars, callVars,
                 wireVars, histVars>>

\* Mutant of CallExpired: the call gives up and leaves the connection in place.
CallExpiredKeeps(t) ==
  /\ Waiting(t)
  /\ WaitExpired(t, "cNotify") /\ callMutex' = None
  /\ UNCHANGED <<stateVars, invVars, connVars, cur, connectVars, callVars, wireVars,
                 histVars>>

\* Mutant of CallExpired: poll() is called again.
CallExpiredRetries(t) == Waiting(t) /\ UNCHANGED vars

CallExpired(t) ==
  /\ Waiting(t)
  /\ WaitExpired(t, "cFail")
  /\ UNCHANGED <<stateVars, callMutex, invVars, connVars, cur, connectVars, callVars,
                 wireVars, histVars>>

CallPollFails(t) ==
  /\ Waiting(t)
  /\ WaitFails(t, "cFail")
  /\ UNCHANGED <<stateVars, callMutex, invVars, connVars, cur, connectVars,
                 callVars, wireVars, histVars>>

CallWritable(t) ==
  /\ pc[t] = "cWrite"
  /\ WaitReady(t, "cSend")
  /\ UNCHANGED <<stateVars, callMutex, invVars, connVars, cur, connectVars,
                 callVars, wireVars, histVars>>

CallReadable(t) ==
  /\ pc[t] = "cRead" /\ pending[cur[t]] = <<>>
  /\ inbox[cur[t]] # <<>> \/ Dead(cur[t])
  /\ WaitReady(t, "cRecv")
  /\ UNCHANGED <<stateVars, callMutex, invVars, connVars, cur, connectVars,
                 callVars, wireVars, histVars>>

\* send(): part of the request, or EAGAIN ...
SendPart(t) ==
  /\ pc[t] = "cSend" /\ ~cShut[cur[t]]
  /\ \/ partial' = [partial EXCEPT ![cur[t]] = TRUE]
     \/ UNCHANGED partial
  /\ Goto(t, "cWrite")
  /\ UNCHANGED <<stateVars, callMutex, invVars, connVars, res, cur, connectVars,
                 callVars, peerUp, asked, inbox, pending, histVars>>

\* ... the rest of it: a peer that has closed never sees it ...
SendRest(t) ==
  /\ pc[t] = "cSend" /\ ~cShut[cur[t]]
  /\ sent' = sent + 1 /\ req' = [req EXCEPT ![t] = sent + 1]
  /\ partial' = [partial EXCEPT ![cur[t]] = FALSE]
  /\ asked' = IF peerUp[cur[t]] THEN [asked EXCEPT ![cur[t]] = Append(@, sent + 1)]
                                ELSE asked
  /\ Goto(t, "cRead")
  /\ UNCHANGED <<stateVars, callMutex, invVars, connVars, res, cur, connectVars,
                 answered, notices, peerUp, inbox, pending, taken, delivered, ops, intrs,
                 noted>>

\* ... or an error
SendFails(t) ==
  /\ pc[t] = "cSend" /\ Dead(cur[t])
  /\ Return(t, "Transport") /\ Goto(t, "cFail")
  /\ UNCHANGED <<stateVars, callMutex, invVars, connVars, cur, connectVars,
                 callVars, wireVars, histVars>>

\* recv(): some of the frames that have arrived, or the end of the stream
Recv(t) ==
  /\ pc[t] = "cRecv"
  /\ \E n \in 1..Len(inbox[cur[t]]) :
       /\ pending' = [pending EXCEPT ![cur[t]] = @ \o SubSeq(inbox[cur[t]], 1, n)]
       /\ inbox' = [inbox EXCEPT ![cur[t]] = SubSeq(@, n + 1, Len(@))]
  /\ Goto(t, "cRead")
  /\ UNCHANGED <<stateVars, callMutex, invVars, connVars, res, cur, connectVars,
                 callVars, peerUp, partial, asked, histVars>>

RecvFails(t) ==
  /\ pc[t] = "cRecv" /\ inbox[cur[t]] = <<>>
  /\ \E e \in {"Transport", "Disconnected"} : Return(t, e)
  /\ Goto(t, "cFail")
  /\ UNCHANGED <<stateVars, callMutex, invVars, connVars, cur, connectVars,
                 callVars, wireVars, histVars>>

\* nextHeader() and readPayload() deliver the first pending frame.
Take(t) ==
  /\ pc[t] = "cRead" /\ pending[cur[t]] # <<>>
  /\ pending' = [pending EXCEPT ![cur[t]] = Tail(@)]
  /\ UNCHANGED <<stateVars, invVars, connVars, cur, connectVars, req, peerUp,
                 partial, asked, inbox, delivered, ops, intrs, sent, noted>>

TakeNotification(t) ==
  /\ Take(t)
  /\ LET frame == Head(pending[cur[t]]) IN
       /\ frame.kind = "Notification"
       /\ notices' = [notices EXCEPT ![t] = Append(@, frame.id)]
       /\ taken' = taken \cup {frame.id}
  /\ UNCHANGED <<callMutex, pc, res, answered>>

\* A reply that ends the call and leaves the connection as it is.  A blob is handed
\* to its sink after the callbacks; a spool that cannot be written fails the call.
TakeReply(t) ==
  /\ Take(t)
  /\ LET frame == Head(pending[cur[t]]) IN
       /\ \/ frame.kind = "Response" /\ Return(t, "ok")
          \/ frame.kind = "Error" /\ Return(t, "Remote")
          \/ frame.kind = "Blob" /\ Return(t, "Blob")
       /\ answered' = [answered EXCEPT ![t] = frame.id]
  /\ Goto(t, "cNotify") /\ callMutex' = None
  /\ UNCHANGED <<notices, taken>>

TakeBad(t) ==
  /\ Take(t)
  /\ LET kind == Head(pending[cur[t]]).kind IN
       \/ kind = "Malformed" /\ Return(t, "Protocol")
       \/ kind = "Garbled" /\ Return(t, "InvalidProtobuf")
       \/ kind = "Blob" /\ Return(t, "Transport")
  /\ Goto(t, "cFail")
  /\ UNCHANGED <<callMutex, notices, taken, answered>>

\* Mutant of CallFail: the error path returns before the callbacks.
CallFailReturns(t) ==
  /\ pc[t] = "cFail"
  /\ Fail(t)
  /\ Goto(t, "end") /\ callMutex' = None
  /\ UNCHANGED <<invVars, conns, cGen, cState, toShut, res, cur, connectVars, callVars,
                 wireVars, histVars>>

CallFail(t) ==
  /\ pc[t] = "cFail"
  /\ Fail(t)
  /\ Goto(t, "cNotify") /\ callMutex' = None
  /\ UNCHANGED <<invVars, conns, cGen, cState, toShut, res, cur, connectVars,
                 callVars, wireVars, histVars>>

\* notificationCallback_ for the next notice
CallNotify(t) ==
  /\ pc[t] = "cNotify" /\ notices[t] # <<>>
  /\ delivered' = delivered \cup {Head(notices[t])}
  /\ notices' = [notices EXCEPT ![t] = Tail(@)]
  /\ UNCHANGED <<stateVars, callMutex, invVars, connVars, pc, res, cur,
                 connectVars, req, answered, wireVars, taken, ops, intrs, sent, noted>>

\* The blob sink takes or rejects the blob; then call() returns.
CallSink(t) ==
  /\ pc[t] = "cNotify" /\ notices[t] = <<>>
  /\ IF res[t] = "Blob" THEN \E e \in {"ok", "Protocol"} : Return(t, e) ELSE UNCHANGED res
  /\ Goto(t, "end")
  /\ UNCHANGED <<stateVars, callMutex, invVars, connVars, cur, connectVars,
                 callVars, wireVars, histVars>>

-----------------------------------------------------------------------------
(* The peer                                                                *)

\* A server answers requests in order, each with one terminal frame.
PeerReply(c) ==
  /\ peerUp[c] /\ ~cShut[c] /\ asked[c] # <<>>
  /\ \E kind \in Replies :
       inbox' = [inbox EXCEPT ![c] = Append(@, [kind |-> kind, id |-> Head(asked[c])])]
  /\ asked' = [asked EXCEPT ![c] = Tail(@)]
  /\ UNCHANGED <<stateVars, callMutex, invVars, connVars, pc, res, cur,
                 connectVars, callVars, peerUp, partial, pending, histVars>>

PeerNotify(c) ==
  /\ peerUp[c] /\ ~cShut[c] /\ noted < MaxNotices
  /\ noted' = noted + 1
  /\ inbox' = [inbox EXCEPT ![c] = Append(@, [kind |-> "Notification", id |-> noted + 1])]
  /\ UNCHANGED <<stateVars, callMutex, invVars, connVars, pc, res, cur,
                 connectVars, callVars, peerUp, partial, asked, pending, taken, delivered,
                 ops, intrs, sent>>

\* The peer closes or resets the connection; a reset loses what was not received.
PeerClose(c) ==
  /\ peerUp[c]
  /\ peerUp' = [peerUp EXCEPT ![c] = FALSE]
  /\ \E n \in 0..Len(inbox[c]) : inbox' = [inbox EXCEPT ![c] = SubSeq(@, 1, n)]
  /\ asked' = [asked EXCEPT ![c] = <<>>]
  /\ UNCHANGED <<stateVars, callMutex, invVars, connVars, pc, res, cur,
                 connectVars, callVars, partial, pending, histVars>>

-----------------------------------------------------------------------------
\* Steps that a running thread takes without waiting for anybody but the holder of
\* callMutex_.  A callback or a sink is assumed to return.
ConnectStep(t) ==
  \/ ConnectLock(t) \/ ConnectShut(t) \/ ConnectResolve(t) \/ ConnectAddr(t)
  \/ ConnectNoSocket(t) \/ ConnectNoFcntl(t) \/ ConnectClose(t) \/ ConnectPublish(t)
  \/ ConnectCheck(t) \/ ConnectSocket(t) \/ ConnectWait(t) \/ ConnectSoError(t)
  \/ ConnectFail(t) \/ ConnectAfter(t) \/ ConnectSettle(t) \/ ConnectErase(t)

CallStep(t) ==
  \/ CallLock(t) \/ CallWait(t) \/ CallReadable(t) \/ SendPart(t) \/ SendRest(t)
  \/ SendFails(t) \/ Recv(t) \/ RecvFails(t) \/ TakeNotification(t) \/ TakeReply(t)
  \/ TakeBad(t) \/ CallFail(t) \/ CallNotify(t) \/ CallSink(t)

Run(t) == ConnectStep(t) \/ CallStep(t) \/ End(t)

\* The thread finds that its deadline has passed.
Expire(t) == ConnectAddrExpired(t) \/ ConnectExpired(t) \/ CallExpired(t)

\* Steps that depend on the caller, the kernel or the network
Environment(t) ==
  \/ ConnectBegin(t) \/ CallBegin(t) \/ ConnectPoll(t) \/ CallPollFails(t)
  \/ CallWritable(t) \/ Expire(t)

Destroy == DestroyMark \/ DestroyInterrupt \/ DestroyWait

Peer(c) == PeerReply(c) \/ PeerNotify(c) \/ PeerClose(c)

Next ==
  \/ \E t \in Threads : Run(t) \/ Environment(t)
  \/ \E c \in Conns : Shutdown(c) \/ Peer(c)
  \/ \E reason \in Reasons : Interrupt(reason)
  \/ Destroy

Spec == Init /\ [][Next]_vars

\* What the scheduler owes the program: a thread that can run does, and so do the
\* thread in interrupt() and the thread in the destructor.  Nothing is assumed of
\* the clock, the network or the peer.
Fairness ==
  /\ \A t \in Threads : WF_vars(Run(t))
  /\ \A c \in Conns : WF_vars(Shutdown(c))
  /\ WF_vars(DestroyInterrupt) /\ WF_vars(DestroyWait)

FairSpec == Spec /\ Fairness

\* Time passes as well: a thread that tests its deadline again and again finds it
\* passed.
TimePasses == \A t \in Threads : SF_vars(Expire(t))

-----------------------------------------------------------------------------
(* Properties                                                              *)

ObjectType ==
  /\ generation \in Nat /\ connection \in Conns \cup {None}
  /\ callMutex \in Threads \cup {None} /\ attempts \in SUBSET Threads
  /\ active \in Nat /\ shuttingDown \in BOOLEAN
  /\ dtor \in {"alive", "marked", "waiting", "destroyed"}
  /\ dtorOld \in Conns \cup {None}

ConnectionType ==
  /\ conns \in 0..MaxConns /\ toShut \in SUBSET Conns
  /\ cGen \in [Conns -> Nat] /\ cState \in [Conns -> {"Connecting", "Connected"}]
  /\ cIntr \in [Conns -> Errors \cup {"none"}] /\ cShut \in [Conns -> BOOLEAN]

ControlType ==
  /\ pc \in [Threads -> Locations]
  /\ res \in [Threads -> Errors \cup {"ok", "Blob"}]

LocalType ==
  /\ cur \in [Threads -> Conns \cup {None}]
  /\ oper \in [Threads -> Nat] /\ addr \in [Threads -> 0..Addresses]
  /\ attemptIntr \in [Threads -> Reasons \cup {"none"}]
  /\ req \in [Threads -> Nat] /\ answered \in [Threads -> Nat]
  /\ notices \in [Threads -> Seq(Nat)]

WireType ==
  /\ peerUp \in [Conns -> BOOLEAN] /\ partial \in [Conns -> BOOLEAN]
  /\ asked \in [Conns -> Seq(Nat)]
  /\ inbox \in [Conns -> Seq(Frames)] /\ pending \in [Conns -> Seq(Frames)]

HistoryType ==
  /\ taken \in SUBSET Nat /\ delivered \in SUBSET Nat
  /\ ops \in Nat /\ intrs \in Nat /\ sent \in Nat /\ noted \in Nat

\* Type invariant of the client, its connections, its threads and the wire
TypeOK ==
  ObjectType /\ ConnectionType /\ ControlType /\ LocalType /\ WireType /\ HistoryType

\* A published connection belongs to the current generation, nobody has
\* interrupted it or shut its socket down: interrupt(), connect() and fail() all
\* retire connection_ and advance generation_ in the critical section that marks it.
PublishedIsCurrent ==
  connection # None =>
    /\ cGen[connection] = generation
    /\ cIntr[connection] = "none" /\ ~cShut[connection]

Unanswered(c) == {f \in 1..Len(inbox[c] \o pending[c]) :
                    (inbox[c] \o pending[c])[f].kind # "Notification"}

\* The reply a call() accepts answers the request that call() sent, although the client
\* matches replies by method id only: at most one request is pending on the wire, and a
\* call that gives up on its reply takes the connection down with it.  So a connection
\* that the next call() may use has no trace of an earlier one: no torn request, no
\* unanswered request, no reply on its way or in Connection::pending.
AnswerIsOwn ==
  /\ \A t \in Threads : answered[t] # 0 => answered[t] = req[t]
  /\ \A c \in Conns :
       Len(asked[c]) + Cardinality(Unanswered(c)) + (IF partial[c] THEN 1 ELSE 0) <= 1
  /\ connected /\ (\A t \in Threads : ~(pc[t] \in CallHeld /\ cur[t] = connection))
       => /\ ~partial[connection] /\ asked[connection] = <<>>
          /\ Unanswered(connection) = {}

\* Every notification some call() parsed is either delivered or still owed to the
\* callback by one call: a call that ends in an error delivers what it read.
NoticesAccounted ==
  LET owed(t) == {notices[t][i] : i \in DOMAIN notices[t]}
  IN /\ taken = delivered \cup UNION {owed(t) : t \in Threads}
     /\ \A t \in Threads : owed(t) \cap delivered = {} /\ (pc[t] = "idle" => owed(t) = {})

\* A candidate whose socket did not connect has been marked by whoever retired it,
\* which is why connect() gives up at the first address it could try.
FailedCandidateIsMarked ==
  \A t \in Threads : pc[t] = "kAfter" => cIntr[cur[t]] # "none" /\ connection # cur[t]

\* The destructor returns only when no invocation is left, and leaves nothing behind:
\* a connect() it overtook does not publish a connection afterwards.
DestroyedIsQuiescent ==
  dtor = "destroyed" =>
    /\ \A t \in Threads : pc[t] = "idle"
    /\ connection = None /\ attempts = {} /\ callMutex = None

\* Whatever the peer does, the destructor comes back.
DestructorReturns == dtor = "marked" ~> dtor = "destroyed"

\* Every connect() and call() returns once its deadline passes, even if the peer is
\* silent and nobody interrupts it.
InvocationReturns ==
  TimePasses => \A t \in Threads : pc[t] # "idle" ~> pc[t] = "idle"

=============================================================================
