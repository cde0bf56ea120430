------------------------- MODULE TcpRpcServerProofs -------------------------
(***************************************************************************)
(* The theorems about TcpRpcServer: ServerInv is an invariant, nobody uses *)
(* a descriptor that was closed, and the server implements RpcPeer on      *)
(* every connection.                                                       *)
(***************************************************************************)
EXTENDS TcpRpcServerSteps, FiniteSetTheorems

-----------------------------------------------------------------------------
(* After the answer, Connection::run() and process() preserve the          *)
(* invariant                                                               *)

\* The answer cannot be sent.
LEMMA ReplySendFailsKeeps ==
  ASSUME ServerInv, NEW c \in Conns, ReplySendFails(c)
  PROVE  ServerInv'
<1>1. /\ pc[c] = "replySend" /\ ~Alive(c)
      /\ pc' = [pc EXCEPT ![c] = "replyFailed"]
      /\ writeMutex' = [writeMutex EXCEPT ![c] = None]
  BY Zenon DEF ReplySendFails, Goto
<1>2. UNCHANGED <<running, listening, mainPc, mainTodo, acceptPc, accepted, listed, fd,
                  sock, closed, compatible, notifications, frames, reply, todo, peers,
                  peer, inq, out, torn, asked, said, sent, casts, starts>>
  BY Zenon DEF ReplySendFails, serverVars, sockVars, flagVars, wireVars, boundVars
<1>3. SocketOK(c)
  BY Zenon DEF ServerInv, SocketsOK
<1>4. HolderOK(c)
  BY Zenon, WriterFacts DEF ServerInv, HoldersOK
<1>5. ServerTypes' /\ RequestTypes' /\ WireTypes' /\ OrderOK'
  BY Zenon, <1>2, SameServerTypes, SameRequestTypes, SameWireTypes, SameOrderOK DEF ServerInv,
     TypeOK
<1>6. SocketTypes'
  BY Zenon, <1>1, <1>2, <1>3, <1>4, WriterFacts DEF ServerInv, TypeOK, SocketTypes
<1>7. ThreadTypes'
  <2>1. /\ "replyFailed" \in Locs
        /\ c \in Notifiers => "replyFailed" \in CastLocs
    BY Zenon, <1>1, <1>2, <1>3, <1>4, LocFacts, WriterFacts
  <2>2. pc' \in [Writers -> Locs] /\ \A n \in Notifiers : pc'[n] \in CastLocs
    BY Zenon, <1>1, <1>2, <1>3, <1>4, <2>1, GotoFacts, WriterFacts DEF ServerInv
  <2>3. todo' \in [Writers -> SUBSET Conns]
    BY Zenon, <1>1, <1>2, <1>3, <1>4 DEF ServerInv, TypeOK, ThreadTypes, ServerTypes
  <2> QED
    BY Zenon, <2>2, <2>3 DEF ThreadTypes
<1>8. SocketsOK'
  BY Zenon, <1>1, <1>2, SocketsGoto, WriterFacts
<1>9. HoldersOK'
  <2> SUFFICES ASSUME NEW u \in Writers PROVE HolderOK(u)'
    BY Zenon DEF HoldersOK
  <2>1. HolderOK(u)
    BY Zenon DEF ServerInv, HoldersOK
  <2>2. Writing(u) => Target(u) \in Conns
    BY Zenon, TargetIsConn
  <2>3. todo[u] # {} => Min(todo[u]) \in Conns
    BY Zenon, NextConn DEF ServerInv, TypeOK, ThreadTypes
  <2>4. writeMutex[c] = c
    BY Zenon, <1>1, <1>4, WriterFacts DEF HolderOK, Writing, Target
  <2>5. CASE u # c
    <3>1. pc'[u] = pc[u]
      BY Zenon, <2>5, <1>1 DEF ServerInv, TypeOK, ThreadTypes
    <3> QED
      BY ZenonT(30), <2>1, <2>2, <2>3, <2>4, <2>5, <3>1, <1>1, <1>2, WriterFacts DEF ServerInv,
         TypeOK, HolderOK, Writing, Target, SocketTypes
  <2>6. CASE u = c
    <3>1. pc'[u] = "replyFailed"
      BY Zenon, <2>6, <1>1, WriterFacts DEF ServerInv, TypeOK, ThreadTypes
    <3> QED
      BY Zenon, <2>6, <3>1, WriterFacts DEF HolderOK, Writing
  <2> QED
    BY Zenon, <2>5, <2>6
<1>10. ClosersOK'
  BY Zenon, <1>1, <1>2, ClosersGoto, WriterFacts
<1>11. RequestsOK'
  BY ZenonT(30), <1>1, <1>2, RequestsGoto, WriterFacts DEF Pending
<1>12. AnswersOK'
  <2> SUFFICES ASSUME NEW d \in Conns PROVE AnswerOK(d)'
    BY Zenon DEF AnswersOK
  <2>1. AnswerOK(d)
    BY Zenon DEF ServerInv, AnswersOK
  <2> QED
    BY <2>1, <1>1, <1>2, <1>3, <1>4, WriterFacts DEF ServerInv, TypeOK, AnswerOK, Life,
       ThreadTypes, SocketTypes, RequestTypes, SocketOK, Alive
<1> QED
  BY Zenon, <1>5, <1>6, <1>7, <1>8, <1>9, <1>10, <1>11, <1>12 DEF ServerInv, TypeOK

\* process() goes on after an answer that was not sent.
LEMMA ReplyFailedKeeps ==
  ASSUME ServerInv, NEW c \in Conns, ReplyFailed(c)
  PROVE  ServerInv'
<1>1. /\ pc[c] = "replyFailed"
      /\ pc' = [pc EXCEPT ![c] = IF reply[c].kind \in {"Blob", "Broken"} THEN "close" ELSE "after"]
  BY Zenon DEF ReplyFailed, Goto
<1>2. UNCHANGED <<running, listening, mainPc, mainTodo, acceptPc, accepted, listed, fd,
                  sock, writeMutex, closed, compatible, notifications, frames, reply,
                  todo, peers, peer, inq, out, torn, asked, said, sent, casts, starts>>
  BY Zenon DEF ReplyFailed, serverVars, sockVars, flagVars, wireVars, boundVars
<1>3. AnswerOK(c)
  BY Zenon DEF ServerInv, AnswersOK
<1>4. ServerTypes' /\ SocketTypes' /\ RequestTypes' /\ WireTypes' /\ OrderOK'
  BY ZenonT(30), <1>2, SameServerTypes, SameSocketTypes, SameRequestTypes, SameWireTypes, SameOrderOK
     DEF ServerInv, TypeOK
<1>5. ThreadTypes'
  <2>1. /\ (IF reply[c].kind \in {"Blob", "Broken"} THEN "close" ELSE "after") \in Locs
        /\ c \in Notifiers => (IF reply[c].kind \in {"Blob", "Broken"} THEN "close" ELSE "after") \in CastLocs
    BY Zenon, <1>1, <1>2, <1>3, LocFacts, WriterFacts
  <2>2. pc' \in [Writers -> Locs] /\ \A n \in Notifiers : pc'[n] \in CastLocs
    BY Zenon, <1>1, <1>2, <1>3, <2>1, GotoFacts, WriterFacts DEF ServerInv
  <2>3. todo' \in [Writers -> SUBSET Conns]
    BY Zenon, <1>1, <1>2, <1>3 DEF ServerInv, TypeOK, ThreadTypes, ServerTypes
  <2> QED
    BY Zenon, <2>2, <2>3 DEF ThreadTypes
<1>6. SocketsOK'
  BY Zenon, <1>1, <1>2, SocketsGoto, WriterFacts
<1>7. HoldersOK'
  <2> SUFFICES ASSUME NEW u \in Writers PROVE HolderOK(u)'
    BY Zenon DEF HoldersOK
  <2>1. HolderOK(u)
    BY Zenon DEF ServerInv, HoldersOK
  <2>2. Writing(u) => Target(u) \in Conns
    BY Zenon, TargetIsConn
  <2>3. todo[u] # {} => Min(todo[u]) \in Conns
    BY Zenon, NextConn DEF ServerInv, TypeOK, ThreadTypes
  <2> QED
    BY ZenonT(30), <2>1, <2>2, <2>3, <1>1, <1>2, <1>3, WriterFacts DEF ServerInv, TypeOK, HolderOK,
       Writing, Target, ThreadTypes, SocketTypes
<1>8. ClosersOK'
  BY Zenon, <1>1, <1>2, ClosersGoto, WriterFacts
<1>9. RequestsOK'
  <2>1. Life(c) # "up"
    BY Zenon, <1>1, <1>3 DEF AnswerOK
  <2>2. PICK l : l \in {"close", "after"} /\ pc' = [pc EXCEPT ![c] = l]
    BY ZenonT(30), <1>1
  <2>3. c \in Writers /\ l \notin {"none", "recv"}
        /\ l \notin {"snap", "cast", "castLock", "castSend", "replyLock", "replySend"}
    BY Zenon, <2>2, WriterFacts
  <2>4. asked' = asked /\ frames' = frames /\ inq' = inq /\ peer' = peer /\ reply' = reply
        /\ sent' = sent /\ sock' = sock
    BY Zenon, <1>2
  <2> QED
    BY Zenon, <2>1, <2>2, <2>3, <2>4, RequestsGoto
<1>10. AnswersOK'
  <2> SUFFICES ASSUME NEW d \in Conns PROVE AnswerOK(d)'
    BY Zenon DEF AnswersOK
  <2>1. AnswerOK(d)
    BY Zenon DEF ServerInv, AnswersOK
  <2> QED
    BY ZenonT(30), <2>1, <1>1, <1>2, <1>3, WriterFacts DEF ServerInv, TypeOK, AnswerOK, Life,
       ThreadTypes, SocketTypes, RequestTypes
<1> QED
  BY Zenon, <1>4, <1>5, <1>6, <1>7, <1>8, <1>9, <1>10 DEF ServerInv, TypeOK

\* process() sets compatible_ after the answer to checkVersion.
LEMMA AfterKeeps ==
  ASSUME ServerInv, NEW c \in Conns, After(c)
  PROVE  ServerInv'
<1>1. /\ pc[c] = "after"
      /\ pc' = [pc EXCEPT ![c] = IF reply[c].verdict # "none" THEN "setNotif"
                         ELSE IF reply[c].drop THEN "close" ELSE "work"]
      /\ compatible' = [compatible EXCEPT ![c] = IF reply[c].verdict # "none" THEN TRUE ELSE @]
  BY Zenon DEF After, Goto, SocketTypes, ServerInv, TypeOK
<1>2. UNCHANGED <<running, listening, mainPc, mainTodo, acceptPc, accepted, listed, fd,
                  sock, writeMutex, closed, notifications, frames, reply, todo, peers,
                  peer, inq, out, torn, asked, said, sent, casts, starts>>
  BY Zenon DEF After, serverVars, sockVars, flagVars, wireVars, boundVars
<1>3. SocketOK(c)
  BY Zenon DEF ServerInv, SocketsOK
<1>4. AnswerOK(c)
  BY Zenon DEF ServerInv, AnswersOK
<1>5. peer[c] # "none"
  BY <1>1, <1>3 DEF SocketOK, ServerInv, TypeOK, OrderOK, ServerTypes, WireTypes, Conns
<1>6. Life(c) = "up" /\ reply[c].verdict # "none" => said[c] # {}
  BY ZenonT(30), <1>1, <1>4 DEF AnswerOK
<1>7. ServerTypes' /\ RequestTypes' /\ WireTypes' /\ OrderOK'
  BY Zenon, <1>2, SameServerTypes, SameRequestTypes, SameWireTypes, SameOrderOK DEF ServerInv,
     TypeOK
<1>8. SocketTypes'
  BY ZenonT(30), <1>1, <1>2, <1>3, <1>4, <1>5, <1>6, WriterFacts DEF ServerInv, TypeOK, SocketTypes
<1>9. ThreadTypes'
  <2>1. PICK l \in Locs : pc' = [pc EXCEPT ![c] = l]
    BY Zenon, <1>1, LocFacts
  <2> QED
    BY Zenon, <2>1, <1>2, ThreadGoto DEF ServerInv
<1>10. SocketsOK'
  BY ZenonT(30), <1>1, <1>2, SocketsGoto, WriterFacts
<1>11. HoldersOK'
  <2> SUFFICES ASSUME NEW u \in Writers PROVE HolderOK(u)'
    BY Zenon DEF HoldersOK
  <2>1. HolderOK(u)
    BY Zenon DEF ServerInv, HoldersOK
  <2>2. Writing(u) => Target(u) \in Conns
    BY Zenon, TargetIsConn
  <2>3. todo[u] # {} => Min(todo[u]) \in Conns
    BY Zenon, NextConn DEF ServerInv, TypeOK, ThreadTypes
  <2> QED
    BY ZenonT(30), <2>1, <2>2, <2>3, <1>1, <1>2, <1>3, <1>4, <1>5, <1>6, WriterFacts DEF ServerInv,
       TypeOK, HolderOK, Writing, Target, ThreadTypes, SocketTypes
<1>12. ClosersOK'
  BY ZenonT(30), <1>1, <1>2, ClosersGoto, WriterFacts
<1>13. RequestsOK'
  <2> SUFFICES ASSUME NEW d \in Conns PROVE RequestOK(d)'
    BY Zenon DEF RequestsOK
  <2>1. RequestOK(d)
    BY Zenon DEF ServerInv, RequestsOK
  <2> QED
    BY ZenonT(30), <2>1, <1>1, <1>2, <1>3, <1>4, <1>5, <1>6, WriterFacts DEF ServerInv, TypeOK,
       RequestOK, Pending, Life, ThreadTypes, SocketTypes, RequestTypes, WireTypes
<1>14. AnswersOK'
  <2> SUFFICES ASSUME NEW d \in Conns PROVE AnswerOK(d)'
    BY Zenon DEF AnswersOK
  <2>1. AnswerOK(d)
    BY Zenon DEF ServerInv, AnswersOK
  <2>2. CASE d # c
    <3>1. pc'[d] = pc[d] /\ compatible'[d] = compatible[d]
      BY ZenonT(30), <2>2, <1>1, WriterFacts DEF ServerInv, TypeOK, SocketTypes, ThreadTypes,
         RequestTypes, WireTypes
    <3> QED
      BY ZenonT(30), <2>1, <2>2, <3>1, <1>1, <1>2, <1>3, <1>4, <1>5, <1>6, WriterFacts DEF ServerInv,
         TypeOK, AnswerOK, Life, ThreadTypes, SocketTypes, RequestTypes
  <2>3. CASE d = c
    <3>1. /\ pc'[c] = (IF reply[c].verdict # "none" THEN "setNotif"
                         ELSE IF reply[c].drop THEN "close" ELSE "work")
          /\ compatible'[c] = (IF reply[c].verdict # "none" THEN TRUE ELSE compatible[c])
      BY ZenonT(30), <1>1, <1>2, <1>3, <1>4, <1>5, <1>6, WriterFacts DEF ServerInv, TypeOK,
         SocketTypes, ThreadTypes, RequestTypes, WireTypes
    <3> QED
      BY ZenonT(30), <2>1, <2>3, <3>1, <1>1, <1>2, <1>3, <1>4, <1>5, <1>6, WriterFacts DEF ServerInv,
         TypeOK, AnswerOK, Life, ThreadTypes, SocketTypes, RequestTypes
  <2> QED
    BY ZenonT(30), <2>2, <2>3
<1> QED
  BY Zenon, <1>7, <1>8, <1>9, <1>10, <1>11, <1>12, <1>13, <1>14 DEF ServerInv, TypeOK

\* process() sets notifications_.
LEMMA SetNotifKeeps ==
  ASSUME ServerInv, NEW c \in Conns, SetNotif(c)
  PROVE  ServerInv'
<1>1. /\ pc[c] = "setNotif"
      /\ pc' = [pc EXCEPT ![c] = IF reply[c].drop THEN "close" ELSE "work"]
      /\ notifications' = [notifications EXCEPT ![c] = reply[c].verdict # "off"]
  BY Zenon DEF SetNotif, Goto
<1>2. UNCHANGED <<running, listening, mainPc, mainTodo, acceptPc, accepted, listed, fd,
                  sock, writeMutex, closed, compatible, frames, reply, todo, peers, peer,
                  inq, out, torn, asked, said, sent, casts, starts>>
  BY Zenon DEF SetNotif, serverVars, sockVars, flagVars, wireVars, boundVars
<1>3. ServerTypes' /\ RequestTypes' /\ WireTypes' /\ OrderOK'
  BY Zenon, <1>2, SameServerTypes, SameRequestTypes, SameWireTypes, SameOrderOK DEF ServerInv,
     TypeOK
<1>4. SocketTypes'
  BY Zenon, <1>1, <1>2, WriterFacts DEF ServerInv, TypeOK, SocketTypes
<1>5. ThreadTypes'
  BY Zenon, <1>1, <1>2, ThreadGoto, LocFacts DEF ServerInv
<1>6. SocketsOK'
  BY Zenon, <1>1, <1>2, SocketsGoto, WriterFacts
<1>7. HoldersOK'
  <2> SUFFICES ASSUME NEW u \in Writers PROVE HolderOK(u)'
    BY Zenon DEF HoldersOK
  <2>1. HolderOK(u)
    BY Zenon DEF ServerInv, HoldersOK
  <2>2. Writing(u) => Target(u) \in Conns
    BY Zenon, TargetIsConn
  <2>3. todo[u] # {} => Min(todo[u]) \in Conns
    BY Zenon, NextConn DEF ServerInv, TypeOK, ThreadTypes
  <2> QED
    BY ZenonT(30), <2>1, <2>2, <2>3, <1>1, <1>2, WriterFacts DEF ServerInv, TypeOK, HolderOK, Writing,
       Target, ThreadTypes, SocketTypes
<1>8. ClosersOK'
  BY Zenon, <1>1, <1>2, ClosersGoto, WriterFacts
<1>9. RequestsOK'
  <2> SUFFICES ASSUME NEW d \in Conns PROVE RequestOK(d)'
    BY Zenon DEF RequestsOK
  <2>1. RequestOK(d)
    BY Zenon DEF ServerInv, RequestsOK
  <2> QED
    BY ZenonT(30), <2>1, <1>1, <1>2, WriterFacts DEF ServerInv, TypeOK, RequestOK, Pending, Life,
       ThreadTypes, SocketTypes, RequestTypes, WireTypes
<1>10. AnswersOK'
  <2> SUFFICES ASSUME NEW d \in Conns PROVE AnswerOK(d)'
    BY Zenon DEF AnswersOK
  <2>1. AnswerOK(d)
    BY Zenon DEF ServerInv, AnswersOK
  <2> QED
    BY ZenonT(30), <2>1, <1>1, <1>2, WriterFacts DEF ServerInv, TypeOK, AnswerOK, Life, ThreadTypes,
       SocketTypes, RequestTypes
<1> QED
  BY Zenon, <1>3, <1>4, <1>5, <1>6, <1>7, <1>8, <1>9, <1>10 DEF ServerInv, TypeOK

\* closeSocket() of the thread itself exchanges fd_.
LEMMA CloseSelfKeeps ==
  ASSUME ServerInv, NEW c \in Conns, CloseSelf(c)
  PROVE  ServerInv'
<1>1. /\ pc[c] = "close"
      /\ pc' = [pc EXCEPT ![c] = IF fd[c] THEN "closeLock" ELSE "finish"]
      /\ fd' = [fd EXCEPT ![c] = FALSE]
      /\ sock' = [sock EXCEPT ![c] = IF fd[c] THEN "shut" ELSE @]
  BY Zenon DEF CloseSelf, Goto, ShutSocket, sockVars, SocketTypes, ServerInv, TypeOK
<1>2. UNCHANGED <<running, listening, mainPc, mainTodo, acceptPc, accepted, listed,
                  writeMutex, closed, compatible, notifications, frames, reply, todo,
                  peers, peer, inq, out, torn, asked, said, sent, casts, starts>>
  BY Zenon DEF CloseSelf, serverVars, sockVars, flagVars, wireVars, boundVars
<1>3. SocketOK(c)
  BY Zenon DEF ServerInv, SocketsOK
<1>4. CloserOK(c)
  BY Zenon DEF ServerInv, ClosersOK
<1>5. ServerTypes' /\ RequestTypes' /\ WireTypes' /\ OrderOK'
  BY Zenon, <1>2, SameServerTypes, SameRequestTypes, SameWireTypes, SameOrderOK DEF ServerInv,
     TypeOK
<1>6. SocketTypes'
  BY Zenon, <1>1, <1>2, <1>3, <1>4, WriterFacts DEF ServerInv, TypeOK, SocketTypes
<1>7. ThreadTypes'
  BY Zenon, <1>1, <1>2, ThreadGoto, LocFacts DEF ServerInv
<1>8. SocketsOK'
  <2> SUFFICES ASSUME NEW d \in Conns PROVE SocketOK(d)'
    BY Zenon DEF SocketsOK
  <2>1. SocketOK(d)
    BY Zenon DEF ServerInv, SocketsOK
  <2> QED
    BY Zenon, <2>1, <1>1, <1>2, <1>3, <1>4, WriterFacts DEF ServerInv, TypeOK, SocketOK,
       ThreadTypes, SocketTypes
<1>9. HoldersOK'
  <2> SUFFICES ASSUME NEW u \in Writers PROVE HolderOK(u)'
    BY Zenon DEF HoldersOK
  <2>1. HolderOK(u)
    BY Zenon DEF ServerInv, HoldersOK
  <2>2. Writing(u) => Target(u) \in Conns
    BY Zenon, TargetIsConn
  <2>3. todo[u] # {} => Min(todo[u]) \in Conns
    BY Zenon, NextConn DEF ServerInv, TypeOK, ThreadTypes
  <2> QED
    BY ZenonT(30), <2>1, <2>2, <2>3, <1>1, <1>2, <1>3, <1>4, WriterFacts DEF ServerInv, TypeOK,
       HolderOK, Writing, Target, ThreadTypes, SocketTypes, SocketOK
<1>10. ClosersOK'
  <2> SUFFICES ASSUME NEW d \in Conns PROVE CloserOK(d)'
    BY Zenon DEF ClosersOK
  <2>1. CloserOK(d)
    BY ZenonT(30) DEF ServerInv, ClosersOK
  <2> QED
    BY ZenonT(30), <2>1, <1>1, <1>2, <1>3, <1>4, WriterFacts DEF ServerInv, TypeOK, CloserOK,
       ThreadTypes, SocketTypes, SocketOK
<1>11. RequestsOK'
  <2> SUFFICES ASSUME NEW d \in Conns PROVE RequestOK(d)'
    BY Zenon DEF RequestsOK
  <2>1. RequestOK(d)
    BY Zenon DEF ServerInv, RequestsOK
  <2> QED
    BY ZenonT(30), <2>1, <1>1, <1>2, <1>3, <1>4, WriterFacts DEF ServerInv, TypeOK, RequestOK,
       Pending, Life, ThreadTypes, SocketTypes, RequestTypes, WireTypes, SocketOK
<1>12. AnswersOK'
  <2> SUFFICES ASSUME NEW d \in Conns PROVE AnswerOK(d)'
    BY Zenon DEF AnswersOK
  <2>1. AnswerOK(d)
    BY Zenon DEF ServerInv, AnswersOK
  <2> QED
    BY ZenonT(30), <2>1, <1>1, <1>2, <1>3, <1>4, WriterFacts DEF ServerInv, TypeOK, AnswerOK, Life,
       ThreadTypes, SocketTypes, RequestTypes, SocketOK
<1> QED
  BY Zenon, <1>5, <1>6, <1>7, <1>8, <1>9, <1>10, <1>11, <1>12 DEF ServerInv, TypeOK

\* closeSocket() closes the descriptor under writeMutex_.
LEMMA CloseSelfLockKeeps ==
  ASSUME ServerInv, NEW c \in Conns, CloseSelfLock(c)
  PROVE  ServerInv'
<1>1. /\ pc[c] = "closeLock" /\ writeMutex[c] = None
      /\ pc' = [pc EXCEPT ![c] = "finish"]
      /\ sock' = [sock EXCEPT ![c] = "closed"]
  BY Zenon DEF CloseSelfLock, Goto, CloseFd
<1>2. UNCHANGED <<running, listening, mainPc, mainTodo, acceptPc, accepted, listed, fd,
                  writeMutex, closed, compatible, notifications, frames, reply, todo,
                  peers, peer, inq, out, torn, asked, said, sent, casts, starts>>
  BY ZenonT(30) DEF CloseSelfLock, serverVars, sockVars, flagVars, wireVars, boundVars, CloseFd
<1>3. SocketOK(c)
  BY Zenon DEF ServerInv, SocketsOK
<1>4. CloserOK(c)
  BY Zenon DEF ServerInv, ClosersOK
<1>5. ServerTypes' /\ RequestTypes' /\ WireTypes' /\ OrderOK'
  BY Zenon, <1>2, SameServerTypes, SameRequestTypes, SameWireTypes, SameOrderOK DEF ServerInv,
     TypeOK
<1>6. SocketTypes'
  BY ZenonT(30), <1>1, <1>2, <1>3, <1>4, WriterFacts DEF ServerInv, TypeOK, SocketTypes
<1>7. ThreadTypes'
  BY Zenon, <1>1, <1>2, ThreadGoto, LocFacts DEF ServerInv
<1>8. SocketsOK'
  <2> SUFFICES ASSUME NEW d \in Conns PROVE SocketOK(d)'
    BY Zenon DEF SocketsOK
  <2>1. SocketOK(d)
    BY Zenon DEF ServerInv, SocketsOK
  <2> QED
    BY ZenonT(30), <2>1, <1>1, <1>2, <1>3, <1>4, WriterFacts DEF ServerInv, TypeOK, SocketOK,
       ThreadTypes, SocketTypes, CloserOK
<1>9. HoldersOK'
  <2> SUFFICES ASSUME NEW u \in Writers PROVE HolderOK(u)'
    BY Zenon DEF HoldersOK
  <2>1. HolderOK(u)
    BY Zenon DEF ServerInv, HoldersOK
  <2>2. Writing(u) => Target(u) \in Conns
    BY Zenon, TargetIsConn
  <2>3. todo[u] # {} => Min(todo[u]) \in Conns
    BY Zenon, NextConn DEF ServerInv, TypeOK, ThreadTypes
  <2> QED
    BY ZenonT(30), <2>1, <2>2, <2>3, <1>1, <1>2, <1>3, <1>4, WriterFacts DEF ServerInv, TypeOK,
       HolderOK, Writing, Target, ThreadTypes, SocketTypes
<1>10. ClosersOK'
  <2> SUFFICES ASSUME NEW d \in Conns PROVE CloserOK(d)'
    BY Zenon DEF ClosersOK
  <2>1. CloserOK(d)
    BY Zenon DEF ServerInv, ClosersOK
  <2> QED
    BY ZenonT(30), <2>1, <1>1, <1>2, <1>3, <1>4, WriterFacts DEF ServerInv, TypeOK, CloserOK,
       ThreadTypes, SocketTypes
<1>11. RequestsOK'
  <2> SUFFICES ASSUME NEW d \in Conns PROVE RequestOK(d)'
    BY Zenon DEF RequestsOK
  <2>1. RequestOK(d)
    BY Zenon DEF ServerInv, RequestsOK
  <2> QED
    BY ZenonT(30), <2>1, <1>1, <1>2, <1>3, <1>4, WriterFacts DEF ServerInv, TypeOK, RequestOK,
       Pending, Life, ThreadTypes, SocketTypes, RequestTypes, WireTypes, CloserOK
<1>12. AnswersOK'
  <2> SUFFICES ASSUME NEW d \in Conns PROVE AnswerOK(d)'
    BY Zenon DEF AnswersOK
  <2>1. AnswerOK(d)
    BY Zenon DEF ServerInv, AnswersOK
  <2> QED
    BY ZenonT(30), <2>1, <1>1, <1>2, <1>3, <1>4, WriterFacts DEF ServerInv, TypeOK, AnswerOK, Life,
       ThreadTypes, SocketTypes, RequestTypes, CloserOK
<1> QED
  BY Zenon, <1>5, <1>6, <1>7, <1>8, <1>9, <1>10, <1>11, <1>12 DEF ServerInv, TypeOK

\* run() returns.
LEMMA FinishKeeps ==
  ASSUME ServerInv, NEW c \in Conns, Finish(c)
  PROVE  ServerInv'
<1>1. /\ pc[c] = "finish"
      /\ pc' = [pc EXCEPT ![c] = "done"]
      /\ closed' = [closed EXCEPT ![c] = TRUE]
  BY Zenon DEF Finish, Goto
<1>2. UNCHANGED <<running, listening, mainPc, mainTodo, acceptPc, accepted, listed, fd,
                  sock, writeMutex, compatible, notifications, frames, reply, todo, peers,
                  peer, inq, out, torn, asked, said, sent, casts, starts>>
  BY Zenon DEF Finish, serverVars, sockVars, flagVars, wireVars, boundVars
<1>3. ServerTypes' /\ RequestTypes' /\ WireTypes' /\ OrderOK'
  BY Zenon, <1>2, SameServerTypes, SameRequestTypes, SameWireTypes, SameOrderOK DEF ServerInv,
     TypeOK
<1>4. SocketTypes'
  BY Zenon, <1>1, <1>2, WriterFacts DEF ServerInv, TypeOK, SocketTypes
<1>5. ThreadTypes'
  BY Zenon, <1>1, <1>2, ThreadGoto, LocFacts DEF ServerInv
<1>6. SocketsOK'
  <2> SUFFICES ASSUME NEW d \in Conns PROVE SocketOK(d)'
    BY Zenon DEF SocketsOK
  <2>1. SocketOK(d)
    BY Zenon DEF ServerInv, SocketsOK
  <2> QED
    BY Zenon, <2>1, <1>1, <1>2, WriterFacts DEF ServerInv, TypeOK, SocketOK, ThreadTypes,
       SocketTypes
<1>7. HoldersOK'
  <2> SUFFICES ASSUME NEW u \in Writers PROVE HolderOK(u)'
    BY Zenon DEF HoldersOK
  <2>1. HolderOK(u)
    BY Zenon DEF ServerInv, HoldersOK
  <2>2. Writing(u) => Target(u) \in Conns
    BY Zenon, TargetIsConn
  <2>3. todo[u] # {} => Min(todo[u]) \in Conns
    BY Zenon, NextConn DEF ServerInv, TypeOK, ThreadTypes
  <2> QED
    BY ZenonT(30), <2>1, <2>2, <2>3, <1>1, <1>2, WriterFacts DEF ServerInv, TypeOK, HolderOK, Writing,
       Target, ThreadTypes, SocketTypes
<1>8. ClosersOK'
  BY Zenon, <1>1, <1>2, ClosersGoto, WriterFacts
<1>9. RequestsOK'
  BY ZenonT(30), <1>1, <1>2, RequestsGoto, WriterFacts DEF Pending
<1>10. AnswersOK'
  BY Zenon, <1>1, <1>2, AnswersGoto, WriterFacts
<1> QED
  BY Zenon, <1>3, <1>4, <1>5, <1>6, <1>7, <1>8, <1>9, <1>10 DEF ServerInv, TypeOK

-----------------------------------------------------------------------------
(* broadcastNotification() and notify() preserve it                        *)

\* A notifier calls broadcastNotification().
LEMMA CastBeginKeeps ==
  ASSUME ServerInv, NEW w \in Writers, CastBegin(w)
  PROVE  ServerInv'
<1>1. /\ w \in Notifiers /\ pc[w] = "idle"
      /\ pc' = [pc EXCEPT ![w] = "snap"]
      /\ casts' = casts + 1
  BY Zenon DEF CastBegin, Goto
<1>2. UNCHANGED <<running, listening, mainPc, mainTodo, acceptPc, accepted, listed, fd,
                  sock, writeMutex, closed, compatible, notifications, frames, reply,
                  todo, peers, peer, inq, out, torn, asked, said, sent, starts>>
  BY Zenon DEF CastBegin, serverVars, sockVars, flagVars, wireVars, boundVars
<1>3. ServerTypes' /\ SocketTypes' /\ RequestTypes' /\ OrderOK'
  BY Zenon, <1>2, SameServerTypes, SameSocketTypes, SameRequestTypes, SameOrderOK DEF ServerInv,
     TypeOK
<1>4. ThreadTypes'
  <2>1. pc' \in [Writers -> Locs] /\ \A n \in Notifiers : pc'[n] \in CastLocs
    BY Zenon, <1>1, LocFacts, GotoFacts DEF ServerInv
  <2> QED
    BY Zenon, <2>1, <1>2 DEF ServerInv, TypeOK, ThreadTypes
<1>5. WireTypes'
  <2>1. casts' \in Nat
    BY <1>1 DEF ServerInv, TypeOK, WireTypes
  <2> QED
    BY Zenon, <2>1, <1>2 DEF ServerInv, TypeOK, WireTypes
<1>6. SocketsOK'
  BY Zenon, <1>1, <1>2, SocketsGoto
<1>7. HoldersOK'
  <2> SUFFICES ASSUME NEW u \in Writers PROVE HolderOK(u)'
    BY Zenon DEF HoldersOK
  <2>1. HolderOK(u)
    BY Zenon DEF ServerInv, HoldersOK
  <2>2. Writing(u) => Target(u) \in Conns
    BY Zenon, TargetIsConn
  <2>3. todo[u] # {} => Min(todo[u]) \in Conns
    BY Zenon, NextConn DEF ServerInv, TypeOK, ThreadTypes
  <2> QED
    BY ZenonT(30), <2>1, <2>2, <2>3, <1>1, <1>2, WriterFacts DEF ServerInv, TypeOK, HolderOK, Writing,
       Target, ThreadTypes, SocketTypes
<1>8. ClosersOK'
  BY Zenon, <1>1, <1>2, ClosersGoto
<1>9. RequestsOK'
  BY ZenonT(30), <1>1, <1>2, RequestsGoto, WriterFacts DEF Pending
<1>10. AnswersOK'
  BY ZenonT(30), <1>1, <1>2, AnswersGoto
<1> QED
  BY Zenon, <1>3, <1>4, <1>5, <1>6, <1>7, <1>8, <1>9, <1>10 DEF ServerInv, TypeOK

\* broadcastNotification() copies connections_.
LEMMA CastSnapKeeps ==
  ASSUME ServerInv, NEW w \in Writers, CastSnap(w)
  PROVE  ServerInv'
<1>1. /\ pc[w] = "snap"
      /\ pc' = [pc EXCEPT ![w] = "cast"]
      /\ todo' = [todo EXCEPT ![w] = listed]
  BY Zenon DEF CastSnap, Goto
<1>2. UNCHANGED <<running, listening, mainPc, mainTodo, acceptPc, accepted, listed, fd,
                  sock, writeMutex, closed, compatible, notifications, frames, reply,
                  peers, peer, inq, out, torn, asked, said, sent, casts, starts>>
  BY Zenon DEF CastSnap, serverVars, sockVars, flagVars, wireVars, boundVars
<1>3. ServerTypes' /\ SocketTypes' /\ RequestTypes' /\ WireTypes' /\ OrderOK'
  BY Zenon, <1>2, SameServerTypes, SameSocketTypes, SameRequestTypes, SameWireTypes, SameOrderOK
     DEF ServerInv, TypeOK
<1>4. ThreadTypes'
  <2>1. /\ "cast" \in Locs
        /\ w \in Notifiers => "cast" \in CastLocs
    BY Zenon, <1>1, <1>2, LocFacts, WriterFacts
  <2>2. pc' \in [Writers -> Locs] /\ \A n \in Notifiers : pc'[n] \in CastLocs
    BY Zenon, <1>1, <1>2, <2>1, GotoFacts, WriterFacts DEF ServerInv
  <2>3. todo' \in [Writers -> SUBSET Conns]
    BY Zenon, <1>1, <1>2 DEF ServerInv, TypeOK, ThreadTypes, ServerTypes
  <2> QED
    BY Zenon, <2>2, <2>3 DEF ThreadTypes
<1>5. SocketsOK'
  BY Zenon, <1>1, <1>2, SocketsGoto
<1>6. HoldersOK'
  <2> SUFFICES ASSUME NEW u \in Writers PROVE HolderOK(u)'
    BY Zenon DEF HoldersOK
  <2>1. HolderOK(u)
    BY Zenon DEF ServerInv, HoldersOK
  <2>2. Writing(u) => Target(u) \in Conns
    BY Zenon, TargetIsConn
  <2>3. todo[u] # {} => Min(todo[u]) \in Conns
    BY Zenon, NextConn DEF ServerInv, TypeOK, ThreadTypes
  <2> QED
    BY ZenonT(30), <2>1, <2>2, <2>3, <1>1, <1>2, WriterFacts DEF ServerInv, TypeOK, HolderOK, Writing,
       Target, ThreadTypes, SocketTypes
<1>7. ClosersOK'
  BY Zenon, <1>1, <1>2, ClosersGoto
<1>8. RequestsOK'
  BY Zenon, <1>1, <1>2, RequestsGoto DEF Pending
<1>9. AnswersOK'
  BY Zenon, <1>1, <1>2, AnswersGoto
<1> QED
  BY Zenon, <1>3, <1>4, <1>5, <1>6, <1>7, <1>8, <1>9 DEF ServerInv, TypeOK

\* notify() passes over a connection, or goes for its writeMutex_.
LEMMA CastNextKeeps ==
  ASSUME ServerInv, NEW w \in Writers, CastNext(w)
  PROVE  ServerInv'
<1>1. PICK l \in Locs :
         /\ pc[w] = "cast"
         /\ pc' = [pc EXCEPT ![w] = l]
         /\ todo' \in [Writers -> SUBSET Conns]
         /\ \A u \in Writers \ {w} : todo'[u] = todo[u]
         /\ l \in {"cast", "castLock"} \/ l = IF w \in Conns THEN "replyLock" ELSE "idle"
         /\ l = "castLock" => todo'[w] = todo[w] /\ todo[w] # {} /\ compatible[Min(todo[w])]
  BY LocFacts, WriterFacts DEF CastNext, Goto, Skip, ServerInv, TypeOK, ThreadTypes
<1>2. UNCHANGED <<running, listening, mainPc, mainTodo, acceptPc, accepted, listed, fd,
                  sock, writeMutex, closed, compatible, notifications, frames, reply,
                  peers, peer, inq, out, torn, asked, said, sent, casts, starts>>
  BY Zenon DEF CastNext, serverVars, sockVars, flagVars, wireVars, boundVars
<1>3. ServerTypes' /\ SocketTypes' /\ RequestTypes' /\ WireTypes' /\ OrderOK'
  BY Zenon, <1>2, SameServerTypes, SameSocketTypes, SameRequestTypes, SameWireTypes, SameOrderOK
     DEF ServerInv, TypeOK
<1>4. ThreadTypes'
  <2>1. /\ l \in Locs
        /\ w \in Notifiers => l \in CastLocs
    BY Zenon, <1>1, <1>2, LocFacts, WriterFacts
  <2>2. pc' \in [Writers -> Locs] /\ \A n \in Notifiers : pc'[n] \in CastLocs
    BY Zenon, <1>1, <1>2, <2>1, GotoFacts, WriterFacts DEF ServerInv
  <2>3. todo' \in [Writers -> SUBSET Conns]
    BY Zenon, <1>1, <1>2 DEF ServerInv, TypeOK, ThreadTypes, ServerTypes
  <2> QED
    BY Zenon, <2>2, <2>3 DEF ThreadTypes
<1>5. SocketsOK'
  BY Zenon, <1>1, <1>2, SocketsGoto
<1>6. HoldersOK'
  <2> SUFFICES ASSUME NEW u \in Writers PROVE HolderOK(u)'
    BY Zenon DEF HoldersOK
  <2>1. HolderOK(u)
    BY Zenon DEF ServerInv, HoldersOK
  <2>2. Writing(u) => Target(u) \in Conns
    BY Zenon, TargetIsConn
  <2>3. todo[u] # {} => Min(todo[u]) \in Conns
    BY Zenon, NextConn DEF ServerInv, TypeOK, ThreadTypes
  <2> QED
    BY ZenonT(30), <2>1, <2>2, <2>3, <1>1, <1>2, WriterFacts DEF ServerInv, TypeOK, HolderOK, Writing,
       Target, ThreadTypes, SocketTypes
<1>7. ClosersOK'
  BY Zenon, <1>1, <1>2, ClosersGoto
<1>8. RequestsOK'
  BY Zenon, <1>1, <1>2, RequestsGoto DEF Pending
<1>9. AnswersOK'
  BY ZenonT(30), <1>1, <1>2, AnswersGoto
<1> QED
  BY ZenonT(30), <1>3, <1>4, <1>5, <1>6, <1>7, <1>8, <1>9 DEF ServerInv, TypeOK

\* notify() takes writeMutex_ and loads fd_.
LEMMA CastLockKeeps ==
  ASSUME ServerInv, NEW w \in Writers, CastLock(w)
  PROVE  ServerInv'
<1>1. /\ pc[w] = "castLock" /\ writeMutex[Min(todo[w])] = None
      /\ pc' = [pc EXCEPT ![w] = IF fd[Min(todo[w])] THEN "castSend" ELSE "cast"]
      /\ todo' = [todo EXCEPT ![w] = IF fd[Min(todo[w])] THEN @ ELSE @ \ {Min(@)}]
      /\ writeMutex' = [writeMutex EXCEPT ![Min(todo[w])] = IF fd[Min(todo[w])] THEN w ELSE None]
  BY Zenon DEF CastLock, Goto, Skip, ServerInv, TypeOK, ThreadTypes, SocketTypes
<1>2. UNCHANGED <<running, listening, mainPc, mainTodo, acceptPc, accepted, listed, fd,
                  sock, closed, compatible, notifications, frames, reply, peers, peer,
                  inq, out, torn, asked, said, sent, casts, starts>>
  BY Zenon DEF CastLock, serverVars, sockVars, flagVars, wireVars, boundVars
<1>3. Min(todo[w]) \in Conns /\ todo[w] # {}
  BY Zenon, <1>1, NextConn, WriterFacts DEF ServerInv, TypeOK, ThreadTypes, HoldersOK, HolderOK
<1>4. HolderOK(w)
  BY Zenon DEF ServerInv, HoldersOK
<1>5. SocketOK(Min(todo[w]))
  BY Zenon, <1>3 DEF ServerInv, SocketsOK
<1>6. ServerTypes' /\ RequestTypes' /\ WireTypes' /\ OrderOK'
  BY Zenon, <1>2, SameServerTypes, SameRequestTypes, SameWireTypes, SameOrderOK DEF ServerInv,
     TypeOK
<1>7. SocketTypes'
  BY ZenonT(30), <1>1, <1>2, <1>3, <1>4, <1>5, WriterFacts DEF ServerInv, TypeOK, SocketTypes
<1>8. ThreadTypes'
  <2>1. /\ (IF fd[Min(todo[w])] THEN "castSend" ELSE "cast") \in Locs
        /\ w \in Notifiers => (IF fd[Min(todo[w])] THEN "castSend" ELSE "cast") \in CastLocs
    BY Zenon, <1>1, <1>2, <1>3, <1>4, <1>5, LocFacts, WriterFacts
  <2>2. pc' \in [Writers -> Locs] /\ \A n \in Notifiers : pc'[n] \in CastLocs
    BY Zenon, <1>1, <1>2, <1>3, <1>4, <1>5, <2>1, GotoFacts, WriterFacts DEF ServerInv
  <2>3. todo' \in [Writers -> SUBSET Conns]
    BY Zenon, <1>1, <1>2, <1>3, <1>4, <1>5 DEF ServerInv, TypeOK, ThreadTypes, ServerTypes
  <2> QED
    BY Zenon, <2>2, <2>3 DEF ThreadTypes
<1>9. SocketsOK'
  BY ZenonT(30), <1>1, <1>2, SocketsGoto
<1>10. HoldersOK'
  <2> SUFFICES ASSUME NEW u \in Writers PROVE HolderOK(u)'
    BY Zenon DEF HoldersOK
  <2>1. HolderOK(u)
    BY Zenon DEF ServerInv, HoldersOK
  <2>2. Writing(u) => Target(u) \in Conns
    BY Zenon, TargetIsConn
  <2>3. todo[u] # {} => Min(todo[u]) \in Conns
    BY Zenon, NextConn DEF ServerInv, TypeOK, ThreadTypes
  <2> QED
    BY ZenonT(30), <2>1, <2>2, <2>3, <1>1, <1>2, <1>3, <1>4, <1>5, WriterFacts DEF ServerInv, TypeOK,
       HolderOK, Writing, Target, ThreadTypes, SocketTypes, SocketOK
<1>11. ClosersOK'
  BY ZenonT(30), <1>1, <1>2, ClosersGoto
<1>12. RequestsOK'
  <2> SUFFICES ASSUME NEW d \in Conns PROVE RequestOK(d)'
    BY Zenon DEF RequestsOK
  <2>1. RequestOK(d)
    BY Zenon DEF ServerInv, RequestsOK
  <2> QED
    BY ZenonT(30), <2>1, <1>1, <1>2, <1>3, <1>4, <1>5, WriterFacts DEF ServerInv, TypeOK, RequestOK,
       Pending, Life, ThreadTypes, SocketTypes, RequestTypes, WireTypes
<1>13. AnswersOK'
  BY Zenon, <1>1, <1>2, AnswersGoto
<1> QED
  BY Zenon, <1>6, <1>7, <1>8, <1>9, <1>10, <1>11, <1>12, <1>13 DEF ServerInv, TypeOK

\* The notification is sent.
LEMMA CastSendKeeps ==
  ASSUME ServerInv, NEW w \in Writers, CastSend(w)
  PROVE  ServerInv'
<1>1. /\ pc[w] = "castSend"
      /\ pc' = [pc EXCEPT ![w] = "cast"]
      /\ todo' = [todo EXCEPT ![w] = @ \ {Min(@)}]
      /\ writeMutex' = [writeMutex EXCEPT ![Min(todo[w])] = None]
      /\ out' = [out EXCEPT ![Min(todo[w])] = Append(@, [kind |-> "Notification", id |-> 0])]
      /\ Alive(Min(todo[w]))
  BY Zenon DEF CastSend, Goto, Skip
<1>2. UNCHANGED <<running, listening, mainPc, mainTodo, acceptPc, accepted, listed, fd,
                  sock, closed, compatible, notifications, frames, reply, peers, peer,
                  inq, torn, asked, said, sent, casts, starts>>
  BY Zenon DEF CastSend, serverVars, sockVars, flagVars, wireVars, boundVars
<1>3. Min(todo[w]) \in Conns /\ todo[w] # {}
  BY Zenon, <1>1, NextConn, WriterFacts DEF ServerInv, TypeOK, ThreadTypes, HoldersOK, HolderOK
<1>4. HolderOK(w)
  BY Zenon DEF ServerInv, HoldersOK
<1>5. [kind |-> "Notification", id |-> 0] \in Written
  BY Zenon DEF Written
<1>6. ServerTypes' /\ RequestTypes' /\ OrderOK'
  BY ZenonT(30), <1>2, SameServerTypes, SameRequestTypes, SameOrderOK DEF ServerInv, TypeOK
<1>7. SocketTypes'
  BY ZenonT(30), <1>1, <1>2, <1>3, <1>4, <1>5, WriterFacts DEF ServerInv, TypeOK, SocketTypes
<1>8. ThreadTypes'
  <2>1. /\ "cast" \in Locs
        /\ w \in Notifiers => "cast" \in CastLocs
    BY ZenonT(30), <1>1, <1>2, <1>3, <1>4, <1>5, LocFacts, WriterFacts
  <2>2. pc' \in [Writers -> Locs] /\ \A n \in Notifiers : pc'[n] \in CastLocs
    BY ZenonT(30), <1>1, <1>2, <1>3, <1>4, <1>5, <2>1, GotoFacts, WriterFacts DEF ServerInv
  <2>3. todo' \in [Writers -> SUBSET Conns]
    BY ZenonT(30), <1>1, <1>2, <1>3, <1>4, <1>5 DEF ServerInv, TypeOK, ThreadTypes, ServerTypes
  <2> QED
    BY Zenon, <2>2, <2>3 DEF ThreadTypes
<1>9. WireTypes'
  <2>1. out[Min(todo[w])] \in Seq(Written)
    BY Zenon, <1>3 DEF ServerInv, TypeOK, WireTypes
  <2>2. Append(out[Min(todo[w])], [kind |-> "Notification", id |-> 0]) \in Seq(Written)
    BY Zenon, <1>5, <2>1, AppendFacts
  <2>3. out' \in [Conns -> Seq(Written)]
    BY Zenon, <1>1, <1>3, <2>2 DEF ServerInv, TypeOK, WireTypes
  <2> QED
    BY Zenon, <1>2, <2>3 DEF ServerInv, TypeOK, WireTypes
<1>10. SocketsOK'
  BY ZenonT(30), <1>1, <1>2, SocketsGoto
<1>11. HoldersOK'
  <2> SUFFICES ASSUME NEW u \in Writers PROVE HolderOK(u)'
    BY Zenon DEF HoldersOK
  <2>1. HolderOK(u)
    BY Zenon DEF ServerInv, HoldersOK
  <2>2. Writing(u) => Target(u) \in Conns
    BY Zenon, TargetIsConn
  <2>3. todo[u] # {} => Min(todo[u]) \in Conns
    BY Zenon, NextConn DEF ServerInv, TypeOK, ThreadTypes
  <2> QED
    BY ZenonT(30), <2>1, <2>2, <2>3, <1>1, <1>2, <1>3, <1>4, <1>5, WriterFacts DEF ServerInv, TypeOK,
       HolderOK, Writing, Target, ThreadTypes, SocketTypes
<1>12. ClosersOK'
  BY Zenon, <1>1, <1>2, ClosersGoto
<1>13. RequestsOK'
  BY ZenonT(30), <1>1, <1>2, RequestsGoto DEF Pending
<1>14. AnswersOK'
  <2> SUFFICES ASSUME NEW d \in Conns PROVE AnswerOK(d)'
    BY Zenon DEF AnswersOK
  <2>1. AnswerOK(d)
    BY ZenonT(30) DEF ServerInv, AnswersOK
  <2> QED
    BY ZenonT(30), <2>1, <1>1, <1>2, <1>3, <1>4, <1>5, WriterFacts DEF ServerInv, TypeOK, AnswerOK,
       Life, ThreadTypes, SocketTypes, RequestTypes, WireTypes, Alive
<1> QED
  BY Zenon, <1>6, <1>7, <1>8, <1>9, <1>10, <1>11, <1>12, <1>13, <1>14 DEF ServerInv, TypeOK

\* The notification cannot be sent.
LEMMA CastSendFailsKeeps ==
  ASSUME ServerInv, NEW w \in Writers, CastSendFails(w)
  PROVE  ServerInv'
<1>1. /\ pc[w] = "castSend"
      /\ pc' = [pc EXCEPT ![w] = "cast"]
      /\ todo' = [todo EXCEPT ![w] = @ \ {Min(@)}]
      /\ writeMutex' = [writeMutex EXCEPT ![Min(todo[w])] = None]
  BY Zenon DEF CastSendFails, Goto, Skip
<1>2. UNCHANGED <<running, listening, mainPc, mainTodo, acceptPc, accepted, listed, fd,
                  sock, closed, compatible, notifications, frames, reply, peers, peer,
                  inq, out, torn, asked, said, sent, casts, starts>>
  BY Zenon DEF CastSendFails, serverVars, sockVars, flagVars, wireVars, boundVars
<1>3. Min(todo[w]) \in Conns /\ todo[w] # {}
  BY ZenonT(30), <1>1, NextConn, WriterFacts DEF ServerInv, TypeOK, ThreadTypes, HoldersOK, HolderOK
<1>4. HolderOK(w)
  BY Zenon DEF ServerInv, HoldersOK
<1>5. ServerTypes' /\ RequestTypes' /\ WireTypes' /\ OrderOK'
  BY Zenon, <1>2, SameServerTypes, SameRequestTypes, SameWireTypes, SameOrderOK DEF ServerInv,
     TypeOK
<1>6. SocketTypes'
  BY Zenon, <1>1, <1>2, <1>3, <1>4, WriterFacts DEF ServerInv, TypeOK, SocketTypes
<1>7. ThreadTypes'
  <2>1. pc' \in [Writers -> Locs] /\ \A n \in Notifiers : pc'[n] \in CastLocs
    BY Zenon, <1>1, LocFacts, GotoFacts DEF ServerInv
  <2>2. todo' \in [Writers -> SUBSET Conns]
    BY Zenon, <1>1 DEF ServerInv, TypeOK, ThreadTypes
  <2> QED
    BY Zenon, <2>1, <2>2 DEF ThreadTypes
<1>8. SocketsOK'
  BY ZenonT(30), <1>1, <1>2, SocketsGoto
<1>9. HoldersOK'
  <2> SUFFICES ASSUME NEW u \in Writers PROVE HolderOK(u)'
    BY Zenon DEF HoldersOK
  <2>1. HolderOK(u)
    BY Zenon DEF ServerInv, HoldersOK
  <2>2. Writing(u) => Target(u) \in Conns
    BY Zenon, TargetIsConn
  <2>3. todo[u] # {} => Min(todo[u]) \in Conns
    BY Zenon, NextConn DEF ServerInv, TypeOK, ThreadTypes
  <2> QED
    BY ZenonT(30), <2>1, <2>2, <2>3, <1>1, <1>2, <1>3, <1>4, WriterFacts DEF ServerInv, TypeOK,
       HolderOK, Writing, Target, ThreadTypes, SocketTypes
<1>10. ClosersOK'
  BY Zenon, <1>1, <1>2, ClosersGoto
<1>11. RequestsOK'
  BY Zenon, <1>1, <1>2, RequestsGoto DEF Pending
<1>12. AnswersOK'
  BY Zenon, <1>1, <1>2, AnswersGoto
<1> QED
  BY Zenon, <1>5, <1>6, <1>7, <1>8, <1>9, <1>10, <1>11, <1>12 DEF ServerInv, TypeOK

-----------------------------------------------------------------------------
(* The invariant                                                           *)

\* The server starts in the invariant.
LEMMA InitServerInv == Init => ServerInv
<1> SUFFICES ASSUME Init PROVE ServerInv
  BY Zenon
<1>1. ServerTypes /\ SocketTypes
  BY Zenon, WriterFacts DEF Init, ServerTypes, SocketTypes
<1>2. ThreadTypes
  <2>1. \A w \in Writers : pc[w] = IF w \in Conns THEN "none" ELSE "idle"
    BY Zenon DEF Init
  <2>2. pc \in [Writers -> Locs] /\ todo \in [Writers -> SUBSET Conns]
    BY Zenon, LocFacts DEF Init
  <2>3. ASSUME NEW n \in Notifiers PROVE pc[n] \in CastLocs
    BY Zenon, <2>1, WriterFacts, LocFacts DEF Writers
  <2> QED
    BY Zenon, <2>2, <2>3 DEF ThreadTypes
<1>3. Quiet \in Replies
  BY Zenon DEF Quiet, Replies, Answers
<1>4. RequestTypes /\ WireTypes
  BY <1>3, BoundFacts DEF Init, RequestTypes, WireTypes
<1>5. OrderOK
  BY DEF Init, OrderOK
<1>6. ASSUME NEW c \in Conns
      PROVE  SocketOK(c) /\ CloserOK(c) /\ RequestOK(c) /\ AnswerOK(c)
  <2>1. /\ fd[c] = FALSE /\ sock[c] = "none" /\ peer[c] = "none" /\ pc[c] = "none"
        /\ inq[c] = <<>> /\ asked[c] = <<>> /\ frames[c] = <<>> /\ out[c] = <<>>
        /\ said[c] = {} /\ torn[c] = FALSE /\ compatible[c] = FALSE /\ reply[c] = Quiet
        /\ sent[c] = 0 /\ mainPc = "idle" /\ accepted = 0 /\ peers = 0
    BY Zenon, WriterFacts DEF Init
  <2>2. c > 0
    BY DEF Conns
  <2>3. SocketOK(c) /\ CloserOK(c)
    BY Zenon, <2>1, <2>2 DEF SocketOK, CloserOK
  <2>4. RequestOK(c)
    BY SMTT(30), <2>1 DEF RequestOK, Counted, Numbered, Pending, Life
  <2>5. AnswerOK(c)
    BY <2>1 DEF AnswerOK, Life, Quiet
  <2> QED
    BY Zenon, <2>3, <2>4, <2>5
<1>7. HoldersOK
  BY Zenon DEF Init, HoldersOK, HolderOK, Writing
<1> QED
  BY ZenonT(30), <1>1, <1>2, <1>4, <1>5, <1>6, <1>7
     DEF ServerInv, TypeOK, SocketsOK, ClosersOK, RequestsOK, AnswersOK

\* Every step of the server and of its peers preserves the invariant.
LEMMA NextServerInv == ServerInv /\ [Next]_vars => ServerInv'
<1> SUFFICES ASSUME ServerInv, [Next]_vars PROVE ServerInv'
  BY Zenon
<1>1. CASE Start \/ StopBegin
  BY Zenon, <1>1, StartKeeps, StopBeginKeeps
<1>2. CASE Stop
  BY ZenonT(30), <1>2, StopListenKeeps, StopJoinKeeps, StopNextShuts, StopNextPasses, StopCloseKeeps,
     StopWaitKeeps DEF Stop
<1>3. CASE AcceptLoop \/ AcceptPollFails
  BY Zenon, <1>3, AcceptPollKeeps, AcceptConnKeeps, AcceptFailsKeeps, AcceptPollFailsKeeps
     DEF AcceptLoop
<1>4. ASSUME NEW c \in Conns, Run(c) PROVE ServerInv'
  BY ZenonT(30), <1>4, LoopKeeps, RecvKeeps, RecvFailsKeeps, ProcessKeeps, ReplyLockKeeps,
     ReplySendKeeps, ReplySendFailsKeeps, ReplyFailedKeeps, AfterKeeps, SetNotifKeeps,
     CloseSelfKeeps, CloseSelfLockKeeps, FinishKeeps DEF Run
<1>5. ASSUME NEW c \in Conns, Peer(c) PROVE ServerInv'
  BY Zenon, <1>5, PeerSendKeeps, PeerReadKeeps, PeerCloseKeeps DEF Peer
<1>6. ASSUME NEW w \in Writers, Broadcast(w) \/ CastBegin(w) PROVE ServerInv'
  BY ZenonT(30), <1>6, CastSnapKeeps, CastNextKeeps, CastLockKeeps, CastSendKeeps, CastSendFailsKeeps,
     CastBeginKeeps DEF Broadcast
<1>7. CASE PeerConnect
  BY ZenonT(30), <1>7, PeerConnectKeeps
<1>8. CASE UNCHANGED vars
  <2>1. /\ UNCHANGED serverVars /\ UNCHANGED sockVars /\ UNCHANGED writeMutex
        /\ UNCHANGED flagVars /\ UNCHANGED <<pc, frames, reply, todo>>
        /\ UNCHANGED wireVars /\ UNCHANGED boundVars
    BY Zenon, <1>8 DEF vars
  <2> QED
    BY ZenonT(30), <2>1, SameServerTypes, SameSocketTypes, SameThreadTypes, SameRequestTypes,
       SameWireTypes, SameOrderOK, SameSocketsOK, SameHoldersOK, SameClosersOK,
       SameRequestsOK, SameAnswersOK
       DEF ServerInv, TypeOK, serverVars, sockVars, flagVars, wireVars, boundVars
<1> QED
  BY ZenonT(30), <1>1, <1>2, <1>3, <1>4, <1>5, <1>6, <1>7, <1>8 DEF Next

\* The inductive invariant of the server: types, sockets and their holders, the order of
\* the requests, and what was answered.
THEOREM ServerInvariant == Spec => []ServerInv
  BY InitServerInv, NextServerInv, PTL DEF Spec

\* Every variable of the server keeps its type.
THEOREM ServerTypesHold == Spec => []TypeOK
<1>1. ServerInv => TypeOK
  BY Zenon DEF ServerInv
<1> QED
  BY <1>1, ServerInvariant, PTL

\* sendAll() is never given a descriptor that closeSocket() has closed, and no descriptor
\* is closed twice, however many connections, notifiers and calls of stop() there are.
THEOREM DescriptorsAreSafe == Spec => []SendOnOpenSocket
<1>1. ASSUME ServerInv PROVE SendOnOpenSocket
  <2>1. \A w \in Writers : Writing(w) => sock[Target(w)] \in {"open", "shut"}
                                        /\ writeMutex[Target(w)] = w
    BY Zenon, <1>1 DEF ServerInv, HoldersOK, HolderOK
  <2>2. ASSUME NEW c \in Conns
        PROVE  Cardinality(Closing(c)) <= 1 /\ (Closing(c) # {} => sock[c] = "shut")
    <3>1. CloserOK(c)
      BY Zenon, <1>1 DEF ServerInv, ClosersOK
    <3>2. Closing(c) # {} => sock[c] = "shut"
      BY Zenon, <3>1 DEF CloserOK, Closing
    <3>3. Closing(c) \subseteq {"self"} \/ Closing(c) \subseteq {"main"}
      BY Zenon, <3>1 DEF CloserOK, Closing
    <3>4. ASSUME NEW x, Closing(c) \subseteq {x} PROVE Cardinality(Closing(c)) <= 1
      <4>1. IsFiniteSet({x}) /\ Cardinality({x}) = 1
        BY Zenon, FS_Singleton
      <4>2. Cardinality(Closing(c)) <= Cardinality({x})
        BY Zenon, <3>4, <4>1, FS_Subset
      <4> QED
        BY Zenon, <4>1, <4>2
    <3>5. Cardinality(Closing(c)) <= 1
      BY Zenon, <3>3, <3>4
    <3> QED
      BY Zenon, <3>2, <3>5
  <2> QED
    BY Zenon, <2>1, <2>2 DEF SendOnOpenSocket
<1> QED
  BY <1>1, ServerInvariant, PTL

-----------------------------------------------------------------------------
(* TcpRpcServer implements RpcPeer on every connection                     *)

\* Nothing that the peer of a connection can tell has changed.
LEMMA StutterStep ==
  ASSUME NEW d \in Conns, Life(d)' = Life(d), torn'[d] = torn[d], out'[d] = out[d],
         asked'[d] = asked[d], said'[d] = said[d]
  PROVE  Contract(d)!Step
<1>1. Greeted(d)' = Greeted(d)
  BY Zenon DEF Greeted
<1> QED
  BY Zenon, <1>1 DEF Contract!Step, Contract!peerVars

\* The connection goes down, and what was not received may be lost.
LEMMA CloseStep ==
  ASSUME NEW d \in Conns, Life(d) = "up", Life(d)' = "down", torn'[d] = torn[d],
         out[d] \in Seq(Written), out'[d] \in {out[d], <<>>}
  PROVE  Contract(d)!Step
<1>1. \E n \in 0..Len(out[d]) : out'[d] = SubSeq(out[d], 1, n)
  <2>1. CASE out'[d] = out[d]
    <3>1. out[d] = SubSeq(out[d], 1, Len(out[d])) /\ Len(out[d]) \in 0..Len(out[d])
      OBVIOUS
    <3> QED
      BY Zenon, <3>1, <2>1
  <2>2. CASE out'[d] = <<>>
    <3>1. SubSeq(out[d], 1, 0) = <<>> /\ 0 \in 0..Len(out[d])
      OBVIOUS
    <3> QED
      BY Zenon, <3>1, <2>2
  <2> QED
    BY Zenon, <2>1, <2>2
<1> QED
  BY Zenon, <1>1 DEF Contract!Step, Contract!Next, Contract!Close

\* The peer takes some, or all, of what was written.
LEMMA ReceiveStep ==
  ASSUME NEW d \in Conns, Life(d)' = Life(d), torn'[d] = torn[d], asked'[d] = asked[d],
         said'[d] = said[d], out[d] \in Seq(Written), NEW n \in 1..Len(out[d]),
         out'[d] = SubSeq(out[d], n + 1, Len(out[d]))
  PROVE  Contract(d)!Step
<1>1. Greeted(d)' = Greeted(d)
  BY Zenon DEF Greeted
<1> QED
  BY Zenon, <1>1 DEF Contract!Step, Contract!Next, Contract!Receive

\* Steps that the peers cannot tell
LEMMA QuietStep ==
  ASSUME UNCHANGED <<sock, peer, torn, out, asked, said>>
  PROVE  \A d \in Conns : Contract(d)!Step
  BY Zenon, StutterStep DEF Life

\* The socket of one connection is shut down.
LEMMA ShutStep ==
  ASSUME ServerInv, NEW c \in Conns, fd[c], sock' = [sock EXCEPT ![c] = "shut"],
         UNCHANGED <<peer, torn, out, asked, said>>
  PROVE  \A d \in Conns : Contract(d)!Step
<1> SUFFICES ASSUME NEW d \in Conns PROVE Contract(d)!Step
  BY Zenon
<1>1. sock[c] = "open" /\ sock \in [Conns -> {"none", "open", "shut", "closed"}]
  BY Zenon DEF ServerInv, SocketsOK, SocketOK, TypeOK, SocketTypes
<1>2. CASE d = c /\ Life(d) = "up"
  <2>1. Life(d)' = "down" /\ out[d] \in Seq(Written)
    BY Zenon, <1>1, <1>2 DEF Life, ServerInv, TypeOK, WireTypes
  <2> QED
    BY Zenon, <1>2, <2>1, CloseStep
<1>3. CASE d # c \/ Life(d) # "up"
  <2>1. Life(d)' = Life(d)
    BY Zenon, <1>1, <1>3 DEF Life
  <2> QED
    BY Zenon, <2>1, StutterStep
<1> QED
  BY Zenon, <1>2, <1>3

\* A descriptor that was shut down is closed.
LEMMA ClosedStep ==
  ASSUME ServerInv, NEW c \in Conns, sock[c] = "shut", sock' = [sock EXCEPT ![c] = "closed"],
         UNCHANGED <<peer, torn, out, asked, said>>
  PROVE  \A d \in Conns : Contract(d)!Step
<1> SUFFICES ASSUME NEW d \in Conns PROVE Contract(d)!Step
  BY Zenon
<1>1. Life(d)' = Life(d)
  BY Zenon DEF Life, ServerInv, TypeOK, SocketTypes
<1> QED
  BY Zenon, <1>1, StutterStep

\* start(), stop() and acceptLoop()
LEMMA MainStep ==
  ASSUME ServerInv, Start \/ StopBegin \/ Stop \/ AcceptLoop \/ AcceptPollFails
  PROVE  \A d \in Conns : Contract(d)!Step
<1>1. CASE Start \/ StopBegin \/ AcceptPoll \/ AcceptFails \/ AcceptPollFails
  BY Zenon, <1>1, QuietStep DEF Start, StopBegin, AcceptPoll, AcceptFails, AcceptPollFails,
     sockVars, wireVars
<1>2. CASE StopJoin \/ StopWait
  BY Zenon, <1>2, QuietStep DEF StopJoin, StopWait, sockVars, wireVars
<1>3. CASE StopListen
  <2> SUFFICES ASSUME NEW d \in Conns PROVE Contract(d)!Step
    BY Zenon
  <2>1. /\ peer'[d] = IF d \in accepted + 1..peers THEN "gone" ELSE peer[d]
        /\ UNCHANGED <<sock, torn, out, asked, said>>
    BY Zenon, <1>3 DEF StopListen, sockVars
  <2>2. CASE Life(d) = "up" /\ d \in accepted + 1..peers
    <3>1. Life(d)' = "down" /\ out[d] \in Seq(Written)
      BY Zenon, <2>1, <2>2 DEF Life, ServerInv, TypeOK, WireTypes
    <3> QED
      BY Zenon, <2>1, <2>2, <3>1, CloseStep
  <2>3. CASE Life(d) # "up" \/ d \notin accepted + 1..peers
    <3>1. peer[d] = "none" => d > peers
      BY Zenon DEF ServerInv, SocketsOK, SocketOK
    <3>2. d \in accepted + 1..peers => peer[d] # "none"
      BY <3>1 DEF Conns, ServerInv, TypeOK, WireTypes, ServerTypes
    <3>3. Life(d)' = Life(d)
      BY Zenon, <2>1, <2>3, <3>2 DEF Life
    <3> QED
      BY Zenon, <2>1, <3>3, StutterStep
  <2> QED
    BY Zenon, <2>2, <2>3
<1>4. CASE StopNext
  <2>1. CASE mainTodo # {} /\ fd[Min(mainTodo)]
    <3>1. Min(mainTodo) \in Conns
      BY Zenon, <2>1, NextConn DEF ServerInv, TypeOK, ServerTypes
    <3>2. sock' = [sock EXCEPT ![Min(mainTodo)] = "shut"]
          /\ UNCHANGED <<peer, torn, out, asked, said>>
      BY Zenon, <1>4, <2>1 DEF StopNext, ShutSocket, wireVars
    <3> QED
      BY Zenon, <2>1, <3>1, <3>2, ShutStep
  <2>2. CASE mainTodo = {} \/ ~fd[Min(mainTodo)]
    BY Zenon, <1>4, <2>2, QuietStep DEF StopNext, sockVars, wireVars
  <2> QED
    BY Zenon, <2>1, <2>2
<1>5. CASE StopClose
  <2>1. mainPc = "stopClose" /\ sock' = [sock EXCEPT ![Min(mainTodo)] = "closed"]
        /\ UNCHANGED <<peer, torn, out, asked, said>>
    BY Zenon, <1>5 DEF StopClose, CloseFd, wireVars
  <2>2. Min(mainTodo) \in Conns
    BY Zenon, <2>1, NextConn DEF ServerInv, TypeOK, ServerTypes, OrderOK
  <2>3. sock[Min(mainTodo)] = "shut"
    BY Zenon, <2>1, <2>2 DEF ServerInv, ClosersOK, CloserOK
  <2> QED
    BY Zenon, <2>1, <2>2, <2>3, ClosedStep
<1>6. CASE AcceptConn
  <2>1. /\ acceptPc = "accept" /\ listening /\ UNCHANGED <<peer, torn, out, asked, said>>
        /\ sock' = [sock EXCEPT ![accepted + 1] = "open"]
    BY Zenon, <1>6 DEF AcceptConn, wireVars
  <2>2. accepted + 1 \in Conns /\ accepted + 1 > accepted
    BY Zenon, <2>1, NextAccepted
  <2>3. sock[accepted + 1] = "none"
    BY Zenon, <2>2 DEF ServerInv, SocketsOK, SocketOK
  <2> SUFFICES ASSUME NEW d \in Conns PROVE Contract(d)!Step
    BY Zenon
  <2>4. Life(d)' = Life(d)
    BY Zenon, <2>1, <2>2, <2>3 DEF Life, ServerInv, TypeOK, SocketTypes
  <2> QED
    BY Zenon, <2>1, <2>4, StutterStep
<1> QED
  BY ZenonT(30), <1>1, <1>2, <1>3, <1>4, <1>5, <1>6 DEF Stop, AcceptLoop

\* The answer to the oldest request is sent.
LEMMA AnswerStep ==
  ASSUME ServerInv, NEW c \in Conns, ReplySend(c)
  PROVE  \A d \in Conns : Contract(d)!Step
<1> DEFINE a == [kind |-> reply[c].kind, id |-> reply[c].id]
<1>1. /\ pc[c] = "replySend" /\ Alive(c) /\ UNCHANGED <<sock, peer>>
      /\ reply[c].kind = "Broken" => torn' = [torn EXCEPT ![c] = TRUE] /\ out' = out
      /\ reply[c].kind # "Broken" => torn' = torn /\ out' = [out EXCEPT ![c] = Append(@, a)]
      /\ asked' = [asked EXCEPT ![c] = Tail(@)]
      /\ said' = [said EXCEPT ![c] = @ \cup ({reply[c].verdict} \ {"none"})]
  BY Zenon DEF ReplySend, sockVars
<1>2. /\ torn \in [Conns -> BOOLEAN] /\ out \in [Conns -> Seq(Written)]
      /\ asked \in [Conns -> Seq(Nat)] /\ sent[c] \in Nat /\ inq[c] \in Seq(Frame)
      /\ said \in [Conns -> SUBSET {"on", "off", "incompatible"}]
      /\ frames[c] \in Seq(Frame) /\ reply[c] \in Replies
  BY Zenon DEF ServerInv, TypeOK, WireTypes, RequestTypes
<1> SUFFICES ASSUME NEW d \in Conns PROVE Contract(d)!Step
  BY Zenon
<1>3. Life(d)' = Life(d)
  BY Zenon, <1>1 DEF Life
<1>4. CASE d # c
  <2>1. torn'[d] = torn[d] /\ out'[d] = out[d] /\ asked'[d] = asked[d] /\ said'[d] = said[d]
    BY Zenon, <1>1, <1>2, <1>4
  <2> QED
    BY Zenon, <1>3, <2>1, StutterStep
<1>5. CASE d = c
  <2>1. Life(c) = "up" /\ RequestOK(c) /\ AnswerOK(c)
    BY Zenon, <1>1 DEF Life, Alive, ServerInv, RequestsOK, AnswersOK
  <2>2. ~torn[c] /\ "incompatible" \notin said[c]
        /\ (reply[c].kind = "Broken" => reply[c].verdict = "none")
    BY Zenon, <1>1, <2>1 DEF AnswerOK
  <2>3. asked[c] # <<>> /\ Head(asked[c]) = reply[c].id
    <3> DEFINE x == Len(frames[c])
               y == Len(inq[c])
               z == Len(asked[c])
    <3>1. x \in Nat /\ y \in Nat /\ z \in Nat
      BY <1>2
    <3>2. sent[c] \in Int
      BY <1>2
    <3>3. z = x + y + 1 /\ Counted(asked[c], sent[c]) /\ reply[c].id = sent[c] - y - x
      BY Zenon, <1>1, <2>1 DEF RequestOK, Pending
    <3>4. asked[c] # <<>> => /\ Head(asked[c]) = sent[c] - Len(Tail(asked[c]))
                             /\ Len(Tail(asked[c])) = z - 1
      <4> DEFINE q == asked[c]
      <4>1. q \in Seq(Nat) /\ sent[c] \in Int /\ Counted(q, sent[c])
        BY <1>2, <3>3
      <4> HIDE DEF q
      <4>2. q # <<>> => Head(q) = sent[c] - Len(Tail(q)) /\ Len(Tail(q)) = Len(q) - 1
        BY Zenon, <4>1, CountedTail, TailFacts
      <4> QED
        BY Zenon, <4>2 DEF q
    <3> HIDE DEF x, y, z
    <3>5. z # 0 /\ sent[c] - (z - 1) = sent[c] - y - x
      <4>1. z = x + y + 1 /\ sent[c] \in Int
        BY Zenon, <3>3, <3>2
      <4> QED
        BY <3>1, <4>1
    <3>6. asked[c] # <<>>
      BY Zenon, <3>5, EmptySeq DEF z
    <3> QED
      BY Zenon, <3>3, <3>4, <3>5, <3>6
  <2>4. asked'[c] = Tail(asked[c]) /\ said'[c] = said[c] \cup ({reply[c].verdict} \ {"none"})
    BY Zenon, <1>1, <1>2
  <2>5. CASE reply[c].kind = "Broken"
    <3>1. torn'[c] = TRUE /\ out'[c] = out[c] /\ said'[c] = said[c]
      BY ZenonT(30), <1>1, <1>2, <2>2, <2>4, <2>5
    <3>2. Greeted(c)' = Greeted(c) /\ Greeted(c) # "refused"
      BY ZenonT(30), <3>1, <2>2 DEF Greeted
    <3>3. Contract(c)!Tear
      BY ZenonT(30), <1>3, <1>5, <2>1, <2>2, <2>3, <2>4, <3>1, <3>2 DEF Contract!Tear
    <3> QED
      BY ZenonT(30), <1>5, <3>3 DEF Contract!Step, Contract!Next
  <2>6. CASE reply[c].kind # "Broken"
    <3>1. torn'[c] = torn[c] /\ out'[c] = Append(out[c], a)
      BY Zenon, <1>1, <1>2, <2>6
    <3>2. reply[c].kind \in {"Response", "Error", "Blob"}
      BY Zenon, <1>2, <2>6 DEF Replies, Answers
    <3>3. Greeted(c) # "refused" /\ Greeted(c)' \in {Greeted(c), "yes", "refused"}
      BY ZenonT(30), <1>2, <2>2, <2>4 DEF Greeted
    <3>4. Contract(c)!Reply
      BY ZenonT(30), <1>3, <1>5, <2>1, <2>2, <2>3, <2>4, <3>1, <3>2, <3>3
         DEF Contract!Reply, Contract!Terminal
    <3> QED
      BY Zenon, <1>5, <3>4 DEF Contract!Step, Contract!Next
  <2> QED
    BY Zenon, <2>5, <2>6
<1> QED
  BY Zenon, <1>4, <1>5

\* The thread of a connection
LEMMA RunStep ==
  ASSUME ServerInv, NEW c \in Conns, Run(c)
  PROVE  \A d \in Conns : Contract(d)!Step
<1>1. CASE Loop(c) \/ RecvFails(c) \/ ReplyLock(c) \/ ReplySendFails(c)
  BY Zenon, <1>1, QuietStep DEF Loop, RecvFails, ReplyLock, ReplySendFails, sockVars, wireVars
<1>2. CASE Recv(c)
  BY Zenon, <1>2, QuietStep DEF Recv, sockVars
<1>3. CASE Process(c) \/ ReplyFailed(c) \/ After(c) \/ SetNotif(c) \/ Finish(c)
  BY Zenon, <1>3, QuietStep DEF Process, ReplyFailed, After, SetNotif, Finish, sockVars, wireVars
<1>4. CASE ReplySend(c)
  BY Zenon, <1>4, AnswerStep
<1>5. CASE CloseSelf(c)
  <2>1. CASE fd[c]
    BY Zenon, <1>5, <2>1, ShutStep DEF CloseSelf, ShutSocket, wireVars
  <2>2. CASE ~fd[c]
    BY Zenon, <1>5, <2>2, QuietStep DEF CloseSelf, sockVars, wireVars
  <2> QED
    BY Zenon, <2>1, <2>2
<1>6. CASE CloseSelfLock(c)
  <2>1. pc[c] = "closeLock" /\ sock' = [sock EXCEPT ![c] = "closed"]
        /\ UNCHANGED <<peer, torn, out, asked, said>>
    BY Zenon, <1>6 DEF CloseSelfLock, CloseFd, wireVars
  <2>2. sock[c] = "shut"
    BY Zenon, <2>1 DEF ServerInv, ClosersOK, CloserOK
  <2> QED
    BY Zenon, <2>1, <2>2, ClosedStep
<1> QED
  BY ZenonT(30), <1>1, <1>2, <1>3, <1>4, <1>5, <1>6 DEF Run

\* A broadcast
LEMMA BroadcastStep ==
  ASSUME ServerInv, NEW w \in Writers, Broadcast(w) \/ CastBegin(w)
  PROVE  \A d \in Conns : Contract(d)!Step
<1>1. CASE CastBegin(w) \/ CastSnap(w) \/ CastNext(w)
  BY Zenon, <1>1, QuietStep DEF CastBegin, CastSnap, CastNext, sockVars, wireVars
<1>2. CASE CastLock(w) \/ CastSendFails(w)
  BY Zenon, <1>2, QuietStep DEF CastLock, CastSendFails, sockVars, wireVars
<1>3. CASE CastSend(w)
  <2> DEFINE c == Min(todo[w])
             n == [kind |-> "Notification", id |-> 0]
  <2>1. /\ pc[w] = "castSend" /\ Alive(c) /\ out' = [out EXCEPT ![c] = Append(@, n)]
        /\ UNCHANGED <<sock, peer, torn, asked, said>>
    BY Zenon, <1>3 DEF CastSend, sockVars
  <2>2. todo[w] # {} /\ compatible[c]
    BY Zenon, <2>1 DEF ServerInv, HoldersOK, HolderOK
  <2>3. c \in Conns
    BY Zenon, <2>2, NextConn DEF ServerInv, TypeOK, ThreadTypes
  <2>4. out \in [Conns -> Seq(Written)] /\ n \in Written
    BY ZenonT(30) DEF ServerInv, TypeOK, WireTypes, Written
  <2>5. Life(c) = "up" /\ said[c] # {} /\ said[c] \subseteq {"on", "off", "incompatible"}
    BY ZenonT(30), <2>1, <2>2, <2>3 DEF Life, Alive, ServerInv, AnswersOK, AnswerOK, TypeOK, WireTypes
  <2> HIDE DEF c
  <2> SUFFICES ASSUME NEW d \in Conns PROVE Contract(d)!Step
    BY Zenon
  <2>6. Life(d)' = Life(d) /\ Greeted(d)' = Greeted(d)
    BY Zenon, <2>1 DEF Life, Greeted
  <2>7. CASE d # c
    BY ZenonT(30), <2>1, <2>3, <2>4, <2>6, <2>7, StutterStep
  <2>8. CASE d = c
    <3>1. Greeted(d) # "no"
      BY Zenon, <2>5, <2>8 DEF Greeted
    <3>2. out'[d] = Append(out[d], n) /\ out[d] \in Seq(Written)
      BY Zenon, <2>1, <2>3, <2>4, <2>8
    <3>3. Len(out'[d]) = Len(out[d]) + 1 /\ out'[d][Len(out'[d])] = n
      BY <3>2, <2>4, AppendFacts
    <3>4. n.kind = "Notification"
      BY Zenon
    <3> HIDE DEF n
    <3>5. Contract(d)!Notify
      BY Zenon, <2>1, <2>5, <2>6, <2>8, <3>1, <3>2, <3>3, <3>4 DEF Contract!Notify
    <3> QED
      BY Zenon, <3>5 DEF Contract!Step, Contract!Next
  <2> QED
    BY Zenon, <2>7, <2>8
<1> QED
  BY Zenon, <1>1, <1>2, <1>3 DEF Broadcast

\* A peer connects.
LEMMA ConnectStep ==
  ASSUME ServerInv, PeerConnect
  PROVE  \A d \in Conns : Contract(d)!Step
<1>1. /\ peers < MaxConns /\ peer' = [peer EXCEPT ![peers + 1] = "open"]
      /\ UNCHANGED <<sock, torn, out, asked, said>>
  BY Zenon DEF PeerConnect, sockVars
<1>2. peers + 1 \in Conns /\ peers + 1 > peers /\ peers + 1 > accepted
  BY <1>1, BoundFacts DEF ServerInv, TypeOK, ServerTypes, WireTypes, OrderOK
<1>3. peer[peers + 1] = "none" /\ sock[peers + 1] = "none"
  BY Zenon, <1>2 DEF ServerInv, SocketsOK, SocketOK
<1>4. asked[peers + 1] = <<>> /\ said[peers + 1] = {}
  BY Zenon, <1>2, <1>3 DEF ServerInv, RequestsOK, RequestOK, AnswersOK, AnswerOK
<1> SUFFICES ASSUME NEW d \in Conns PROVE Contract(d)!Step
  BY Zenon
<1>5. CASE d # peers + 1
  <2>1. Life(d)' = Life(d)
    BY Zenon, <1>1, <1>5 DEF Life, ServerInv, TypeOK, WireTypes
  <2> QED
    BY ZenonT(30), <1>1, <2>1, StutterStep
<1>6. CASE d = peers + 1
  <2>1. Life(d) = "new" /\ Life(d)' = "up"
    BY ZenonT(30), <1>1, <1>2, <1>3, <1>6 DEF Life, ServerInv, TypeOK, WireTypes
  <2>2. asked[d] = <<>> /\ Greeted(d)' = "no"
    BY ZenonT(30), <1>1, <1>4, <1>6 DEF Greeted
  <2>3. Contract(d)!Open
    BY ZenonT(30), <1>1, <2>1, <2>2 DEF Contract!Open
  <2> QED
    BY Zenon, <2>3 DEF Contract!Step, Contract!Next
<1> QED
  BY Zenon, <1>5, <1>6

\* A peer sends, reads or closes.
LEMMA PeerStep ==
  ASSUME ServerInv, NEW c \in Conns, Peer(c)
  PROVE  \A d \in Conns : Contract(d)!Step
<1> SUFFICES ASSUME NEW d \in Conns PROVE Contract(d)!Step
  BY Zenon
<1>1. /\ peer \in [Conns -> {"none", "open", "gone"}] /\ out \in [Conns -> Seq(Written)]
      /\ asked \in [Conns -> Seq(Nat)] /\ sent[c] \in Nat
  BY Zenon DEF ServerInv, TypeOK, WireTypes
<1>2. ASSUME NEW kind \in Kinds, PeerSend(c, kind) PROVE Contract(d)!Step
  <2>1. /\ peer[c] = "open" /\ sock[c] \in {"none", "open"}
        /\ asked' = [asked EXCEPT ![c] = Append(@, sent[c] + 1)]
        /\ UNCHANGED <<sock, peer, torn, out, said>>
    BY Zenon, <1>2 DEF PeerSend, sockVars
  <2>2. Life(d)' = Life(d) /\ Greeted(d)' = Greeted(d) /\ Life(c) = "up"
    BY Zenon, <2>1 DEF Life, Greeted
  <2>3. CASE d # c
    BY ZenonT(30), <1>1, <2>1, <2>2, <2>3, StutterStep
  <2>4. CASE d = c
    <3>1. asked'[d] = Append(asked[d], sent[c] + 1) /\ asked[d] \in Seq(Nat) /\ sent[c] + 1 \in Nat
      BY <1>1, <2>1, <2>4
    <3>2. Len(asked'[d]) = Len(asked[d]) + 1 /\ asked'[d][Len(asked'[d])] = sent[c] + 1
      BY <3>1, AppendFacts
    <3>3. Contract(d)!Ask
      BY ZenonT(30), <2>1, <2>2, <2>4, <3>1, <3>2 DEF Contract!Ask
    <3> QED
      BY Zenon, <3>3 DEF Contract!Step, Contract!Next
  <2> QED
    BY ZenonT(30), <2>3, <2>4
<1>3. CASE PeerRead(c)
  <2>1. /\ out[c] # <<>> /\ out' = [out EXCEPT ![c] = Tail(@)]
        /\ UNCHANGED <<sock, peer, torn, asked, said>>
    BY Zenon, <1>3 DEF PeerRead, sockVars
  <2>2. Life(d)' = Life(d)
    BY Zenon, <2>1 DEF Life
  <2>3. CASE d # c
    BY ZenonT(30), <1>1, <2>1, <2>2, <2>3, StutterStep
  <2>4. CASE d = c
    <3>1. out'[d] = Tail(out[d]) /\ out[d] \in Seq(Written) /\ out[d] # <<>>
      BY Zenon, <1>1, <2>1, <2>4
    <3>2. Tail(out[d]) = SubSeq(out[d], 1 + 1, Len(out[d])) /\ 1 \in 1..Len(out[d])
      BY <3>1
    <3> QED
      BY Zenon, <2>1, <2>2, <3>1, <3>2, ReceiveStep
  <2> QED
    BY Zenon, <2>3, <2>4
<1>4. CASE PeerClose(c)
  <2>1. /\ peer[c] = "open" /\ peer' = [peer EXCEPT ![c] = "gone"]
        /\ out' = [out EXCEPT ![c] = <<>>] /\ UNCHANGED <<sock, torn, asked, said>>
    BY Zenon, <1>4 DEF PeerClose, sockVars
  <2>2. CASE d # c
    <3>1. Life(d)' = Life(d) /\ out'[d] = out[d]
      BY Zenon, <1>1, <2>1, <2>2 DEF Life
    <3> QED
      BY Zenon, <2>1, <3>1, StutterStep
  <2>3. CASE d = c /\ Life(d) = "up"
    <3>1. Life(d)' = "down" /\ out'[d] = <<>> /\ out[d] \in Seq(Written)
      BY Zenon, <1>1, <2>1, <2>3 DEF Life
    <3> QED
      BY Zenon, <2>1, <2>3, <3>1, CloseStep
  <2>4. CASE d = c /\ Life(d) # "up"
    <3>1. Life(d)' = Life(d) /\ out'[d] = <<>> /\ out[d] \in Seq(Written)
      BY Zenon, <1>1, <2>1, <2>4 DEF Life
    <3>2. CASE out[d] = <<>>
      BY ZenonT(30), <2>1, <3>1, <3>2, StutterStep
    <3>3. CASE out[d] # <<>>
      <4>1. /\ Len(out[d]) \in 1..Len(out[d])
            /\ SubSeq(out[d], Len(out[d]) + 1, Len(out[d])) = <<>>
        BY <3>1, <3>3
      <4> QED
        BY Zenon, <2>1, <3>1, <4>1, ReceiveStep
    <3> QED
      BY Zenon, <3>2, <3>3
  <2> QED
    BY Zenon, <2>2, <2>3, <2>4
<1> QED
  BY ZenonT(30), <1>2, <1>3, <1>4 DEF Peer

\* The server behaves on every connection as RpcPeer says, for any number of connections,
\* notifiers and frames: every step of the server and of its peers is a step of the
\* contract of each connection, or leaves it alone.
THEOREM ServerServesPeers == Spec => ServesPeers
<1>1. ASSUME Init PROVE \A c \in Conns : Contract(c)!Init
  <2> SUFFICES ASSUME NEW c \in Conns PROVE Contract(c)!Init
    BY Zenon
  <2>1. /\ peer[c] = "none" /\ out[c] = <<>> /\ torn[c] = FALSE /\ asked[c] = <<>>
    BY Zenon, <1>1 DEF Init
  <2> QED
    BY Zenon, <2>1 DEF Contract!Init, Life
<1>2. ASSUME ServerInv, Next PROVE \A c \in Conns : Contract(c)!Step
  BY ZenonT(30), <1>2, MainStep, RunStep, PeerStep, BroadcastStep, ConnectStep DEF Next
<1>3. ASSUME ServerInv, [Next]_vars PROVE [\A c \in Conns : Contract(c)!Step]_vars
  BY Zenon, <1>2, <1>3
<1> QED
  BY <1>1, <1>3, ServerInvariant, PTL DEF Spec, ServesPeers

=============================================================================
