------------------------- MODULE TcpRpcServerSteps --------------------------
(***************************************************************************)
(* The inductive invariant ServerInv of TcpRpcServer.  Beyond the types it *)
(* says                                                                    *)
(*   - how far the accept thread and stop() are,                           *)
(*   - which state of the socket goes with fd_, the thread and the peer,   *)
(*   - who holds writeMutex_, and on what,                                 *)
(*   - that requests are numbered through, from the socket to the answer,  *)
(*   - that an answer that ends the connection is its last one.            *)
(* The accept thread, stop(), the peers, and the threads of the            *)
(* connections up to the answer preserve it; TcpRpcServerProofs has the    *)
(* remaining steps.                                                        *)
(***************************************************************************)
EXTENDS TcpRpcServer, WellFoundedInduction, TLAPS

CastLocs == {"idle", "snap", "cast", "castLock", "castSend"}
Locs ==
  CastLocs \cup {"none", "work", "recv", "replyLock", "replySend", "replyFailed", "after",
                 "setNotif", "close", "closeLock", "finish", "done"}
Frame == [kind : {"version", "call", "unknown", "stray", "bad"}, id : Nat]
Replies == [kind : Answers, id : Nat, verdict : {"none", "on", "off", "incompatible"},
            drop : BOOLEAN]
Written == [kind : Answers \cup {"Notification"}, id : Nat]

ServerTypes ==
  /\ running \in BOOLEAN /\ listening \in BOOLEAN
  /\ mainPc \in {"idle", "stopListen", "stopJoin", "stopNext", "stopClose", "stopWait"}
  /\ mainTodo \in SUBSET Conns /\ listed \in SUBSET Conns
  /\ acceptPc \in {"poll", "accept", "done"} /\ accepted \in Nat

SocketTypes ==
  /\ fd \in [Conns -> BOOLEAN]
  /\ sock \in [Conns -> {"none", "open", "shut", "closed"}]
  /\ writeMutex \in [Conns -> Writers \cup {None}]
  /\ closed \in [Conns -> BOOLEAN] /\ compatible \in [Conns -> BOOLEAN]
  /\ notifications \in [Conns -> BOOLEAN]

ThreadTypes ==
  /\ pc \in [Writers -> Locs] /\ \A n \in Notifiers : pc[n] \in CastLocs
  /\ todo \in [Writers -> SUBSET Conns]

RequestTypes == frames \in [Conns -> Seq(Frame)] /\ reply \in [Conns -> Replies]

WireTypes ==
  /\ peers \in Nat /\ peers <= MaxConns /\ peer \in [Conns -> {"none", "open", "gone"}]
  /\ inq \in [Conns -> Seq(Frame)] /\ out \in [Conns -> Seq(Written)]
  /\ torn \in [Conns -> BOOLEAN] /\ asked \in [Conns -> Seq(Nat)]
  /\ said \in [Conns -> SUBSET {"on", "off", "incompatible"}]
  /\ sent \in [Conns -> Nat] /\ casts \in Nat /\ starts \in Nat

\* The state of the server: every variable has its type.
TypeOK == ServerTypes /\ SocketTypes /\ ThreadTypes /\ RequestTypes /\ WireTypes

-----------------------------------------------------------------------------
\* Peers are accepted in the order in which they connect; stop() has a connection in
\* its hands while it closes or joins one.
OrderOK ==
  /\ accepted <= peers
  /\ acceptPc = "accept" /\ listening => accepted < peers
  /\ mainPc \in {"stopClose", "stopWait"} => mainTodo # {}

\* A socket exists once its connection was accepted, fd_ while nobody closes it.
SocketOK(c) ==
  /\ fd[c] <=> sock[c] = "open"
  /\ pc[c] = "none" <=> sock[c] = "none"
  /\ c > accepted => sock[c] = "none"
  /\ peer[c] = "none" <=> c > peers
  /\ pc[c] \in {"closeLock", "finish", "done"} => sock[c] # "open"
SocketsOK == \A c \in Conns : SocketOK(c)

\* A broadcast goes to compatible connections; a writer holds writeMutex_ of its target.
HolderOK(w) ==
  /\ pc[w] \in {"castLock", "castSend"} => todo[w] # {} /\ compatible[Min(todo[w])]
  /\ Writing(w) => sock[Target(w)] \in {"open", "shut"} /\ writeMutex[Target(w)] = w
HoldersOK == \A w \in Writers : HolderOK(w)

\* Whoever closes is alone with a socket that was shut down.
CloserOK(c) ==
  /\ pc[c] = "closeLock" => sock[c] = "shut"
  /\ mainPc = "stopClose" /\ c = Min(mainTodo) => sock[c] = "shut" /\ pc[c] # "closeLock"
ClosersOK == \A c \in Conns : CloserOK(c)

\* The thread of a connection has taken a request and not answered it yet.
Pending(c) == pc[c] \in {"snap", "cast", "castLock", "castSend", "replyLock", "replySend"}

\* Frames, or numbers, are consecutive up to last.
Numbered(q, last) == \A i \in 1..Len(q) : q[i].id = last - Len(q) + i
Counted(q, last) == \A i \in 1..Len(q) : q[i] = last - Len(q) + i

\* Requests are numbered through: those received and not parsed, those parsed, the one
\* being processed.  While the connection is up these are the ones not answered.
RequestOK(c) ==
  /\ Counted(asked[c], sent[c]) /\ Numbered(inq[c], sent[c])
  /\ Numbered(frames[c], sent[c] - Len(inq[c]))
  /\ peer[c] = "none" => asked[c] = <<>> /\ inq[c] = <<>>
  /\ pc[c] \in {"none", "recv"} => frames[c] = <<>>
  /\ Pending(c) => reply[c].id = sent[c] - Len(inq[c]) - Len(frames[c])
  /\ Life(c) = "up" /\ Pending(c) => Len(asked[c]) = Len(frames[c]) + Len(inq[c]) + 1
  /\ Life(c) = "up" /\ pc[c] \in {"none", "work", "recv", "after", "setNotif"}
       => Len(asked[c]) = Len(frames[c]) + Len(inq[c])
RequestsOK == \A c \in Conns : RequestOK(c)

\* What is said of a connection that is up: an answer that breaks off or refuses the
\* version is the last one, and a connection counts as compatible once it was told so.
AnswerOK(c) ==
  /\ reply[c].verdict = "incompatible" => reply[c].drop
  /\ reply[c].kind = "Broken" => reply[c].verdict = "none"
  /\ pc[c] = "replyFailed" => Life(c) # "up"
  /\ peer[c] = "none" => out[c] = <<>> /\ said[c] = {} /\ ~torn[c] /\ ~compatible[c]
  /\ Life(c) = "up" =>
       /\ torn[c] => pc[c] = "close"
       /\ compatible[c] => said[c] # {}
       /\ pc[c] \in {"after", "setNotif"} => {reply[c].verdict} \ {"none"} \subseteq said[c]
       /\ "incompatible" \in said[c] => \/ pc[c] = "close"
                                        \/ pc[c] \in {"after", "setNotif"} /\ reply[c].drop
AnswersOK == \A c \in Conns : AnswerOK(c)

ServerInv ==
  TypeOK /\ OrderOK /\ SocketsOK /\ HoldersOK /\ ClosersOK /\ RequestsOK /\ AnswersOK

-----------------------------------------------------------------------------
(* Facts about the constants and the locations                             *)

\* The least element of a set of naturals
LEMMA MinIsLeast ==
  ASSUME NEW S \in SUBSET Nat, S # {}
  PROVE  Min(S) \in S /\ \A y \in S : Min(S) <= y
<1>1. PICK x \in S : \A y \in S : ~ (<<y, x>> \in OpToRel(<, Nat))
  BY Zenon, NatLessThanWellFounded, WFMin
<1>2. ASSUME NEW y \in S, y < x PROVE FALSE
  <2>1. <<y, x>> \in Nat \X Nat /\ <<y, x>>[1] = y /\ <<y, x>>[2] = x
    BY Zenon
  <2>2. <<y, x>>[1] < <<y, x>>[2]
    BY Zenon, <2>1, <1>2
  <2>3. <<y, x>> \in OpToRel(<, Nat)
    BY Zenon, <2>1, <2>2 DEF OpToRel
  <2> QED
    BY Zenon, <2>3, <1>1
<1>3. \A y \in S : x <= y
  BY <1>2
<1> QED
  BY Zenon, <1>3 DEF Min

\* The connection that stop() or a broadcast comes to next
LEMMA NextConn ==
  ASSUME NEW S \in SUBSET Conns, S # {}
  PROVE  Min(S) \in S /\ Min(S) \in Conns
<1>1. S \in SUBSET Nat
  BY DEF Conns
<1> QED
  BY Zenon, <1>1, MinIsLeast

\* A thread is that of a connection or a notifier, and no mutex value.
LEMMA WriterFacts ==
  /\ Conns \subseteq Writers /\ Conns \subseteq Nat /\ None \notin Writers
  /\ \A w \in Writers : w \in Conns \/ w \in Notifiers
  /\ \A c \in Conns : c \notin Notifiers
  BY ServerAssumption DEF Writers, Conns

\* Where a thread may be
LEMMA LocFacts ==
  /\ "snap" \in CastLocs /\ "cast" \in CastLocs /\ "castLock" \in CastLocs
  /\ "castSend" \in CastLocs /\ "idle" \in CastLocs /\ CastLocs \subseteq Locs
  /\ "work" \in Locs /\ "recv" \in Locs /\ "replyLock" \in Locs /\ "replySend" \in Locs
  /\ "replyFailed" \in Locs /\ "after" \in Locs /\ "setNotif" \in Locs /\ "close" \in Locs
  /\ "closeLock" \in Locs /\ "finish" \in Locs /\ "done" \in Locs /\ "none" \in Locs
  BY Zenon DEF CastLocs, Locs

\* A writer writes to a connection.
LEMMA TargetIsConn ==
  ASSUME ServerInv, NEW w \in Writers, Writing(w)
  PROVE  Target(w) \in Conns
<1>1. CASE pc[w] = "castSend"
  BY Zenon, <1>1, NextConn DEF ServerInv, TypeOK, ThreadTypes, HoldersOK, HolderOK, Target
<1>2. CASE pc[w] = "replySend"
  BY Zenon, <1>2, WriterFacts DEF ServerInv, TypeOK, ThreadTypes, CastLocs, Target
<1> QED
  BY Zenon, <1>1, <1>2 DEF Writing

\* The bounds and the kinds of frames
LEMMA BoundFacts ==
  /\ MaxConns \in Nat /\ \A i \in Nat : i \in Conns <=> 1 <= i /\ i <= MaxConns
  /\ Kinds \subseteq {"version", "call", "unknown", "stray", "bad"}
  /\ Verdicts \subseteq {"invalid", "on", "off", "incompatible"}
  /\ Results \subseteq Answers
  BY ServerAssumption DEF Conns, Answers

\* The connection that is accepted next: there is a peer, so that it has a number.
LEMMA NextAccepted ==
  ASSUME ServerInv, acceptPc = "accept", listening
  PROVE  accepted + 1 \in Conns /\ accepted < peers /\ accepted + 1 > accepted
<1>1. accepted \in Nat /\ peers \in Nat /\ peers <= MaxConns /\ accepted < peers
  BY Zenon DEF ServerInv, TypeOK, ServerTypes, WireTypes, OrderOK
<1> QED
  BY <1>1, BoundFacts

\* The first element of a sequence, and the others
LEMMA TailFacts ==
  ASSUME NEW S, NEW q \in Seq(S), q # <<>>
  PROVE  /\ Head(q) = q[1] /\ Head(q) \in S /\ Tail(q) \in Seq(S)
         /\ Len(Tail(q)) = Len(q) - 1 /\ Len(q) \in Nat \ {0}
         /\ \A i \in 1..Len(q) - 1 : Tail(q)[i] = q[i + 1]
  OBVIOUS

\* The first elements of a sequence, and the others
LEMMA SplitFacts ==
  ASSUME NEW S, NEW q \in Seq(S), NEW n \in 1..Len(q)
  PROVE  /\ SubSeq(q, 1, n) \in Seq(S) /\ Len(SubSeq(q, 1, n)) = n
         /\ \A i \in 1..n : SubSeq(q, 1, n)[i] = q[i]
         /\ SubSeq(q, n + 1, Len(q)) \in Seq(S) /\ Len(SubSeq(q, n + 1, Len(q))) = Len(q) - n
         /\ \A i \in 1..Len(q) - n : SubSeq(q, n + 1, Len(q))[i] = q[n + i]
  OBVIOUS

\* A sequence with one more element
LEMMA AppendFacts ==
  ASSUME NEW S, NEW q \in Seq(S), NEW x \in S
  PROVE  /\ Append(q, x) \in Seq(S) /\ Len(Append(q, x)) = Len(q) + 1
         /\ \A i \in 1..Len(q) : Append(q, x)[i] = q[i]
         /\ Append(q, x)[Len(q) + 1] = x
  OBVIOUS

\* Frames with consecutive numbers stay so without the first one.
LEMMA NumberedTail ==
  ASSUME NEW q \in Seq(Frame), NEW last \in Int, q # <<>>, Numbered(q, last)
  PROVE  Numbered(Tail(q), last) /\ Head(q).id = last - Len(Tail(q))
<1>1. /\ Len(q) \in Nat \ {0} /\ Len(Tail(q)) = Len(q) - 1 /\ Head(q) = q[1]
      /\ \A i \in 1..Len(q) - 1 : Tail(q)[i] = q[i + 1]
  BY Zenon, TailFacts
<1>2. ASSUME NEW i \in 1..Len(Tail(q)) PROVE Tail(q)[i].id = last - Len(Tail(q)) + i
  <2>1. i + 1 \in 1..Len(q) /\ Tail(q)[i] = q[i + 1]
    BY <1>1
  <2>2. q[i + 1].id = last - Len(q) + (i + 1)
    BY Zenon, <2>1 DEF Numbered
  <2> QED
    BY <2>1, <2>2, <1>1
<1>3. q[1].id = last - Len(q) + 1
  BY <1>1 DEF Numbered
<1> QED
  BY <1>1, <1>2, <1>3 DEF Numbered

\* They stay so when the first n are taken, as recv() does, and so do those n.
LEMMA NumberedSplit ==
  ASSUME NEW q \in Seq(Frame), NEW last \in Int, NEW n \in 1..Len(q), Numbered(q, last)
  PROVE  /\ Numbered(SubSeq(q, n + 1, Len(q)), last)
         /\ Numbered(SubSeq(q, 1, n), last - Len(SubSeq(q, n + 1, Len(q))))
<1> DEFINE got == SubSeq(q, 1, n)
           rest == SubSeq(q, n + 1, Len(q))
<1>1. /\ Len(got) = n /\ \A i \in 1..n : got[i] = q[i]
      /\ Len(rest) = Len(q) - n /\ \A i \in 1..Len(q) - n : rest[i] = q[n + i]
      /\ Len(q) \in Nat
  BY SplitFacts
<1> HIDE DEF got, rest
<1>2. ASSUME NEW i \in 1..Len(rest) PROVE rest[i].id = last - Len(rest) + i
  <2>1. n + i \in 1..Len(q) /\ rest[i] = q[n + i]
    BY <1>1
  <2>2. q[n + i].id = last - Len(q) + (n + i)
    BY Zenon, <2>1 DEF Numbered
  <2> QED
    BY <2>1, <2>2, <1>1
<1>3. ASSUME NEW i \in 1..Len(got) PROVE got[i].id = last - Len(rest) - Len(got) + i
  <2>1. i \in 1..Len(q) /\ got[i] = q[i]
    BY <1>1
  <2>2. q[i].id = last - Len(q) + i
    BY Zenon, <2>1 DEF Numbered
  <2> QED
    BY <2>1, <2>2, <1>1
<1>4. Numbered(rest, last) /\ Numbered(got, last - Len(rest))
  BY Zenon, <1>2, <1>3 DEF Numbered
<1> QED
  BY Zenon, <1>4 DEF got, rest

\* They stay so when the peer sends the next one.
LEMMA NumberedAppend ==
  ASSUME NEW q \in Seq(Frame), NEW last \in Int, Numbered(q, last),
         NEW x \in Frame, x.id = last + 1
  PROVE  Numbered(Append(q, x), last + 1)
<1>1. /\ Len(q) \in Nat /\ Len(Append(q, x)) = Len(q) + 1 /\ Append(q, x)[Len(q) + 1] = x
      /\ \A i \in 1..Len(q) : Append(q, x)[i] = q[i]
  BY AppendFacts
<1>2. ASSUME NEW i \in 1..Len(q) PROVE Append(q, x)[i].id = last + 1 - (Len(q) + 1) + i
  <2>1. q[i].id = last - Len(q) + i
    BY Zenon DEF Numbered
  <2> QED
    BY <2>1, <1>1
<1>3. Append(q, x)[Len(q) + 1].id = last + 1 - (Len(q) + 1) + (Len(q) + 1)
  BY <1>1
<1> QED
  BY <1>1, <1>2, <1>3 DEF Numbered

\* The same for the numbers of the requests not answered: the first is answered ...
LEMMA CountedTail ==
  ASSUME NEW q \in Seq(Nat), NEW last \in Int, q # <<>>, Counted(q, last)
  PROVE  Counted(Tail(q), last) /\ Head(q) = last - Len(Tail(q))
<1>1. /\ Len(q) \in Nat \ {0} /\ Len(Tail(q)) = Len(q) - 1 /\ Head(q) = q[1]
      /\ \A i \in 1..Len(q) - 1 : Tail(q)[i] = q[i + 1]
  BY Zenon, TailFacts
<1>2. ASSUME NEW i \in 1..Len(Tail(q)) PROVE Tail(q)[i] = last - Len(Tail(q)) + i
  <2>1. i + 1 \in 1..Len(q) /\ Tail(q)[i] = q[i + 1]
    BY <1>1
  <2>2. q[i + 1] = last - Len(q) + (i + 1)
    BY Zenon, <2>1 DEF Counted
  <2> QED
    BY <2>1, <2>2, <1>1
<1>3. q[1] = last - Len(q) + 1
  BY <1>1 DEF Counted
<1> QED
  BY <1>1, <1>2, <1>3 DEF Counted

\* ... and the next one is asked.
LEMMA CountedAppend ==
  ASSUME NEW q \in Seq(Nat), NEW last \in Nat, Counted(q, last)
  PROVE  Counted(Append(q, last + 1), last + 1)
<1> DEFINE x == last + 1
<1>1. /\ Len(q) \in Nat /\ Len(Append(q, x)) = Len(q) + 1 /\ Append(q, x)[Len(q) + 1] = x
      /\ \A i \in 1..Len(q) : Append(q, x)[i] = q[i]
  BY AppendFacts
<1>2. ASSUME NEW i \in 1..Len(q) PROVE Append(q, x)[i] = last + 1 - (Len(q) + 1) + i
  <2>1. q[i] = last - Len(q) + i
    BY Zenon DEF Counted
  <2> QED
    BY <2>1, <1>1
<1>3. Append(q, x)[Len(q) + 1] = last + 1 - (Len(q) + 1) + (Len(q) + 1)
  BY <1>1
<1> QED
  BY <1>1, <1>2, <1>3 DEF Counted

\* The empty sequence has no element.
LEMMA EmptySeq == Len(<<>>) = 0
  BY Zenon

\* Counts of requests
LEMMA CountFacts ==
  ASSUME NEW x \in Nat, NEW y \in Nat, NEW z \in Nat
  PROVE  /\ z = x + y + 1 => z # 0 /\ z - 1 = x + y
         /\ x + y = (x - 1) + y + 1
         /\ z = x + y => z + 1 = x + (y + 1)
         /\ z = x + y + 1 => z + 1 = x + (y + 1) + 1
  OBVIOUS

\* A thread goes to a location of its own.
LEMMA GotoFacts ==
  ASSUME TypeOK, NEW w \in Writers, NEW l \in Locs, w \in Notifiers => l \in CastLocs,
         pc' = [pc EXCEPT ![w] = l]
  PROVE  pc' \in [Writers -> Locs] /\ \A n \in Notifiers : pc'[n] \in CastLocs
<1>1. pc' \in [Writers -> Locs]
  BY Zenon DEF TypeOK, ThreadTypes
<1>2. ASSUME NEW n \in Notifiers PROVE pc'[n] \in CastLocs
  <2>1. n \in Writers
    BY Zenon DEF Writers
  <2> QED
    BY Zenon, <2>1 DEF TypeOK, ThreadTypes
<1> QED
  BY Zenon, <1>1, <1>2

\* A conjunct of the invariant holds on while the variables it speaks of keep their values.
LEMMA SameServerTypes ==
  ASSUME ServerTypes, acceptPc' = acceptPc, accepted' = accepted, listed' = listed,
         listening' = listening, mainPc' = mainPc, mainTodo' = mainTodo, running' =
         running
  PROVE  ServerTypes'
  BY Zenon DEF ServerTypes

\* The same for the sockets
LEMMA SameSocketTypes ==
  ASSUME SocketTypes, closed' = closed, compatible' = compatible, fd' = fd, notifications'
         = notifications, sock' = sock, writeMutex' = writeMutex
  PROVE  SocketTypes'
  BY Zenon DEF SocketTypes

\* The same for the threads
LEMMA SameThreadTypes ==
  ASSUME ThreadTypes, pc' = pc, todo' = todo
  PROVE  ThreadTypes'
  BY Zenon DEF ThreadTypes

\* The thread of a connection moves on, and no broadcast begins or goes on.
LEMMA ThreadGoto ==
  ASSUME TypeOK, NEW c \in Conns, NEW l \in Locs, pc' = [pc EXCEPT ![c] = l], todo' = todo
  PROVE  ThreadTypes'
<1>1. c \in Writers /\ c \notin Notifiers
  BY Zenon, WriterFacts
<1>2. pc' \in [Writers -> Locs] /\ \A n \in Notifiers : pc'[n] \in CastLocs
  BY Zenon, <1>1, GotoFacts
<1> QED
  BY Zenon, <1>2 DEF TypeOK, ThreadTypes

\* The same for the requests
LEMMA SameRequestTypes ==
  ASSUME RequestTypes, frames' = frames, reply' = reply
  PROVE  RequestTypes'
  BY Zenon DEF RequestTypes

\* The same for the connections
LEMMA SameWireTypes ==
  ASSUME WireTypes, asked' = asked, casts' = casts, inq' = inq, out' = out, peer' = peer,
         peers' = peers, said' = said, sent' = sent, starts' = starts, torn' = torn
  PROVE  WireTypes'
  BY Zenon DEF WireTypes

\* The same for the order of accept() and stop()
LEMMA SameOrderOK ==
  ASSUME OrderOK, acceptPc' = acceptPc, accepted' = accepted, listening' = listening,
         mainPc' = mainPc, mainTodo' = mainTodo, peers' = peers
  PROVE  OrderOK'
  BY Zenon DEF OrderOK

\* The same for sockets, threads and peers
LEMMA SameSocketsOK ==
  ASSUME SocketsOK, accepted' = accepted, fd' = fd, pc' = pc, peer' = peer, peers' =
         peers, sock' = sock
  PROVE  SocketsOK'
  BY Zenon DEF SocketsOK, SocketOK

\* The same for the holders of writeMutex_
LEMMA SameHoldersOK ==
  ASSUME HoldersOK, compatible' = compatible, pc' = pc, sock' = sock, todo' = todo,
         writeMutex' = writeMutex
  PROVE  HoldersOK'
  BY Zenon DEF HoldersOK, HolderOK, Writing, Target

\* The same for those who close
LEMMA SameClosersOK ==
  ASSUME ClosersOK, mainPc' = mainPc, mainTodo' = mainTodo, pc' = pc, sock' = sock
  PROVE  ClosersOK'
  BY Zenon DEF ClosersOK, CloserOK

\* The same for the numbers of the requests
LEMMA SameRequestsOK ==
  ASSUME RequestsOK, asked' = asked, frames' = frames, inq' = inq, pc' = pc, peer' = peer,
         reply' = reply, sent' = sent, sock' = sock
  PROVE  RequestsOK'
  BY Zenon DEF RequestsOK, RequestOK, Pending, Life

\* The same for the answers
LEMMA SameAnswersOK ==
  ASSUME AnswersOK, asked' = asked, compatible' = compatible, out' = out, pc' = pc, peer'
         = peer, reply' = reply, said' = said, sock' = sock, torn' = torn
  PROVE  AnswersOK'
  BY Zenon DEF AnswersOK, AnswerOK, Life

\* A step of one thread that moves no socket leaves everyone's closing alone, unless it
\* starts to close.
LEMMA ClosersGoto ==
  ASSUME ServerInv, NEW w \in Writers, NEW l, l # "closeLock", pc' = [pc EXCEPT ![w] = l],
         mainPc' = mainPc, mainTodo' = mainTodo, sock' = sock
  PROVE  ClosersOK'
<1> SUFFICES ASSUME NEW d \in Conns PROVE CloserOK(d)'
  BY Zenon DEF ClosersOK
<1>1. CloserOK(d)
  BY Zenon DEF ServerInv, ClosersOK
<1>2. pc'[d] = "closeLock" => pc[d] = "closeLock"
  BY Zenon, WriterFacts DEF ServerInv, TypeOK, ThreadTypes
<1> QED
  BY Zenon, <1>1, <1>2 DEF CloserOK

\* A step of one thread that reads and writes no frame leaves the numbers of the requests
\* alone, if it neither takes up a request nor is done with one.
LEMMA RequestsGoto ==
  ASSUME ServerInv, NEW w \in Writers, NEW l, pc' = [pc EXCEPT ![w] = l],
         asked' = asked, frames' = frames, inq' = inq, peer' = peer, reply' = reply,
         sent' = sent, sock' = sock, l \notin {"none", "recv"},
         l \in {"snap", "cast", "castLock", "castSend", "replyLock", "replySend"} =>
           w \notin Conns \/ Pending(w),
         l \in {"work", "after", "setNotif"} =>
           w \notin Conns \/ Life(w) # "up" \/ pc[w] \in {"none", "work", "recv", "after", "setNotif"}
  PROVE  RequestsOK'
<1> SUFFICES ASSUME NEW d \in Conns PROVE RequestOK(d)'
  BY Zenon DEF RequestsOK
<1>1. RequestOK(d)
  BY Zenon DEF ServerInv, RequestsOK
<1>2. d \in Writers /\ Life(d)' = Life(d)
  BY Zenon, WriterFacts DEF Life
<1>3. CASE d = w
  <2>1. pc'[d] = l
    BY Zenon, <1>2, <1>3 DEF ServerInv, TypeOK, ThreadTypes
  <2>2. Pending(d)' => Pending(d)
    BY Zenon, <1>3, <2>1 DEF Pending
  <2> QED
    BY Zenon, <1>1, <1>2, <1>3, <2>1, <2>2 DEF RequestOK
<1>4. CASE d # w
  <2>1. pc'[d] = pc[d]
    BY Zenon, <1>2, <1>4 DEF ServerInv, TypeOK, ThreadTypes
  <2> QED
    BY Zenon, <1>1, <1>2, <2>1 DEF RequestOK, Pending
<1> QED
  BY Zenon, <1>3, <1>4

\* The same for what the peers were told
LEMMA AnswersGoto ==
  ASSUME ServerInv, NEW w \in Writers, NEW l, pc' = [pc EXCEPT ![w] = l],
         compatible' = compatible, out' = out, peer' = peer, reply' = reply, said' = said,
         sock' = sock, torn' = torn, l \notin {"replyFailed", "after", "setNotif"},
         pc[w] \notin {"close", "after", "setNotif"}
  PROVE  AnswersOK'
<1> SUFFICES ASSUME NEW d \in Conns PROVE AnswerOK(d)'
  BY Zenon DEF AnswersOK
<1>1. AnswerOK(d)
  BY Zenon DEF ServerInv, AnswersOK
<1>2. d \in Writers /\ Life(d)' = Life(d)
  BY Zenon, WriterFacts DEF Life
<1>3. CASE d = w
  <2>1. pc'[d] = l
    BY Zenon, <1>2, <1>3 DEF ServerInv, TypeOK, ThreadTypes
  <2> QED
    BY Zenon, <1>1, <1>2, <1>3, <2>1 DEF AnswerOK
<1>4. CASE d # w
  <2>1. pc'[d] = pc[d]
    BY Zenon, <1>2, <1>4 DEF ServerInv, TypeOK, ThreadTypes
  <2> QED
    BY Zenon, <1>1, <1>2, <2>1 DEF AnswerOK
<1> QED
  BY Zenon, <1>3, <1>4

\* The same for the descriptors
LEMMA SocketsGoto ==
  ASSUME ServerInv, NEW w \in Writers, NEW l, pc' = [pc EXCEPT ![w] = l],
         accepted' = accepted, fd' = fd, peer' = peer, peers' = peers, sock' = sock,
         pc[w] # "none", l \notin {"none", "closeLock", "finish", "done"}
  PROVE  SocketsOK'
<1> SUFFICES ASSUME NEW d \in Conns PROVE SocketOK(d)'
  BY Zenon DEF SocketsOK
<1>1. SocketOK(d)
  BY Zenon DEF ServerInv, SocketsOK
<1>2. d \in Writers
  BY Zenon, WriterFacts
<1>3. CASE d = w
  <2>1. pc'[d] = l
    BY Zenon, <1>2, <1>3 DEF ServerInv, TypeOK, ThreadTypes
  <2> QED
    BY Zenon, <1>1, <1>3, <2>1 DEF SocketOK
<1>4. CASE d # w
  <2>1. pc'[d] = pc[d]
    BY Zenon, <1>2, <1>4 DEF ServerInv, TypeOK, ThreadTypes
  <2> QED
    BY Zenon, <1>1, <2>1 DEF SocketOK
<1> QED
  BY Zenon, <1>3, <1>4

-----------------------------------------------------------------------------
(* start(), stop() and acceptLoop() preserve the invariant                 *)

\* start() preserves the invariant.
LEMMA StartKeeps ==
  ASSUME ServerInv, Start
  PROVE  ServerInv'
<1>1. /\ mainPc = "idle"
      /\ starts' = starts + 1
      /\ running' = TRUE
      /\ listening' = TRUE
      /\ acceptPc' = "poll"
  BY Zenon DEF Start
<1>2. UNCHANGED <<mainPc, mainTodo, accepted, listed, fd, sock, writeMutex, closed,
                  compatible, notifications, pc, frames, reply, todo, peers, peer, inq,
                  out, torn, asked, said, sent, casts>>
  BY Zenon DEF Start, serverVars, sockVars, flagVars, wireVars, boundVars
<1>3. SocketTypes' /\ ThreadTypes' /\ RequestTypes' /\ SocketsOK' /\ HoldersOK' /\
         ClosersOK' /\ RequestsOK' /\ AnswersOK'
  BY Zenon, <1>2, SameSocketTypes, SameThreadTypes, SameRequestTypes, SameSocketsOK,
     SameHoldersOK, SameClosersOK, SameRequestsOK, SameAnswersOK DEF ServerInv, TypeOK
<1>4. ServerTypes'
  BY Zenon, <1>1, <1>2 DEF ServerInv, TypeOK, ServerTypes
<1>5. WireTypes'
  BY <1>1, <1>2 DEF ServerInv, TypeOK, WireTypes
<1>6. OrderOK'
  BY Zenon, <1>1, <1>2 DEF ServerInv, TypeOK, OrderOK
<1> QED
  BY Zenon, <1>3, <1>4, <1>5, <1>6 DEF ServerInv, TypeOK

\* So does the beginning of stop(), which clears running_.
LEMMA StopBeginKeeps ==
  ASSUME ServerInv, StopBegin
  PROVE  ServerInv'
<1>1. /\ mainPc = "idle"
      /\ running' = FALSE
      /\ mainPc' = "stopListen"
  BY Zenon DEF StopBegin
<1>2. UNCHANGED <<listening, mainTodo, acceptPc, accepted, listed, fd, sock, writeMutex,
                  closed, compatible, notifications, pc, frames, reply, todo, peers, peer,
                  inq, out, torn, asked, said, sent, casts, starts>>
  BY Zenon DEF StopBegin, serverVars, sockVars, flagVars, wireVars, boundVars
<1>3. SocketTypes' /\ ThreadTypes' /\ RequestTypes' /\ WireTypes' /\ SocketsOK' /\
         HoldersOK' /\ RequestsOK' /\ AnswersOK'
  BY Zenon, <1>2, SameSocketTypes, SameThreadTypes, SameRequestTypes, SameWireTypes,
     SameSocketsOK, SameHoldersOK, SameRequestsOK, SameAnswersOK DEF ServerInv, TypeOK
<1>4. ServerTypes'
  BY Zenon, <1>1, <1>2 DEF ServerInv, TypeOK, ServerTypes
<1>5. OrderOK'
  BY Zenon, <1>1, <1>2 DEF ServerInv, TypeOK, OrderOK
<1>6. ClosersOK'
  <2> SUFFICES ASSUME NEW d \in Conns PROVE CloserOK(d)'
    BY Zenon DEF ClosersOK
  <2>1. CloserOK(d)
    BY Zenon DEF ServerInv, ClosersOK
  <2> QED
    BY Zenon, <2>1, <1>1, <1>2, WriterFacts DEF ServerInv, TypeOK, CloserOK, ThreadTypes,
       SocketTypes
<1> QED
  BY Zenon, <1>3, <1>4, <1>5, <1>6 DEF ServerInv, TypeOK

\* stop() closes the listening socket: the peers that were not accepted are gone.
LEMMA StopListenKeeps ==
  ASSUME ServerInv, StopListen
  PROVE  ServerInv'
<1>1. /\ mainPc = "stopListen"
      /\ listening' = FALSE
      /\ mainPc' = "stopJoin"
      /\ accepted' = peers
      /\ peer' = [c \in Conns |-> IF c \in accepted + 1..peers THEN "gone" ELSE peer[c]]
  BY Zenon DEF StopListen
<1>2. UNCHANGED <<running, mainTodo, acceptPc, listed, fd, sock, writeMutex, closed,
                  compatible, notifications, pc, frames, reply, todo, peers, inq, out,
                  torn, asked, said, sent, casts, starts>>
  BY Zenon DEF StopListen, serverVars, sockVars, flagVars, wireVars, boundVars
<1>3. SocketTypes' /\ ThreadTypes' /\ RequestTypes' /\ HoldersOK'
  BY Zenon, <1>2, SameSocketTypes, SameThreadTypes, SameRequestTypes, SameHoldersOK DEF
     ServerInv, TypeOK
<1>4. ServerTypes'
  BY Zenon, <1>1, <1>2 DEF ServerInv, TypeOK, ServerTypes, WireTypes
<1>5. WireTypes'
  BY Zenon, <1>1, <1>2 DEF ServerInv, TypeOK, WireTypes
<1>6. OrderOK'
  <2>1. OrderOK /\ peers \in Nat
    BY Zenon DEF ServerInv, TypeOK, WireTypes
  <2>2. accepted' <= peers'
    BY <2>1, <1>1, <1>2
  <2> QED
    BY Zenon, <2>1, <2>2, <1>1, <1>2 DEF OrderOK
<1>7. SocketsOK'
  <2> SUFFICES ASSUME NEW d \in Conns PROVE SocketOK(d)'
    BY Zenon DEF SocketsOK
  <2>1. SocketOK(d)
    BY Zenon DEF ServerInv, SocketsOK
  <2> QED
    BY <2>1, <1>1, <1>2, WriterFacts, BoundFacts DEF ServerInv, TypeOK, SocketOK,
       ThreadTypes, SocketTypes, WireTypes, OrderOK, ServerTypes, Conns
<1>8. ClosersOK'
  <2> SUFFICES ASSUME NEW d \in Conns PROVE CloserOK(d)'
    BY Zenon DEF ClosersOK
  <2>1. CloserOK(d)
    BY Zenon DEF ServerInv, ClosersOK
  <2> QED
    BY Zenon, <2>1, <1>1, <1>2, WriterFacts DEF ServerInv, TypeOK, CloserOK, ThreadTypes,
       SocketTypes
<1>9. RequestsOK'
  <2> SUFFICES ASSUME NEW d \in Conns PROVE RequestOK(d)'
    BY Zenon DEF RequestsOK
  <2>1. RequestOK(d)
    BY Zenon DEF ServerInv, RequestsOK
  <2> QED
    BY Zenon, <2>1, <1>1, <1>2, WriterFacts DEF ServerInv, TypeOK, RequestOK, Pending, Life,
       ThreadTypes, SocketTypes, RequestTypes, WireTypes
<1>10. AnswersOK'
  <2> SUFFICES ASSUME NEW d \in Conns PROVE AnswerOK(d)'
    BY Zenon DEF AnswersOK
  <2>1. AnswerOK(d)
    BY Zenon DEF ServerInv, AnswersOK
  <2> QED
    BY Zenon, <2>1, <1>1, <1>2, WriterFacts DEF ServerInv, TypeOK, AnswerOK, Life, ThreadTypes,
       SocketTypes, RequestTypes, WireTypes
<1> QED
  BY Zenon, <1>3, <1>4, <1>5, <1>6, <1>7, <1>8, <1>9, <1>10 DEF ServerInv, TypeOK

\* stop() joins the accept thread and takes connections_ over.
LEMMA StopJoinKeeps ==
  ASSUME ServerInv, StopJoin
  PROVE  ServerInv'
<1>1. /\ mainPc = "stopJoin"
      /\ mainTodo' = listed
      /\ listed' = {}
      /\ mainPc' = "stopNext"
  BY Zenon DEF StopJoin
<1>2. UNCHANGED <<running, listening, acceptPc, accepted, fd, sock, writeMutex, closed,
                  compatible, notifications, pc, frames, reply, todo, peers, peer, inq,
                  out, torn, asked, said, sent, casts, starts>>
  BY Zenon DEF StopJoin, serverVars, sockVars, flagVars, wireVars, boundVars
<1>3. SocketTypes' /\ ThreadTypes' /\ RequestTypes' /\ WireTypes' /\ SocketsOK' /\
         HoldersOK' /\ RequestsOK' /\ AnswersOK'
  BY Zenon, <1>2, SameSocketTypes, SameThreadTypes, SameRequestTypes, SameWireTypes,
     SameSocketsOK, SameHoldersOK, SameRequestsOK, SameAnswersOK DEF ServerInv, TypeOK
<1>4. ServerTypes'
  BY Zenon, <1>1, <1>2 DEF ServerInv, TypeOK, ServerTypes
<1>5. OrderOK'
  BY Zenon, <1>1, <1>2 DEF ServerInv, TypeOK, OrderOK
<1>6. ClosersOK'
  <2> SUFFICES ASSUME NEW d \in Conns PROVE CloserOK(d)'
    BY Zenon DEF ClosersOK
  <2>1. CloserOK(d)
    BY Zenon DEF ServerInv, ClosersOK
  <2> QED
    BY Zenon, <2>1, <1>1, <1>2, WriterFacts DEF ServerInv, TypeOK, CloserOK, ThreadTypes,
       SocketTypes
<1> QED
  BY Zenon, <1>3, <1>4, <1>5, <1>6 DEF ServerInv, TypeOK

\* Connection::stop() exchanges fd_ and shuts the socket down.
LEMMA StopNextShuts ==
  ASSUME ServerInv, StopNext,
         mainTodo # {}, fd[Min(mainTodo)]
  PROVE  ServerInv'
<1>1. /\ mainPc' = "stopClose"
      /\ fd' = [fd EXCEPT ![Min(mainTodo)] = FALSE]
      /\ sock' = [sock EXCEPT ![Min(mainTodo)] = "shut"]
  BY Zenon DEF StopNext, ShutSocket
<1>2. UNCHANGED <<running, listening, mainTodo, acceptPc, accepted, listed, writeMutex,
                  closed, compatible, notifications, pc, frames, reply, todo, peers, peer,
                  inq, out, torn, asked, said, sent, casts, starts>>
  BY Zenon DEF StopNext, serverVars, sockVars, flagVars, wireVars, boundVars, ShutSocket
<1>3. Min(mainTodo) \in Conns
  BY Zenon, NextConn DEF ServerInv, TypeOK, ServerTypes
<1>4. SocketOK(Min(mainTodo))
  BY Zenon, <1>3 DEF ServerInv, SocketsOK
<1>5. ThreadTypes' /\ RequestTypes' /\ WireTypes'
  BY Zenon, <1>2, SameThreadTypes, SameRequestTypes, SameWireTypes DEF ServerInv, TypeOK
<1>6. ServerTypes'
  BY Zenon, <1>1, <1>2, <1>3, <1>4 DEF ServerInv, TypeOK, ServerTypes
<1>7. SocketTypes'
  BY Zenon, <1>1, <1>2, <1>3, <1>4, WriterFacts DEF ServerInv, TypeOK, SocketTypes
<1>8. OrderOK'
  BY Zenon, <1>1, <1>2, <1>3, <1>4 DEF ServerInv, TypeOK, OrderOK
<1>9. SocketsOK'
  <2> SUFFICES ASSUME NEW d \in Conns PROVE SocketOK(d)'
    BY Zenon DEF SocketsOK
  <2>1. SocketOK(d)
    BY Zenon DEF ServerInv, SocketsOK
  <2> QED
    BY Zenon, <2>1, <1>1, <1>2, <1>3, <1>4, WriterFacts DEF ServerInv, TypeOK, SocketOK,
       ThreadTypes, SocketTypes
<1>10. HoldersOK'
  <2> SUFFICES ASSUME NEW u \in Writers PROVE HolderOK(u)'
    BY Zenon DEF HoldersOK
  <2>1. HolderOK(u)
    BY Zenon DEF ServerInv, HoldersOK
  <2>2. Writing(u) => Target(u) \in Conns
    BY Zenon, TargetIsConn
  <2>3. todo[u] # {} => Min(todo[u]) \in Conns
    BY Zenon, NextConn DEF ServerInv, TypeOK, ThreadTypes
  <2> QED
    BY Zenon, <2>1, <2>2, <2>3, <1>1, <1>2, <1>3, <1>4, WriterFacts DEF ServerInv, TypeOK,
       HolderOK, Writing, Target, ThreadTypes, SocketTypes, SocketOK
<1>11. ClosersOK'
  <2> SUFFICES ASSUME NEW d \in Conns PROVE CloserOK(d)'
    BY Zenon DEF ClosersOK
  <2>1. CloserOK(d)
    BY Zenon DEF ServerInv, ClosersOK
  <2> QED
    BY Zenon, <2>1, <1>1, <1>2, <1>3, <1>4, WriterFacts DEF ServerInv, TypeOK, CloserOK,
       ThreadTypes, SocketTypes, SocketOK
<1>12. RequestsOK'
  <2> SUFFICES ASSUME NEW d \in Conns PROVE RequestOK(d)'
    BY Zenon DEF RequestsOK
  <2>1. RequestOK(d)
    BY Zenon DEF ServerInv, RequestsOK
  <2> QED
    BY Zenon, <2>1, <1>1, <1>2, <1>3, <1>4, WriterFacts DEF ServerInv, TypeOK, RequestOK,
       Pending, Life, ThreadTypes, SocketTypes, RequestTypes, WireTypes
<1>13. AnswersOK'
  <2> SUFFICES ASSUME NEW d \in Conns PROVE AnswerOK(d)'
    BY Zenon DEF AnswersOK
  <2>1. AnswerOK(d)
    BY Zenon DEF ServerInv, AnswersOK
  <2> QED
    BY Zenon, <2>1, <1>1, <1>2, <1>3, <1>4, WriterFacts DEF ServerInv, TypeOK, AnswerOK, Life,
       ThreadTypes, SocketTypes, RequestTypes
<1> QED
  BY ZenonT(30), <1>5, <1>6, <1>7, <1>8, <1>9, <1>10, <1>11, <1>12, <1>13 DEF ServerInv, TypeOK

\* Connection::stop() finds fd_ taken, or stop() has no connection left.
LEMMA StopNextPasses ==
  ASSUME ServerInv, StopNext,
         mainTodo = {} \/ ~fd[Min(mainTodo)]
  PROVE  ServerInv'
<1>1. /\ mainPc' \in {"idle", "stopWait"}
      /\ mainPc' = "stopWait" => mainTodo # {}
  BY Zenon DEF StopNext
<1>2. UNCHANGED <<running, listening, mainTodo, acceptPc, accepted, listed, fd, sock,
                  writeMutex, closed, compatible, notifications, pc, frames, reply, todo,
                  peers, peer, inq, out, torn, asked, said, sent, casts, starts>>
  BY Zenon DEF StopNext, serverVars, sockVars, flagVars, wireVars, boundVars
<1>3. SocketTypes' /\ ThreadTypes' /\ RequestTypes' /\ WireTypes' /\ SocketsOK' /\
         HoldersOK' /\ RequestsOK' /\ AnswersOK'
  BY Zenon, <1>2, SameSocketTypes, SameThreadTypes, SameRequestTypes, SameWireTypes,
     SameSocketsOK, SameHoldersOK, SameRequestsOK, SameAnswersOK DEF ServerInv, TypeOK
<1>4. ServerTypes'
  BY Zenon, <1>1, <1>2 DEF ServerInv, TypeOK, ServerTypes
<1>5. OrderOK'
  BY Zenon, <1>1, <1>2 DEF ServerInv, TypeOK, OrderOK
<1>6. ClosersOK'
  <2> SUFFICES ASSUME NEW d \in Conns PROVE CloserOK(d)'
    BY Zenon DEF ClosersOK
  <2>1. CloserOK(d)
    BY Zenon DEF ServerInv, ClosersOK
  <2> QED
    BY Zenon, <2>1, <1>1, <1>2, WriterFacts DEF ServerInv, TypeOK, CloserOK, ThreadTypes,
       SocketTypes
<1> QED
  BY Zenon, <1>3, <1>4, <1>5, <1>6 DEF ServerInv, TypeOK

\* stop() closes a descriptor that nobody writes to.
LEMMA StopCloseKeeps ==
  ASSUME ServerInv, StopClose
  PROVE  ServerInv'
<1>1. /\ mainPc = "stopClose"
      /\ writeMutex[Min(mainTodo)] = None
      /\ mainPc' = "stopWait"
      /\ sock' = [sock EXCEPT ![Min(mainTodo)] = "closed"]
  BY Zenon DEF StopClose, CloseFd
<1>2. UNCHANGED <<running, listening, mainTodo, acceptPc, accepted, listed, fd,
                  writeMutex, closed, compatible, notifications, pc, frames, reply, todo,
                  peers, peer, inq, out, torn, asked, said, sent, casts, starts>>
  BY Zenon DEF StopClose, serverVars, sockVars, flagVars, wireVars, boundVars, CloseFd
<1>3. Min(mainTodo) \in Conns /\ mainTodo # {}
  BY Zenon, <1>1, NextConn DEF ServerInv, TypeOK, ServerTypes, OrderOK
<1>4. SocketOK(Min(mainTodo))
  BY Zenon, <1>3 DEF ServerInv, SocketsOK
<1>5. CloserOK(Min(mainTodo))
  BY Zenon, <1>3 DEF ServerInv, ClosersOK
<1>6. ThreadTypes' /\ RequestTypes' /\ WireTypes'
  BY Zenon, <1>2, SameThreadTypes, SameRequestTypes, SameWireTypes DEF ServerInv, TypeOK
<1>7. ServerTypes'
  BY Zenon, <1>1, <1>2, <1>3, <1>4, <1>5 DEF ServerInv, TypeOK, ServerTypes
<1>8. SocketTypes'
  BY Zenon, <1>1, <1>2, <1>3, <1>4, <1>5, WriterFacts DEF ServerInv, TypeOK, SocketTypes
<1>9. OrderOK'
  BY Zenon, <1>1, <1>2, <1>3, <1>4, <1>5 DEF ServerInv, TypeOK, OrderOK
<1>10. SocketsOK'
  <2> SUFFICES ASSUME NEW d \in Conns PROVE SocketOK(d)'
    BY Zenon DEF SocketsOK
  <2>1. SocketOK(d)
    BY Zenon DEF ServerInv, SocketsOK
  <2> QED
    BY ZenonT(30), <2>1, <1>1, <1>2, <1>3, <1>4, <1>5, WriterFacts DEF ServerInv, TypeOK, SocketOK,
       ThreadTypes, SocketTypes, CloserOK
<1>11. HoldersOK'
  <2> SUFFICES ASSUME NEW u \in Writers PROVE HolderOK(u)'
    BY Zenon DEF HoldersOK
  <2>1. HolderOK(u)
    BY Zenon DEF ServerInv, HoldersOK
  <2>2. Writing(u) => Target(u) \in Conns
    BY Zenon, TargetIsConn
  <2>3. todo[u] # {} => Min(todo[u]) \in Conns
    BY Zenon, NextConn DEF ServerInv, TypeOK, ThreadTypes
  <2> QED
    BY ZenonT(30), <2>1, <2>2, <2>3, <1>1, <1>2, <1>3, <1>4, <1>5, WriterFacts DEF ServerInv, TypeOK,
       HolderOK, Writing, Target, ThreadTypes, SocketTypes
<1>12. ClosersOK'
  <2> SUFFICES ASSUME NEW d \in Conns PROVE CloserOK(d)'
    BY Zenon DEF ClosersOK
  <2>1. CloserOK(d)
    BY Zenon DEF ServerInv, ClosersOK
  <2> QED
    BY ZenonT(30), <2>1, <1>1, <1>2, <1>3, <1>4, <1>5, WriterFacts DEF ServerInv, TypeOK, CloserOK,
       ThreadTypes, SocketTypes
<1>13. RequestsOK'
  <2> SUFFICES ASSUME NEW d \in Conns PROVE RequestOK(d)'
    BY Zenon DEF RequestsOK
  <2>1. RequestOK(d)
    BY Zenon DEF ServerInv, RequestsOK
  <2> QED
    BY ZenonT(30), <2>1, <1>1, <1>2, <1>3, <1>4, <1>5, WriterFacts DEF ServerInv, TypeOK, RequestOK,
       Pending, Life, ThreadTypes, SocketTypes, RequestTypes, WireTypes, CloserOK
<1>14. AnswersOK'
  <2> SUFFICES ASSUME NEW d \in Conns PROVE AnswerOK(d)'
    BY Zenon DEF AnswersOK
  <2>1. AnswerOK(d)
    BY Zenon DEF ServerInv, AnswersOK
  <2> QED
    BY ZenonT(30), <2>1, <1>1, <1>2, <1>3, <1>4, <1>5, WriterFacts DEF ServerInv, TypeOK, AnswerOK,
       Life, ThreadTypes, SocketTypes, RequestTypes, CloserOK
<1> QED
  BY Zenon, <1>6, <1>7, <1>8, <1>9, <1>10, <1>11, <1>12, <1>13, <1>14 DEF ServerInv, TypeOK

\* stop() joins the thread of a connection.
LEMMA StopWaitKeeps ==
  ASSUME ServerInv, StopWait
  PROVE  ServerInv'
<1>1. /\ mainPc = "stopWait"
      /\ mainTodo' = mainTodo \ {Min(mainTodo)}
      /\ mainPc' = "stopNext"
  BY Zenon DEF StopWait
<1>2. UNCHANGED <<running, listening, acceptPc, accepted, listed, fd, sock, writeMutex,
                  closed, compatible, notifications, pc, frames, reply, todo, peers, peer,
                  inq, out, torn, asked, said, sent, casts, starts>>
  BY ZenonT(30) DEF StopWait, serverVars, sockVars, flagVars, wireVars, boundVars
<1>3. SocketTypes' /\ ThreadTypes' /\ RequestTypes' /\ WireTypes' /\ SocketsOK' /\
         HoldersOK' /\ RequestsOK' /\ AnswersOK'
  BY Zenon, <1>2, SameSocketTypes, SameThreadTypes, SameRequestTypes, SameWireTypes,
     SameSocketsOK, SameHoldersOK, SameRequestsOK, SameAnswersOK DEF ServerInv, TypeOK
<1>4. ServerTypes'
  BY Zenon, <1>1, <1>2 DEF ServerInv, TypeOK, ServerTypes
<1>5. OrderOK'
  BY Zenon, <1>1, <1>2 DEF ServerInv, TypeOK, OrderOK
<1>6. ClosersOK'
  <2> SUFFICES ASSUME NEW d \in Conns PROVE CloserOK(d)'
    BY Zenon DEF ClosersOK
  <2>1. CloserOK(d)
    BY Zenon DEF ServerInv, ClosersOK
  <2> QED
    BY Zenon, <2>1, <1>1, <1>2, WriterFacts DEF ServerInv, TypeOK, CloserOK, ThreadTypes,
       SocketTypes
<1> QED
  BY Zenon, <1>3, <1>4, <1>5, <1>6 DEF ServerInv, TypeOK

\* The accept thread comes back from poll().
LEMMA AcceptPollKeeps ==
  ASSUME ServerInv, AcceptPoll
  PROVE  ServerInv'
<1>1. /\ listed' = {c \in listed : ~closed[c]}
      /\ acceptPc' \in {"poll", "accept", "done"}
      /\ acceptPc' = "accept" => accepted < peers
  BY Zenon DEF AcceptPoll, RemoveClosed
<1>2. UNCHANGED <<running, listening, mainPc, mainTodo, accepted, fd, sock, writeMutex,
                  closed, compatible, notifications, pc, frames, reply, todo, peers, peer,
                  inq, out, torn, asked, said, sent, casts, starts>>
  BY Zenon DEF AcceptPoll, serverVars, sockVars, flagVars, wireVars, boundVars
<1>3. SocketTypes' /\ ThreadTypes' /\ RequestTypes' /\ WireTypes' /\ SocketsOK' /\
         HoldersOK' /\ ClosersOK' /\ RequestsOK' /\ AnswersOK'
  BY Zenon, <1>2, SameSocketTypes, SameThreadTypes, SameRequestTypes, SameWireTypes,
     SameSocketsOK, SameHoldersOK, SameClosersOK, SameRequestsOK, SameAnswersOK DEF
     ServerInv, TypeOK
<1>4. ServerTypes'
  BY Zenon, <1>1, <1>2 DEF ServerInv, TypeOK, ServerTypes
<1>5. OrderOK'
  BY Zenon, <1>1, <1>2 DEF ServerInv, TypeOK, OrderOK
<1> QED
  BY Zenon, <1>3, <1>4, <1>5 DEF ServerInv, TypeOK

\* poll() fails.
LEMMA AcceptPollFailsKeeps ==
  ASSUME ServerInv, AcceptPollFails
  PROVE  ServerInv'
<1>1. /\ listed' = {c \in listed : ~closed[c]}
      /\ acceptPc' = "done"
  BY Zenon DEF AcceptPollFails, RemoveClosed
<1>2. UNCHANGED <<running, listening, mainPc, mainTodo, accepted, fd, sock, writeMutex,
                  closed, compatible, notifications, pc, frames, reply, todo, peers, peer,
                  inq, out, torn, asked, said, sent, casts, starts>>
  BY ZenonT(30) DEF AcceptPollFails, serverVars, sockVars, flagVars, wireVars, boundVars
<1>3. SocketTypes' /\ ThreadTypes' /\ RequestTypes' /\ WireTypes' /\ SocketsOK' /\
         HoldersOK' /\ ClosersOK' /\ RequestsOK' /\ AnswersOK'
  BY Zenon, <1>2, SameSocketTypes, SameThreadTypes, SameRequestTypes, SameWireTypes,
     SameSocketsOK, SameHoldersOK, SameClosersOK, SameRequestsOK, SameAnswersOK DEF
     ServerInv, TypeOK
<1>4. ServerTypes'
  BY Zenon, <1>1, <1>2 DEF ServerInv, TypeOK, ServerTypes
<1>5. OrderOK'
  BY Zenon, <1>1, <1>2 DEF ServerInv, TypeOK, OrderOK
<1> QED
  BY Zenon, <1>3, <1>4, <1>5 DEF ServerInv, TypeOK

\* accept() fails.
LEMMA AcceptFailsKeeps ==
  ASSUME ServerInv, AcceptFails
  PROVE  ServerInv'
<1>1. acceptPc' = "done"
  BY Zenon DEF AcceptFails
<1>2. UNCHANGED <<running, listening, mainPc, mainTodo, accepted, listed, fd, sock,
                  writeMutex, closed, compatible, notifications, pc, frames, reply, todo,
                  peers, peer, inq, out, torn, asked, said, sent, casts, starts>>
  BY Zenon DEF AcceptFails, serverVars, sockVars, flagVars, wireVars, boundVars
<1>3. SocketTypes' /\ ThreadTypes' /\ RequestTypes' /\ WireTypes' /\ SocketsOK' /\
         HoldersOK' /\ ClosersOK' /\ RequestsOK' /\ AnswersOK'
  BY ZenonT(30), <1>2, SameSocketTypes, SameThreadTypes, SameRequestTypes, SameWireTypes,
     SameSocketsOK, SameHoldersOK, SameClosersOK, SameRequestsOK, SameAnswersOK DEF
     ServerInv, TypeOK
<1>4. ServerTypes'
  BY Zenon, <1>1, <1>2 DEF ServerInv, TypeOK, ServerTypes
<1>5. OrderOK'
  BY Zenon, <1>1, <1>2 DEF ServerInv, TypeOK, OrderOK
<1> QED
  BY Zenon, <1>3, <1>4, <1>5 DEF ServerInv, TypeOK

\* accept() succeeds, and the thread of the connection starts.
LEMMA AcceptConnKeeps ==
  ASSUME ServerInv, AcceptConn
  PROVE  ServerInv'
<1>1. /\ acceptPc = "accept" /\ listening
      /\ accepted' = accepted + 1
      /\ fd' = [fd EXCEPT ![accepted + 1] = TRUE]
      /\ sock' = [sock EXCEPT ![accepted + 1] = "open"]
      /\ listed' = {c \in listed \cup {accepted + 1} : ~closed[c]}
      /\ pc' = [pc EXCEPT ![accepted + 1] = "work"]
      /\ acceptPc' = "poll"
  BY Zenon DEF AcceptConn, RemoveClosed, Goto
<1>2. UNCHANGED <<running, listening, mainPc, mainTodo, writeMutex, closed, compatible,
                  notifications, frames, reply, todo, peers, peer, inq, out, torn, asked,
                  said, sent, casts, starts>>
  BY Zenon DEF AcceptConn, serverVars, sockVars, flagVars, wireVars, boundVars
<1>3. accepted + 1 \in Conns /\ accepted < peers
  BY Zenon, <1>1, NextAccepted
<1>4. SocketOK(accepted + 1)
  BY Zenon, <1>3 DEF ServerInv, SocketsOK
<1>5. RequestOK(accepted + 1)
  BY Zenon, <1>3 DEF ServerInv, RequestsOK
<1>6. AnswerOK(accepted + 1)
  BY Zenon, <1>3 DEF ServerInv, AnswersOK
<1>7. sock[accepted + 1] = "none" /\ pc[accepted + 1] = "none"
  BY <1>4 DEF SocketOK, ServerInv, TypeOK, ServerTypes
<1>8. RequestTypes' /\ WireTypes'
  BY Zenon, <1>2, SameRequestTypes, SameWireTypes DEF ServerInv, TypeOK
<1>9. ServerTypes'
  <2>1. accepted' \in Nat
    BY <1>1 DEF ServerInv, TypeOK, ServerTypes
  <2>2. listed' \in SUBSET Conns
    BY Zenon, <1>1, <1>3 DEF ServerInv, TypeOK, ServerTypes
  <2> QED
    BY Zenon, <2>1, <2>2, <1>1, <1>2 DEF ServerInv, TypeOK, ServerTypes
<1>10. SocketTypes'
  BY Zenon, <1>1, <1>2, <1>3, <1>4, <1>5, <1>6, <1>7, WriterFacts DEF ServerInv, TypeOK,
     SocketTypes
<1>11. ThreadTypes'
  <2>1. accepted + 1 \in Conns /\ todo' = todo
    BY Zenon, <1>2, <1>3
  <2> QED
    BY Zenon, <1>1, <2>1, ThreadGoto, LocFacts DEF ServerInv
<1>12. OrderOK'
  <2>1. OrderOK /\ accepted \in Nat /\ peers \in Nat
    BY Zenon DEF ServerInv, TypeOK, ServerTypes, WireTypes
  <2>2. accepted' <= peers'
    BY <2>1, <1>1, <1>2, <1>3
  <2> QED
    BY Zenon, <2>1, <2>2, <1>1, <1>2 DEF OrderOK
<1>13. SocketsOK'
  <2> SUFFICES ASSUME NEW d \in Conns PROVE SocketOK(d)'
    BY Zenon DEF SocketsOK
  <2>1. SocketOK(d)
    BY Zenon DEF ServerInv, SocketsOK
  <2>2. accepted \in Nat /\ d \in Nat
    BY Zenon, WriterFacts DEF ServerInv, TypeOK, ServerTypes
  <2>3. CASE d # accepted + 1
    <3>1. fd'[d] = fd[d] /\ sock'[d] = sock[d] /\ pc'[d] = pc[d]
      BY Zenon, <2>3, <1>1, WriterFacts DEF ServerInv, TypeOK, SocketTypes, ThreadTypes
    <3>2. d > accepted' => d > accepted
      BY <2>2, <1>1
    <3> QED
      BY Zenon, <2>1, <3>1, <3>2, <1>2 DEF SocketOK
  <2>4. CASE d = accepted + 1
    <3>1. fd'[d] = TRUE /\ sock'[d] = "open" /\ pc'[d] = "work"
      BY Zenon, <2>4, <1>1, WriterFacts DEF ServerInv, TypeOK, SocketTypes, ThreadTypes
    <3>2. ~(d > accepted')
      BY <2>2, <2>4, <1>1
    <3> QED
      BY Zenon, <2>1, <3>1, <3>2, <1>2 DEF SocketOK
  <2> QED
    BY Zenon, <2>3, <2>4
<1>14. HoldersOK'
  <2> SUFFICES ASSUME NEW u \in Writers PROVE HolderOK(u)'
    BY Zenon DEF HoldersOK
  <2>1. HolderOK(u)
    BY Zenon DEF ServerInv, HoldersOK
  <2>2. Writing(u) => Target(u) \in Conns
    BY Zenon, TargetIsConn
  <2>3. todo[u] # {} => Min(todo[u]) \in Conns
    BY Zenon, NextConn DEF ServerInv, TypeOK, ThreadTypes
  <2> QED
    BY Zenon, <2>1, <2>2, <2>3, <1>1, <1>2, <1>3, <1>4, <1>5, <1>6, <1>7, WriterFacts DEF
       ServerInv, TypeOK, HolderOK, Writing, Target, ThreadTypes, SocketTypes, SocketOK,
       ServerTypes
<1>15. ClosersOK'
  <2> SUFFICES ASSUME NEW d \in Conns PROVE CloserOK(d)'
    BY Zenon DEF ClosersOK
  <2>1. CloserOK(d)
    BY Zenon DEF ServerInv, ClosersOK
  <2> QED
    BY ZenonT(30), <2>1, <1>1, <1>2, <1>3, <1>4, <1>5, <1>6, <1>7, WriterFacts DEF ServerInv, TypeOK,
       CloserOK, ThreadTypes, SocketTypes, SocketOK, ServerTypes
<1>16. RequestsOK'
  <2> SUFFICES ASSUME NEW d \in Conns PROVE RequestOK(d)'
    BY Zenon DEF RequestsOK
  <2>1. RequestOK(d)
    BY Zenon DEF ServerInv, RequestsOK
  <2>2. CASE d # accepted + 1
    <3>1. sock'[d] = sock[d] /\ pc'[d] = pc[d]
      BY Zenon, <2>2, <1>1, WriterFacts DEF ServerInv, TypeOK, SocketTypes, ThreadTypes,
         RequestTypes, WireTypes
    <3> QED
      BY ZenonT(30), <2>1, <2>2, <3>1, <1>1, <1>2, <1>3, <1>4, <1>5, <1>6, <1>7, WriterFacts DEF
         ServerInv, TypeOK, RequestOK, Pending, Life, ThreadTypes, SocketTypes,
         RequestTypes, WireTypes, SocketOK, ServerTypes
  <2>3. CASE d = accepted + 1
    <3>1. /\ sock'[accepted + 1] = "open"
          /\ pc'[accepted + 1] = "work"
      BY ZenonT(30), <1>1, <1>2, <1>3, <1>4, <1>5, <1>6, <1>7, WriterFacts DEF ServerInv, TypeOK,
         SocketTypes, ThreadTypes, RequestTypes, WireTypes
    <3> QED
      BY Zenon, <2>1, <2>3, <3>1, <1>2, <1>7 DEF RequestOK, Pending, Life
  <2> QED
    BY ZenonT(30), <2>2, <2>3
<1>17. AnswersOK'
  <2> SUFFICES ASSUME NEW d \in Conns PROVE AnswerOK(d)'
    BY Zenon DEF AnswersOK
  <2>1. AnswerOK(d)
    BY Zenon DEF ServerInv, AnswersOK
  <2>2. CASE d # accepted + 1
    <3>1. sock'[d] = sock[d] /\ pc'[d] = pc[d]
      BY Zenon, <2>2, <1>1, WriterFacts DEF ServerInv, TypeOK, SocketTypes, ThreadTypes,
         RequestTypes, WireTypes
    <3> QED
      BY ZenonT(30), <2>1, <2>2, <3>1, <1>1, <1>2, <1>3, <1>4, <1>5, <1>6, <1>7, WriterFacts DEF
         ServerInv, TypeOK, AnswerOK, Life, ThreadTypes, SocketTypes, RequestTypes,
         SocketOK, ServerTypes
  <2>3. CASE d = accepted + 1
    <3>1. /\ sock'[accepted + 1] = "open"
          /\ pc'[accepted + 1] = "work"
      BY Zenon, <1>1, <1>2, <1>3, <1>4, <1>5, <1>6, <1>7, WriterFacts DEF ServerInv, TypeOK,
         SocketTypes, ThreadTypes, RequestTypes, WireTypes
    <3> QED
      BY ZenonT(30), <2>1, <2>3, <3>1, <1>2, <1>7 DEF AnswerOK, Life
  <2> QED
    BY Zenon, <2>2, <2>3
<1> QED
  BY Zenon, <1>8, <1>9, <1>10, <1>11, <1>12, <1>13, <1>14, <1>15, <1>16, <1>17 DEF ServerInv,
     TypeOK

-----------------------------------------------------------------------------
(* The peers preserve it                                                   *)

\* A peer connects.
LEMMA PeerConnectKeeps ==
  ASSUME ServerInv, PeerConnect
  PROVE  ServerInv'
<1>1. /\ listening /\ peers < MaxConns
      /\ peers' = peers + 1
      /\ peer' = [peer EXCEPT ![peers + 1] = "open"]
  BY Zenon DEF PeerConnect
<1>2. UNCHANGED <<running, listening, mainPc, mainTodo, acceptPc, accepted, listed, fd,
                  sock, writeMutex, closed, compatible, notifications, pc, frames, reply,
                  todo, inq, out, torn, asked, said, sent, casts, starts>>
  BY Zenon DEF PeerConnect, serverVars, sockVars, flagVars, wireVars, boundVars
<1>3. peers + 1 \in Conns
  BY <1>1, ServerAssumption DEF ServerInv, TypeOK, WireTypes, Conns
<1>4. SocketOK(peers + 1)
  BY Zenon, <1>3 DEF ServerInv, SocketsOK
<1>5. AnswerOK(peers + 1)
  BY Zenon, <1>3 DEF ServerInv, AnswersOK
<1>6. RequestOK(peers + 1)
  BY Zenon, <1>3 DEF ServerInv, RequestsOK
<1>7. peer[peers + 1] = "none" /\ sock[peers + 1] = "none" /\ pc[peers + 1] = "none"
  BY <1>4 DEF SocketOK, ServerInv, TypeOK, OrderOK, ServerTypes, WireTypes
<1>8. ServerTypes' /\ SocketTypes' /\ ThreadTypes' /\ RequestTypes' /\ HoldersOK' /\
         ClosersOK'
  BY Zenon, <1>2, SameServerTypes, SameSocketTypes, SameThreadTypes, SameRequestTypes,
     SameHoldersOK, SameClosersOK DEF ServerInv, TypeOK
<1>9. WireTypes'
  <2>1. peers \in Nat /\ MaxConns \in Nat
    BY Zenon, BoundFacts DEF ServerInv, TypeOK, WireTypes
  <2>2. peers' \in Nat /\ peers' <= MaxConns
    BY <2>1, <1>1
  <2> QED
    BY Zenon, <2>2, <1>1, <1>2 DEF ServerInv, TypeOK, WireTypes
<1>10. OrderOK'
  <2>1. OrderOK /\ accepted \in Nat /\ peers \in Nat
    BY Zenon DEF ServerInv, TypeOK, ServerTypes, WireTypes
  <2>2. accepted <= peers /\ (accepted < peers => accepted' < peers')
    BY <2>1, <1>1, <1>2 DEF OrderOK
  <2>3. accepted' <= peers'
    BY <2>1, <2>2, <1>1, <1>2
  <2> QED
    BY Zenon, <2>1, <2>2, <2>3, <1>2 DEF OrderOK
<1>11. SocketsOK'
  <2> SUFFICES ASSUME NEW d \in Conns PROVE SocketOK(d)'
    BY Zenon DEF SocketsOK
  <2>1. SocketOK(d)
    BY Zenon DEF ServerInv, SocketsOK
  <2>2. peers \in Nat /\ d \in Nat
    BY Zenon, WriterFacts DEF ServerInv, TypeOK, WireTypes
  <2>3. CASE d # peers + 1
    <3>1. peer'[d] = peer[d]
      BY Zenon, <2>3, <1>1, <1>3 DEF ServerInv, TypeOK, WireTypes
    <3>2. d > peers' <=> d > peers
      <4>1. peers' = peers + 1
        BY Zenon, <1>1
      <4> QED
        BY <2>2, <2>3, <4>1
    <3> QED
      BY Zenon, <2>1, <3>1, <3>2, <1>2 DEF SocketOK
  <2>4. CASE d = peers + 1
    <3>1. peer'[d] = "open"
      BY Zenon, <2>4, <1>1, <1>3 DEF ServerInv, TypeOK, WireTypes
    <3>2. ~(d > peers')
      <4>1. peers' = peers + 1
        BY Zenon, <1>1
      <4> QED
        BY <2>2, <2>4, <4>1
    <3> QED
      BY Zenon, <2>1, <3>1, <3>2, <1>2 DEF SocketOK
  <2> QED
    BY Zenon, <2>3, <2>4
<1>12. RequestsOK'
  <2> SUFFICES ASSUME NEW d \in Conns PROVE RequestOK(d)'
    BY Zenon DEF RequestsOK
  <2>1. RequestOK(d)
    BY Zenon DEF ServerInv, RequestsOK
  <2>2. CASE d # peers + 1
    <3>1. peer'[d] = peer[d]
      BY Zenon, <2>2, <1>1, <1>3 DEF ServerInv, TypeOK, WireTypes
    <3> QED
      BY Zenon, <2>1, <3>1, <1>2 DEF RequestOK, Pending, Life
  <2>3. CASE d = peers + 1
    <3>1. peer'[d] = "open"
      BY Zenon, <2>3, <1>1, <1>3 DEF ServerInv, TypeOK, WireTypes
    <3>2. asked[d] = <<>> /\ inq[d] = <<>> /\ frames[d] = <<>> /\ pc[d] = "none"
      BY Zenon, <2>1, <2>3, <1>7 DEF RequestOK
    <3>3. Len(asked[d]) = Len(frames[d]) + Len(inq[d])
      BY <3>2
    <3>4. ~Pending(d)'
      BY Zenon, <3>2, <1>2 DEF Pending
    <3> QED
      BY Zenon, <2>1, <3>1, <3>2, <3>3, <3>4, <1>2 DEF RequestOK
  <2> QED
    BY Zenon, <2>2, <2>3
<1>13. AnswersOK'
  <2> SUFFICES ASSUME NEW d \in Conns PROVE AnswerOK(d)'
    BY Zenon DEF AnswersOK
  <2>1. AnswerOK(d)
    BY Zenon DEF ServerInv, AnswersOK
  <2>2. CASE d # peers + 1
    <3>1. peer'[d] = peer[d]
      BY ZenonT(30), <2>2, <1>1, WriterFacts DEF ServerInv, TypeOK, SocketTypes, ThreadTypes,
         RequestTypes, WireTypes
    <3> QED
      BY ZenonT(30), <2>1, <2>2, <3>1, <1>1, <1>2, <1>3, <1>4, <1>5, <1>6, <1>7, WriterFacts DEF
         ServerInv, TypeOK, AnswerOK, Life, ThreadTypes, SocketTypes, RequestTypes,
         WireTypes, SocketOK
  <2>3. CASE d = peers + 1
    <3>1. peer'[peers + 1] = "open"
      BY Zenon, <1>1, <1>2, <1>3, <1>4, <1>5, <1>6, <1>7, WriterFacts DEF ServerInv, TypeOK,
         SocketTypes, ThreadTypes, RequestTypes, WireTypes
    <3> QED
      BY ZenonT(30), <2>1, <2>3, <3>1, <1>1, <1>2, <1>3, <1>4, <1>5, <1>6, <1>7, WriterFacts DEF
         ServerInv, TypeOK, AnswerOK, Life, ThreadTypes, SocketTypes, RequestTypes,
         WireTypes, SocketOK
  <2> QED
    BY Zenon, <2>2, <2>3
<1> QED
  BY Zenon, <1>8, <1>9, <1>10, <1>11, <1>12, <1>13 DEF ServerInv, TypeOK

\* A peer sends the next frame.
LEMMA PeerSendKeeps ==
  ASSUME ServerInv, NEW c \in Conns, NEW kind \in Kinds, PeerSend(c, kind)
  PROVE  ServerInv'
<1>1. /\ peer[c] = "open" /\ sock[c] \in {"none", "open"}
      /\ sent' = [sent EXCEPT ![c] = @ + 1]
      /\ inq' = [inq EXCEPT ![c] = Append(@, [kind |-> kind, id |-> sent[c] + 1])]
      /\ asked' = [asked EXCEPT ![c] = Append(@, sent[c] + 1)]
  BY Zenon DEF PeerSend
<1>2. UNCHANGED <<running, listening, mainPc, mainTodo, acceptPc, accepted, listed, fd,
                  sock, writeMutex, closed, compatible, notifications, pc, frames, reply,
                  todo, peers, peer, out, torn, said, casts, starts>>
  BY Zenon DEF PeerSend, serverVars, sockVars, flagVars, wireVars, boundVars
<1>3. sent[c] + 1 \in Nat /\ [kind |-> kind, id |-> sent[c] + 1] \in Frame
  BY BoundFacts DEF ServerInv, TypeOK, WireTypes, Frame
<1>4. ServerTypes' /\ SocketTypes' /\ ThreadTypes' /\ RequestTypes' /\ OrderOK' /\
         SocketsOK' /\ HoldersOK' /\ ClosersOK'
  BY Zenon, <1>2, SameServerTypes, SameSocketTypes, SameThreadTypes, SameRequestTypes,
     SameOrderOK, SameSocketsOK, SameHoldersOK, SameClosersOK DEF ServerInv, TypeOK
<1>5. WireTypes'
  <2>1. inq' \in [Conns -> Seq(Frame)] /\ asked' \in [Conns -> Seq(Nat)]
    BY ZenonT(30), <1>1, <1>3, AppendFacts DEF ServerInv, TypeOK, WireTypes
  <2>2. sent' \in [Conns -> Nat]
    BY Zenon, <1>1, <1>3 DEF ServerInv, TypeOK, WireTypes
  <2> QED
    BY Zenon, <2>1, <2>2, <1>2 DEF ServerInv, TypeOK, WireTypes
<1>6. RequestsOK'
  <2> SUFFICES ASSUME NEW d \in Conns PROVE RequestOK(d)'
    BY Zenon DEF RequestsOK
  <2>1. RequestOK(d)
    BY Zenon DEF ServerInv, RequestsOK
  <2>2. CASE d # c
    <3>1. sent'[d] = sent[d] /\ inq'[d] = inq[d] /\ asked'[d] = asked[d]
      BY Zenon, <2>2, <1>1, <1>2, WriterFacts DEF ServerInv, TypeOK, ThreadTypes, RequestTypes, WireTypes
    <3> QED
      BY Zenon, <2>1, <3>1, <1>2 DEF RequestOK, Pending, Life
  <2>3. CASE d = c
    <3> DEFINE x == [kind |-> kind, id |-> sent[c] + 1]
               qi == Append(inq[c], x)
               qa == Append(asked[c], sent[c] + 1)
    <3>1. inq'[c] = qi /\ asked'[c] = qa /\ sent'[c] = sent[c] + 1
      BY Zenon, <1>1 DEF ServerInv, TypeOK, WireTypes
    <3>2. /\ inq[c] \in Seq(Frame) /\ asked[c] \in Seq(Nat) /\ sent[c] \in Nat
          /\ Len(inq[c]) \in Nat /\ Len(asked[c]) \in Nat /\ Len(frames[c]) \in Nat
      BY DEF ServerInv, TypeOK, WireTypes, RequestTypes
    <3>3. x \in Frame /\ x.id = sent[c] + 1 /\ sent[c] + 1 \in Nat
      BY Zenon, <1>3
    <3> HIDE DEF x
    <3>4. Numbered(inq[c], sent[c]) /\ Counted(asked[c], sent[c])
      BY Zenon, <2>1, <2>3 DEF RequestOK
    <3>5. Len(qi) = Len(inq[c]) + 1 /\ Len(qa) = Len(asked[c]) + 1
      <4>1. Len(qi) = Len(inq[c]) + 1
        BY ZenonT(30), <3>2, <3>3, AppendFacts
      <4>2. Len(qa) = Len(asked[c]) + 1
        BY <3>2, <3>3, AppendFacts
      <4> QED
        BY Zenon, <4>1, <4>2
    <3>6. Numbered(qi, sent[c] + 1) /\ Counted(qa, sent[c] + 1)
      <4>1. sent[c] \in Int
        BY <3>2
      <4>2. Numbered(qi, sent[c] + 1)
        BY Zenon, <3>2, <3>3, <3>4, <4>1, NumberedAppend
      <4>3. Counted(qa, sent[c] + 1)
        BY Zenon, <3>2, <3>4, CountedAppend
      <4> QED
        BY Zenon, <4>2, <4>3
    <3>7. /\ pc' = pc /\ frames' = frames /\ reply' = reply /\ Life(c)' = Life(c) /\ peer' = peer
          /\ peer[c] # "none"
      BY Zenon, <1>2, <1>1 DEF Life
    <3>8. /\ Len(asked[c]) = Len(frames[c]) + Len(inq[c]) => Len(qa) = Len(frames[c]) + Len(qi)
          /\ Len(asked[c]) = Len(frames[c]) + Len(inq[c]) + 1
               => Len(qa) = Len(frames[c]) + Len(qi) + 1
      <4>1. /\ Len(asked[c]) = Len(frames[c]) + Len(inq[c])
                 => Len(asked[c]) + 1 = Len(frames[c]) + (Len(inq[c]) + 1)
            /\ Len(asked[c]) = Len(frames[c]) + Len(inq[c]) + 1
                 => Len(asked[c]) + 1 = Len(frames[c]) + (Len(inq[c]) + 1) + 1
        <5> DEFINE y == Len(frames[c])
                   z == Len(inq[c])
                   w == Len(asked[c])
        <5>1. w \in Nat /\ y \in Nat /\ z \in Nat
          BY Zenon, <3>2
        <5> HIDE DEF w, y, z
        <5>2. (w = y + z => w + 1 = y + (z + 1)) /\ (w = y + z + 1 => w + 1 = y + (z + 1) + 1)
          BY <5>1
        <5> QED
          BY Zenon, <5>2 DEF w, y, z
      <4> HIDE DEF qi, qa
      <4> QED
        BY Zenon, <3>5, <4>1
    <3> HIDE DEF qi, qa
    <3>9. sent'[c] - Len(inq'[c]) = sent[c] - Len(inq[c])
      <4> DEFINE s == sent[c]
                 t == sent'[c]
                 l == Len(inq[c])
                 m == Len(inq'[c])
      <4>1. s \in Nat /\ l \in Nat
        BY Zenon, <3>2
      <4>2. t = s + 1 /\ m = l + 1
        BY Zenon, <3>1, <3>5
      <4> HIDE DEF s, t, l, m
      <4>3. t - m = s - l
        BY <4>1, <4>2
      <4> QED
        BY Zenon, <4>3 DEF s, t, l, m
    <3>10. /\ Counted(asked'[c], sent'[c]) /\ Numbered(inq'[c], sent'[c])
           /\ Numbered(frames'[c], sent'[c] - Len(inq'[c]))
           /\ Pending(c)' = Pending(c)
      BY Zenon, <2>1, <2>3, <3>1, <3>6, <3>7, <3>9 DEF RequestOK, Pending
    <3>11. /\ Pending(c) => reply'[c].id = sent'[c] - Len(inq'[c]) - Len(frames'[c])
           /\ Life(c)' = "up" /\ Pending(c) => Len(asked'[c]) = Len(frames'[c]) + Len(inq'[c]) + 1
           /\ Life(c)' = "up" /\ pc'[c] \in {"none", "work", "recv", "after", "setNotif"}
                => Len(asked'[c]) = Len(frames'[c]) + Len(inq'[c])
      BY Zenon, <2>1, <2>3, <3>1, <3>7, <3>8, <3>9 DEF RequestOK
    <3> QED
      BY Zenon, <2>1, <2>3, <3>7, <3>10, <3>11 DEF RequestOK
  <2> QED
    BY Zenon, <2>2, <2>3
<1>7. AnswersOK'
  <2> SUFFICES ASSUME NEW d \in Conns PROVE AnswerOK(d)'
    BY Zenon DEF AnswersOK
  <2>1. AnswerOK(d)
    BY Zenon DEF ServerInv, AnswersOK
  <2> QED
    BY Zenon, <2>1, <1>1, <1>2, <1>3, WriterFacts DEF ServerInv, TypeOK, AnswerOK, Life,
       ThreadTypes, SocketTypes, RequestTypes, WireTypes
<1> QED
  BY Zenon, <1>4, <1>5, <1>6, <1>7 DEF ServerInv, TypeOK

\* A peer reads a frame.
LEMMA PeerReadKeeps ==
  ASSUME ServerInv, NEW c \in Conns, PeerRead(c)
  PROVE  ServerInv'
<1>1. /\ out' = [out EXCEPT ![c] = Tail(@)]
      /\ out[c] # <<>>
  BY Zenon DEF PeerRead
<1>2. UNCHANGED <<running, listening, mainPc, mainTodo, acceptPc, accepted, listed, fd,
                  sock, writeMutex, closed, compatible, notifications, pc, frames, reply,
                  todo, peers, peer, inq, torn, asked, said, sent, casts, starts>>
  BY Zenon DEF PeerRead, serverVars, sockVars, flagVars, wireVars, boundVars
<1>3. ServerTypes' /\ SocketTypes' /\ ThreadTypes' /\ RequestTypes' /\ OrderOK' /\
         SocketsOK' /\ HoldersOK' /\ ClosersOK' /\ RequestsOK'
  BY Zenon, <1>2, SameServerTypes, SameSocketTypes, SameThreadTypes, SameRequestTypes,
     SameOrderOK, SameSocketsOK, SameHoldersOK, SameClosersOK, SameRequestsOK DEF
     ServerInv, TypeOK
<1>4. WireTypes'
  BY <1>1, <1>2 DEF ServerInv, TypeOK, WireTypes
<1>5. AnswersOK'
  <2> SUFFICES ASSUME NEW d \in Conns PROVE AnswerOK(d)'
    BY Zenon DEF AnswersOK
  <2>1. AnswerOK(d)
    BY Zenon DEF ServerInv, AnswersOK
  <2> QED
    BY Zenon, <2>1, <1>1, <1>2, WriterFacts DEF ServerInv, TypeOK, AnswerOK, Life, ThreadTypes,
       SocketTypes, RequestTypes, WireTypes
<1> QED
  BY Zenon, <1>3, <1>4, <1>5 DEF ServerInv, TypeOK

\* A peer closes its end.
LEMMA PeerCloseKeeps ==
  ASSUME ServerInv, NEW c \in Conns, PeerClose(c)
  PROVE  ServerInv'
<1>1. /\ peer[c] = "open"
      /\ peer' = [peer EXCEPT ![c] = "gone"]
      /\ out' = [out EXCEPT ![c] = <<>>]
  BY Zenon DEF PeerClose
<1>2. UNCHANGED <<running, listening, mainPc, mainTodo, acceptPc, accepted, listed, fd,
                  sock, writeMutex, closed, compatible, notifications, pc, frames, reply,
                  todo, peers, inq, torn, asked, said, sent, casts, starts>>
  BY Zenon DEF PeerClose, serverVars, sockVars, flagVars, wireVars, boundVars
<1>3. ServerTypes' /\ SocketTypes' /\ ThreadTypes' /\ RequestTypes' /\ OrderOK' /\
         HoldersOK' /\ ClosersOK'
  BY Zenon, <1>2, SameServerTypes, SameSocketTypes, SameThreadTypes, SameRequestTypes,
     SameOrderOK, SameHoldersOK, SameClosersOK DEF ServerInv, TypeOK
<1>4. WireTypes'
  BY <1>1, <1>2 DEF ServerInv, TypeOK, WireTypes
<1>5. SocketsOK'
  <2> SUFFICES ASSUME NEW d \in Conns PROVE SocketOK(d)'
    BY Zenon DEF SocketsOK
  <2>1. SocketOK(d)
    BY Zenon DEF ServerInv, SocketsOK
  <2> QED
    BY ZenonT(30), <2>1, <1>1, <1>2, WriterFacts DEF ServerInv, TypeOK, SocketOK, ThreadTypes,
       SocketTypes, WireTypes
<1>6. RequestsOK'
  <2> SUFFICES ASSUME NEW d \in Conns PROVE RequestOK(d)'
    BY Zenon DEF RequestsOK
  <2>1. RequestOK(d)
    BY Zenon DEF ServerInv, RequestsOK
  <2> QED
    BY Zenon, <2>1, <1>1, <1>2, WriterFacts DEF ServerInv, TypeOK, RequestOK, Pending, Life,
       ThreadTypes, SocketTypes, RequestTypes, WireTypes
<1>7. AnswersOK'
  <2> SUFFICES ASSUME NEW d \in Conns PROVE AnswerOK(d)'
    BY Zenon DEF AnswersOK
  <2>1. AnswerOK(d)
    BY Zenon DEF ServerInv, AnswersOK
  <2> QED
    BY Zenon, <2>1, <1>1, <1>2, WriterFacts DEF ServerInv, TypeOK, AnswerOK, Life, ThreadTypes,
       SocketTypes, RequestTypes, WireTypes
<1> QED
  BY Zenon, <1>3, <1>4, <1>5, <1>6, <1>7 DEF ServerInv, TypeOK

-----------------------------------------------------------------------------
(* Connection::run() and process() preserve the invariant                  *)

\* The loop condition of run() preserves the invariant.
LEMMA LoopKeeps ==
  ASSUME ServerInv, NEW c \in Conns, Loop(c)
  PROVE  ServerInv'
<1>1. /\ pc[c] = "work"
      /\ frames[c] = <<>>
      /\ pc' = [pc EXCEPT ![c] = IF fd[c] THEN "recv" ELSE "close"]
  BY Zenon DEF Loop, Goto
<1>2. UNCHANGED <<running, listening, mainPc, mainTodo, acceptPc, accepted, listed, fd,
                  sock, writeMutex, closed, compatible, notifications, frames, reply,
                  todo, peers, peer, inq, out, torn, asked, said, sent, casts, starts>>
  BY Zenon DEF Loop, serverVars, sockVars, flagVars, wireVars, boundVars
<1>3. SocketOK(c)
  BY Zenon DEF ServerInv, SocketsOK
<1>4. ServerTypes' /\ SocketTypes' /\ RequestTypes' /\ WireTypes' /\ OrderOK'
  BY Zenon, <1>2, SameServerTypes, SameSocketTypes, SameRequestTypes, SameWireTypes, SameOrderOK
     DEF ServerInv, TypeOK
<1>5. ThreadTypes'
  <2>1. PICK l \in Locs : pc' = [pc EXCEPT ![c] = l]
    BY Zenon, <1>1, LocFacts
  <2> QED
    BY Zenon, <2>1, <1>2, ThreadGoto DEF ServerInv
<1>6. SocketsOK'
  BY Zenon, <1>1, <1>2, SocketsGoto, WriterFacts
<1>7. HoldersOK'
  <2> SUFFICES ASSUME NEW u \in Writers PROVE HolderOK(u)'
    BY Zenon DEF HoldersOK
  <2>1. HolderOK(u)
    BY Zenon DEF ServerInv, HoldersOK
  <2>2. Writing(u) => Target(u) \in Conns
    BY Zenon, TargetIsConn
  <2>3. todo[u] # {} => Min(todo[u]) \in Conns
    BY Zenon, NextConn DEF ServerInv, TypeOK, ThreadTypes
  <2> QED
    BY Zenon, <2>1, <2>2, <2>3, <1>1, <1>2, <1>3, WriterFacts DEF ServerInv, TypeOK, HolderOK,
       Writing, Target, ThreadTypes, SocketTypes
<1>8. ClosersOK'
  BY Zenon, <1>1, <1>2, ClosersGoto, WriterFacts
<1>9. RequestsOK'
  <2> SUFFICES ASSUME NEW d \in Conns PROVE RequestOK(d)'
    BY Zenon DEF RequestsOK
  <2>1. RequestOK(d)
    BY Zenon DEF ServerInv, RequestsOK
  <2> QED
    BY Zenon, <2>1, <1>1, <1>2, <1>3, WriterFacts DEF ServerInv, TypeOK, RequestOK, Pending,
       Life, ThreadTypes, SocketTypes, RequestTypes, WireTypes
<1>10. AnswersOK'
  BY Zenon, <1>1, <1>2, AnswersGoto, WriterFacts
<1> QED
  BY Zenon, <1>4, <1>5, <1>6, <1>7, <1>8, <1>9, <1>10 DEF ServerInv, TypeOK

\* recv() takes some frames, and FrameParser::push() parses them.
LEMMA RecvKeeps ==
  ASSUME ServerInv, NEW c \in Conns, Recv(c)
  PROVE  ServerInv'
<1>1. PICK n \in 1..Len(inq[c]), bad \in BOOLEAN :
         /\ pc[c] = "recv"
         /\ inq' = [inq EXCEPT ![c] = SubSeq(@, n + 1, Len(@))]
         /\ pc' = [pc EXCEPT ![c] = IF bad THEN "close" ELSE "work"]
         /\ frames' = [frames EXCEPT ![c] = IF bad THEN @ ELSE SubSeq(inq[c], 1, n)]
  BY Zenon DEF Recv, Goto, ServerInv, TypeOK, RequestTypes
<1>2. UNCHANGED <<running, listening, mainPc, mainTodo, acceptPc, accepted, listed, fd,
                  sock, writeMutex, closed, compatible, notifications, reply, todo, peers,
                  peer, out, torn, asked, said, sent, casts, starts>>
  BY Zenon DEF Recv, serverVars, sockVars, flagVars, wireVars, boundVars
<1>3. ServerTypes' /\ SocketTypes' /\ OrderOK'
  BY Zenon, <1>2, SameServerTypes, SameSocketTypes, SameOrderOK DEF ServerInv, TypeOK
<1>4. ThreadTypes'
  <2>1. PICK l \in Locs : pc' = [pc EXCEPT ![c] = l]
    BY Zenon, <1>1, LocFacts
  <2> QED
    BY Zenon, <2>1, <1>2, ThreadGoto DEF ServerInv
<1>5. RequestTypes'
  BY ZenonT(30), <1>1, <1>2, SplitFacts DEF ServerInv, TypeOK, RequestTypes, WireTypes
<1>6. WireTypes'
  BY Zenon, <1>1, <1>2, SplitFacts DEF ServerInv, TypeOK, WireTypes
<1>7. SocketsOK'
  BY Zenon, <1>1, <1>2, SocketsGoto, WriterFacts
<1>8. HoldersOK'
  <2> SUFFICES ASSUME NEW u \in Writers PROVE HolderOK(u)'
    BY Zenon DEF HoldersOK
  <2>1. HolderOK(u)
    BY Zenon DEF ServerInv, HoldersOK
  <2>2. Writing(u) => Target(u) \in Conns
    BY Zenon, TargetIsConn
  <2>3. todo[u] # {} => Min(todo[u]) \in Conns
    BY Zenon, NextConn DEF ServerInv, TypeOK, ThreadTypes
  <2> QED
    BY Zenon, <2>1, <2>2, <2>3, <1>1, <1>2, WriterFacts DEF ServerInv, TypeOK, HolderOK, Writing,
       Target, ThreadTypes, SocketTypes
<1>9. ClosersOK'
  BY Zenon, <1>1, <1>2, ClosersGoto, WriterFacts
<1>10. RequestsOK'
  <2> SUFFICES ASSUME NEW d \in Conns PROVE RequestOK(d)'
    BY Zenon DEF RequestsOK
  <2>1. RequestOK(d)
    BY Zenon DEF ServerInv, RequestsOK
  <2>2. CASE d # c
    <3>1. pc'[d] = pc[d] /\ inq'[d] = inq[d] /\ frames'[d] = frames[d]
      BY Zenon, <2>2, <1>1, <1>2, WriterFacts DEF ServerInv, TypeOK, ThreadTypes, RequestTypes, WireTypes
    <3> QED
      BY Zenon, <2>1, <3>1, <1>2 DEF RequestOK, Pending, Life
  <2>3. CASE d = c
    <3> DEFINE q == inq[c]
               rest == SubSeq(q, n + 1, Len(q))
               got == SubSeq(q, 1, n)
    <3>1. /\ pc'[c] = IF bad THEN "close" ELSE "work"
          /\ inq'[c] = rest /\ frames'[c] = IF bad THEN frames[c] ELSE got
      BY Zenon, <1>1, WriterFacts DEF ServerInv, TypeOK, ThreadTypes, RequestTypes, WireTypes
    <3>2. q \in Seq(Frame) /\ Len(q) \in Nat /\ sent[c] \in Nat /\ n \in 1..Len(q)
      BY <1>1 DEF ServerInv, TypeOK, WireTypes
    <3>3. Len(rest) = Len(q) - n /\ Len(got) = n /\ Len(q) # 0
      BY <3>2, SplitFacts
    <3>4. Numbered(q, sent[c]) /\ Counted(asked[c], sent[c]) /\ frames[c] = <<>>
      BY Zenon, <2>1, <2>3, <1>1 DEF RequestOK
    <3>5. Life(c) = "up" => Len(asked[c]) = Len(q)
      <4>1. Life(c) = "up" => Len(asked[c]) = Len(frames[c]) + Len(q)
        BY Zenon, <2>1, <2>3, <1>1 DEF RequestOK
      <4> HIDE DEF q
      <4>2. Len(frames[c]) + Len(q) = Len(q)
        BY <3>2, <3>4
      <4> QED
        BY Zenon, <4>1, <4>2
    <3>6. Numbered(rest, sent[c]) /\ Numbered(got, sent[c] - Len(rest))
      <4>1. sent[c] \in Int
        BY <3>2
      <4> QED
        BY Zenon, <4>1, <3>2, <3>4, NumberedSplit
    <3>7. peer[c] # "none"
      BY <2>1, <2>3, <3>3 DEF RequestOK
    <3>8. Life(c)' = Life(c) /\ asked' = asked /\ sent' = sent /\ peer' = peer
      BY Zenon, <1>2 DEF Life
    <3>9. Numbered(<<>>, sent[c] - Len(rest))
      BY DEF Numbered
    <3> HIDE DEF q, rest, got
    <3>10. CASE bad
      BY ZenonT(30), <2>3, <3>1, <3>4, <3>6, <3>7, <3>8, <3>9, <3>10 DEF RequestOK, Pending
    <3>11. CASE ~bad
      <4>1. Len(got) + Len(rest) = Len(q)
        BY <3>2, <3>3
      <4> QED
        BY ZenonT(30), <2>3, <3>1, <3>4, <3>5, <3>6, <3>7, <3>8, <3>11, <4>1 DEF RequestOK, Pending
    <3> QED
      BY Zenon, <3>10, <3>11
  <2> QED
    BY Zenon, <2>2, <2>3
<1>11. AnswersOK'
  BY Zenon, <1>1, <1>2, AnswersGoto, WriterFacts
<1> QED
  BY ZenonT(30), <1>3, <1>4, <1>5, <1>6, <1>7, <1>8, <1>9, <1>10, <1>11 DEF ServerInv, TypeOK

\* recv() fails, and the loop ends.
LEMMA RecvFailsKeeps ==
  ASSUME ServerInv, NEW c \in Conns, RecvFails(c)
  PROVE  ServerInv'
<1>1. /\ pc[c] = "recv"
      /\ pc' = [pc EXCEPT ![c] = "close"]
  BY Zenon DEF RecvFails, Goto
<1>2. UNCHANGED <<running, listening, mainPc, mainTodo, acceptPc, accepted, listed, fd,
                  sock, writeMutex, closed, compatible, notifications, frames, reply,
                  todo, peers, peer, inq, out, torn, asked, said, sent, casts, starts>>
  BY Zenon DEF RecvFails, serverVars, sockVars, flagVars, wireVars, boundVars
<1>3. ServerTypes' /\ SocketTypes' /\ RequestTypes' /\ WireTypes' /\ OrderOK'
  BY Zenon, <1>2, SameServerTypes, SameSocketTypes, SameRequestTypes, SameWireTypes, SameOrderOK
     DEF ServerInv, TypeOK
<1>4. ThreadTypes'
  BY Zenon, <1>1, <1>2, ThreadGoto, LocFacts DEF ServerInv
<1>5. SocketsOK'
  BY Zenon, <1>1, <1>2, SocketsGoto, WriterFacts
<1>6. HoldersOK'
  <2> SUFFICES ASSUME NEW u \in Writers PROVE HolderOK(u)'
    BY Zenon DEF HoldersOK
  <2>1. HolderOK(u)
    BY Zenon DEF ServerInv, HoldersOK
  <2>2. Writing(u) => Target(u) \in Conns
    BY Zenon, TargetIsConn
  <2>3. todo[u] # {} => Min(todo[u]) \in Conns
    BY Zenon, NextConn DEF ServerInv, TypeOK, ThreadTypes
  <2> QED
    BY Zenon, <2>1, <2>2, <2>3, <1>1, <1>2, WriterFacts DEF ServerInv, TypeOK, HolderOK, Writing,
       Target, ThreadTypes, SocketTypes
<1>7. ClosersOK'
  BY Zenon, <1>1, <1>2, ClosersGoto, WriterFacts
<1>8. RequestsOK'
  BY Zenon, <1>1, <1>2, RequestsGoto, WriterFacts DEF Pending
<1>9. AnswersOK'
  BY Zenon, <1>1, <1>2, AnswersGoto, WriterFacts
<1> QED
  BY Zenon, <1>3, <1>4, <1>5, <1>6, <1>7, <1>8, <1>9 DEF ServerInv, TypeOK

\* process() comes to the answer to a frame.
LEMMA ProcessKeeps ==
  ASSUME ServerInv, NEW c \in Conns, Process(c)
  PROVE  ServerInv'
<1>1. PICK r \in Replies, l \in {"replyLock", "snap"} :
         /\ pc[c] = "work" /\ frames[c] # <<>>
         /\ frames' = [frames EXCEPT ![c] = Tail(@)]
         /\ pc' = [pc EXCEPT ![c] = l]
         /\ reply' = [reply EXCEPT ![c] = r]
         /\ r.id = Head(frames[c]).id /\ (r.verdict = "incompatible" => r.drop)
         /\ r.kind = "Broken" => r.verdict = "none"
         /\ casts' \in Nat
  <2>1. pc[c] = "work" /\ frames[c] # <<>> /\ frames' = [frames EXCEPT ![c] = Tail(@)]
    BY Zenon DEF Process, TakeFrame
  <2>2. Head(frames[c]).id \in Nat
    <3>1. frames[c] \in Seq(Frame)
      BY Zenon DEF ServerInv, TypeOK, RequestTypes
    <3>2. Head(frames[c]) \in Frame
      BY Zenon, <3>1, <2>1, TailFacts
    <3> QED
      BY Zenon, <3>2 DEF Frame
  <2>3. PICK l \in {"replyLock", "snap"} : pc' = [pc EXCEPT ![c] = l]
    BY Zenon DEF Process, Goto
  <2>4. casts' \in Nat
    <3>1. casts' = casts \/ casts' = casts + 1
      BY Zenon DEF Process
    <3> QED
      BY <3>1 DEF ServerInv, TypeOK, WireTypes
  <2>5. \E kind \in Answers, v \in {"none", "on", "off", "incompatible"}, drop \in BOOLEAN :
          /\ Answer(c, kind, v, drop) /\ (v = "incompatible" => drop)
          /\ kind = "Broken" => v = "none"
    <3>1. CASE CheckVersion(c)
      BY Zenon, <3>1, BoundFacts DEF CheckVersion, Answers
    <3>2. CASE OtherMethod(c)
      BY Zenon, <3>2, BoundFacts DEF OtherMethod
    <3> QED
      BY Zenon, <3>1, <3>2 DEF Process, Answers
  <2>6. PICK r \in Replies : /\ reply' = [reply EXCEPT ![c] = r] /\ r.id = Head(frames[c]).id
                             /\ r.verdict = "incompatible" => r.drop
                             /\ r.kind = "Broken" => r.verdict = "none"
    <3>1. PICK kind \in Answers, v \in {"none", "on", "off", "incompatible"}, drop \in BOOLEAN :
            /\ Answer(c, kind, v, drop) /\ (v = "incompatible" => drop)
            /\ kind = "Broken" => v = "none"
      BY Zenon, <2>5
    <3> DEFINE r == [kind |-> kind, id |-> Head(frames[c]).id, verdict |-> v, drop |-> drop]
    <3>2. r \in Replies
      BY Zenon, <2>2 DEF Replies
    <3> QED
      BY Zenon, <3>1, <3>2 DEF Answer
  <2> QED
    BY Zenon, <2>1, <2>3, <2>4, <2>6
<1>2. UNCHANGED <<running, listening, mainPc, mainTodo, acceptPc, accepted, listed, fd,
                  sock, writeMutex, closed, compatible, notifications, todo, peers, peer,
                  inq, out, torn, asked, said, sent, starts>>
  BY Zenon DEF Process, serverVars, sockVars, flagVars, wireVars, boundVars
<1>3. ServerTypes' /\ SocketTypes' /\ OrderOK'
  BY Zenon, <1>2, SameServerTypes, SameSocketTypes, SameOrderOK DEF ServerInv, TypeOK
<1>4. ThreadTypes'
  <2>1. /\ l \in Locs
        /\ c \in Notifiers => l \in CastLocs
    BY Zenon, <1>1, <1>2, LocFacts, WriterFacts
  <2>2. pc' \in [Writers -> Locs] /\ \A n \in Notifiers : pc'[n] \in CastLocs
    BY Zenon, <1>1, <1>2, <2>1, GotoFacts, WriterFacts DEF ServerInv
  <2>3. todo' \in [Writers -> SUBSET Conns]
    BY Zenon, <1>1, <1>2 DEF ServerInv, TypeOK, ThreadTypes, ServerTypes
  <2> QED
    BY Zenon, <2>2, <2>3 DEF ThreadTypes
<1>5. RequestTypes'
  BY Zenon, <1>1, <1>2, TailFacts DEF ServerInv, TypeOK, RequestTypes
<1>6. WireTypes'
  BY Zenon, <1>1, <1>2 DEF ServerInv, TypeOK, WireTypes
<1>7. SocketsOK'
  BY ZenonT(30), <1>1, <1>2, SocketsGoto, WriterFacts
<1>8. HoldersOK'
  <2> SUFFICES ASSUME NEW u \in Writers PROVE HolderOK(u)'
    BY Zenon DEF HoldersOK
  <2>1. HolderOK(u)
    BY Zenon DEF ServerInv, HoldersOK
  <2>2. Writing(u) => Target(u) \in Conns
    BY Zenon, TargetIsConn
  <2>3. todo[u] # {} => Min(todo[u]) \in Conns
    BY Zenon, NextConn DEF ServerInv, TypeOK, ThreadTypes
  <2> QED
    BY ZenonT(30), <2>1, <2>2, <2>3, <1>1, <1>2, WriterFacts DEF ServerInv, TypeOK, HolderOK, Writing,
       Target, ThreadTypes, SocketTypes
<1>9. ClosersOK'
  BY Zenon, <1>1, <1>2, ClosersGoto, WriterFacts
<1>10. RequestsOK'
  <2> SUFFICES ASSUME NEW d \in Conns PROVE RequestOK(d)'
    BY Zenon DEF RequestsOK
  <2>1. RequestOK(d)
    BY Zenon DEF ServerInv, RequestsOK
  <2>2. CASE d # c
    <3>1. pc'[d] = pc[d] /\ frames'[d] = frames[d] /\ reply'[d] = reply[d]
      BY Zenon, <2>2, <1>1, <1>2, WriterFacts DEF ServerInv, TypeOK, ThreadTypes, RequestTypes, WireTypes
    <3> QED
      BY Zenon, <2>1, <3>1, <1>2 DEF RequestOK, Pending, Life
  <2>3. CASE d = c
    <3> DEFINE q == frames[c]
    <3>1. pc'[c] \in {"replyLock", "snap"} /\ frames'[c] = Tail(q) /\ reply'[c] = r
      BY Zenon, <1>1, WriterFacts DEF ServerInv, TypeOK, ThreadTypes, RequestTypes
    <3>2. q \in Seq(Frame) /\ inq[c] \in Seq(Frame) /\ sent[c] \in Nat
      BY Zenon DEF ServerInv, TypeOK, WireTypes, RequestTypes
    <3>3. q # <<>> /\ r.id = Head(q).id
      BY ZenonT(30), <1>1
    <3>4. Numbered(q, sent[c] - Len(inq[c])) /\ sent[c] - Len(inq[c]) \in Int
      BY <2>1, <2>3, <3>2 DEF RequestOK
    <3>5. Life(c) = "up" => Len(asked[c]) = Len(q) + Len(inq[c])
      BY Zenon, <2>1, <2>3, <1>1 DEF RequestOK
    <3>6. Len(Tail(q)) = Len(q) - 1 /\ Len(q) \in Nat /\ Len(inq[c]) \in Nat
      BY <3>2, <3>3, TailFacts
    <3>7. Numbered(Tail(q), sent[c] - Len(inq[c])) /\ r.id = sent[c] - Len(inq[c]) - Len(Tail(q))
      BY Zenon, <3>2, <3>3, <3>4, NumberedTail
    <3>8. Life(c) = "up" => Len(asked[c]) = Len(Tail(q)) + Len(inq[c]) + 1
      <4>1. Len(q) + Len(inq[c]) = (Len(q) - 1) + Len(inq[c]) + 1
        BY ZenonT(30), <3>6, CountFacts
      <4> QED
        BY <3>5, <3>6, <4>1, Zenon
    <3>9. Life(c)' = Life(c) /\ asked' = asked /\ sent' = sent /\ inq' = inq /\ peer' = peer
      BY ZenonT(30), <1>2 DEF Life
    <3> HIDE DEF q
    <3> QED
      BY Zenon, <2>1, <2>3, <3>1, <3>7, <3>8, <3>9 DEF RequestOK, Pending
  <2> QED
    BY Zenon, <2>2, <2>3
<1>11. AnswersOK'
  <2> SUFFICES ASSUME NEW d \in Conns PROVE AnswerOK(d)'
    BY Zenon DEF AnswersOK
  <2>1. AnswerOK(d)
    BY Zenon DEF ServerInv, AnswersOK
  <2> QED
    BY ZenonT(30), <2>1, <1>1, <1>2, WriterFacts DEF ServerInv, TypeOK, AnswerOK, Life, ThreadTypes,
       SocketTypes, RequestTypes
<1> QED
  BY ZenonT(30), <1>3, <1>4, <1>5, <1>6, <1>7, <1>8, <1>9, <1>10, <1>11 DEF ServerInv, TypeOK

\* The answer takes writeMutex_ and loads fd_.
LEMMA ReplyLockKeeps ==
  ASSUME ServerInv, NEW c \in Conns, ReplyLock(c)
  PROVE  ServerInv'
<1>1. /\ pc[c] = "replyLock"
      /\ writeMutex[c] = None
      /\ pc' = [pc EXCEPT ![c] = IF fd[c] THEN "replySend" ELSE "replyFailed"]
      /\ writeMutex' = [writeMutex EXCEPT ![c] = IF fd[c] THEN c ELSE None]
  BY Zenon DEF ReplyLock, Goto, SocketTypes, ServerInv, TypeOK
<1>2. UNCHANGED <<running, listening, mainPc, mainTodo, acceptPc, accepted, listed, fd,
                  sock, closed, compatible, notifications, frames, reply, todo, peers,
                  peer, inq, out, torn, asked, said, sent, casts, starts>>
  BY Zenon DEF ReplyLock, serverVars, sockVars, flagVars, wireVars, boundVars
<1>3. SocketOK(c)
  BY Zenon DEF ServerInv, SocketsOK
<1>4. ServerTypes' /\ RequestTypes' /\ WireTypes' /\ OrderOK'
  BY Zenon, <1>2, SameServerTypes, SameRequestTypes, SameWireTypes, SameOrderOK DEF ServerInv,
     TypeOK
<1>5. SocketTypes'
  BY Zenon, <1>1, <1>2, <1>3, WriterFacts DEF ServerInv, TypeOK, SocketTypes
<1>6. ThreadTypes'
  <2>1. PICK l \in Locs : pc' = [pc EXCEPT ![c] = l]
    BY Zenon, <1>1, LocFacts
  <2> QED
    BY Zenon, <2>1, <1>2, ThreadGoto DEF ServerInv
<1>7. SocketsOK'
  BY Zenon, <1>1, <1>2, SocketsGoto, WriterFacts
<1>8. HoldersOK'
  <2> SUFFICES ASSUME NEW u \in Writers PROVE HolderOK(u)'
    BY Zenon DEF HoldersOK
  <2>1. HolderOK(u)
    BY Zenon DEF ServerInv, HoldersOK
  <2>2. Writing(u) => Target(u) \in Conns
    BY Zenon, TargetIsConn
  <2>3. todo[u] # {} => Min(todo[u]) \in Conns
    BY Zenon, NextConn DEF ServerInv, TypeOK, ThreadTypes
  <2> QED
    BY ZenonT(30), <2>1, <2>2, <2>3, <1>1, <1>2, <1>3, WriterFacts DEF ServerInv, TypeOK, HolderOK,
       Writing, Target, ThreadTypes, SocketTypes, SocketOK
<1>9. ClosersOK'
  BY ZenonT(30), <1>1, <1>2, ClosersGoto, WriterFacts
<1>10. RequestsOK'
  <2> SUFFICES ASSUME NEW d \in Conns PROVE RequestOK(d)'
    BY Zenon DEF RequestsOK
  <2>1. RequestOK(d)
    BY Zenon DEF ServerInv, RequestsOK
  <2> QED
    BY ZenonT(30), <2>1, <1>1, <1>2, <1>3, WriterFacts DEF ServerInv, TypeOK, RequestOK, Pending,
       Life, ThreadTypes, SocketTypes, RequestTypes, WireTypes
<1>11. AnswersOK'
  <2> SUFFICES ASSUME NEW d \in Conns PROVE AnswerOK(d)'
    BY Zenon DEF AnswersOK
  <2>1. AnswerOK(d)
    BY Zenon DEF ServerInv, AnswersOK
  <2> QED
    BY Zenon, <2>1, <1>1, <1>2, <1>3, WriterFacts DEF ServerInv, TypeOK, AnswerOK, Life,
       ThreadTypes, SocketTypes, RequestTypes, SocketOK
<1> QED
  BY Zenon, <1>4, <1>5, <1>6, <1>7, <1>8, <1>9, <1>10, <1>11 DEF ServerInv, TypeOK

\* The answer is sent: it is the one to the oldest request.
LEMMA ReplySendKeeps ==
  ASSUME ServerInv, NEW c \in Conns, ReplySend(c)
  PROVE  ServerInv'
<1>1. /\ pc[c] = "replySend" /\ Alive(c)
      /\ torn' = [torn EXCEPT ![c] = IF reply[c].kind = "Broken" THEN TRUE ELSE @]
      /\ pc' = [pc EXCEPT ![c] = IF reply[c].kind = "Broken" THEN "close" ELSE "after"]
      /\ out' = [out EXCEPT ![c] = IF reply[c].kind = "Broken" THEN @
                                      ELSE Append(@, [kind |-> reply[c].kind, id |-> reply[c].id])]
      /\ asked' = [asked EXCEPT ![c] = Tail(@)]
      /\ said' = [said EXCEPT ![c] = @ \cup ({reply[c].verdict} \ {"none"})]
      /\ writeMutex' = [writeMutex EXCEPT ![c] = None]
  BY Zenon DEF ReplySend, Goto, WireTypes, ServerInv, TypeOK
<1>2. UNCHANGED <<running, listening, mainPc, mainTodo, acceptPc, accepted, listed, fd,
                  sock, closed, compatible, notifications, frames, reply, todo, peers,
                  peer, inq, sent, casts, starts>>
  BY Zenon DEF ReplySend, serverVars, sockVars, flagVars, wireVars, boundVars
<1>3. SocketOK(c)
  BY Zenon DEF ServerInv, SocketsOK
<1>4. RequestOK(c)
  BY Zenon DEF ServerInv, RequestsOK
<1>5. AnswerOK(c)
  BY Zenon DEF ServerInv, AnswersOK
<1>6. HolderOK(c)
  BY Zenon, WriterFacts DEF ServerInv, HoldersOK
<1>7. Life(c) = "up" /\ Life(c)' = "up"
  BY Zenon, <1>1, <1>2 DEF Life, Alive
<1>8. asked[c] \in Seq(Nat) /\ asked[c] # <<>>
  <2>1. /\ asked[c] \in Seq(Nat) /\ Len(frames[c]) \in Nat /\ Len(inq[c]) \in Nat
        /\ Len(asked[c]) = Len(frames[c]) + Len(inq[c]) + 1
    <3>1. asked[c] \in Seq(Nat) /\ frames[c] \in Seq(Frame) /\ inq[c] \in Seq(Frame)
      BY Zenon DEF ServerInv, TypeOK, WireTypes, RequestTypes
    <3>2. Len(frames[c]) \in Nat /\ Len(inq[c]) \in Nat
      BY <3>1
    <3> QED
      BY Zenon, <3>1, <3>2, <1>1, <1>4, <1>7 DEF RequestOK, Pending
  <2>2. Len(asked[c]) \in Nat
    BY DEF ServerInv, TypeOK, WireTypes
  <2>3. Len(asked[c]) = Len(frames[c]) + Len(inq[c]) + 1 => Len(asked[c]) # 0
    <3> DEFINE x == Len(frames[c])
               y == Len(inq[c])
               z == Len(asked[c])
    <3>1. x \in Nat /\ y \in Nat /\ z \in Nat
      BY <2>1, <2>2, Zenon
    <3> HIDE DEF x, y, z
    <3>2. z = x + y + 1 => z # 0
      BY <3>1
    <3> QED
      BY <3>2, Zenon DEF x, y, z
  <2> QED
    BY <2>1, <2>3, EmptySeq, Zenon
<1>9. writeMutex[c] = c
  BY Zenon, <1>1, <1>6, WriterFacts DEF HolderOK, Writing, Target
<1>10. ServerTypes' /\ RequestTypes' /\ OrderOK'
  BY Zenon, <1>2, SameServerTypes, SameRequestTypes, SameOrderOK DEF ServerInv, TypeOK
<1>11. SocketTypes'
  BY ZenonT(30), <1>1, <1>2, <1>3, <1>4, <1>5, <1>6, <1>7, <1>8, <1>9, WriterFacts DEF ServerInv,
     TypeOK, SocketTypes
<1>12. ThreadTypes'
  <2>1. PICK l \in Locs : pc' = [pc EXCEPT ![c] = l]
    BY Zenon, <1>1, LocFacts
  <2> QED
    BY Zenon, <2>1, <1>2, ThreadGoto DEF ServerInv
<1>13. WireTypes'
  <2>1. /\ reply[c] \in Replies
        /\ reply[c].kind # "Broken" => [kind |-> reply[c].kind, id |-> reply[c].id] \in Written
    BY Zenon DEF ServerInv, TypeOK, RequestTypes, Replies, Written
  <2>2. out' \in [Conns -> Seq(Written)]
    <3>1. out[c] \in Seq(Written)
      BY Zenon DEF ServerInv, TypeOK, WireTypes
    <3>2. CASE reply[c].kind = "Broken"
      BY Zenon, <3>2, <1>1 DEF ServerInv, TypeOK, WireTypes
    <3>3. CASE reply[c].kind # "Broken"
      BY Zenon, <3>1, <3>3, <1>1, <2>1, AppendFacts DEF ServerInv, TypeOK, WireTypes
    <3> QED
      BY Zenon, <3>2, <3>3
  <2>3. asked' \in [Conns -> Seq(Nat)]
    BY Zenon, <1>1, <1>8, TailFacts DEF ServerInv, TypeOK, WireTypes
  <2>4. torn' \in [Conns -> BOOLEAN] /\ said' \in [Conns -> SUBSET {"on", "off", "incompatible"}]
    BY Zenon, <1>1, <2>1 DEF ServerInv, TypeOK, WireTypes, Replies
  <2> QED
    BY Zenon, <2>2, <2>3, <2>4, <1>2 DEF ServerInv, TypeOK, WireTypes
<1>14. SocketsOK'
  BY Zenon, <1>1, <1>2, SocketsGoto, WriterFacts
<1>15. HoldersOK'
  <2> SUFFICES ASSUME NEW u \in Writers PROVE HolderOK(u)'
    BY Zenon DEF HoldersOK
  <2>1. HolderOK(u)
    BY Zenon DEF ServerInv, HoldersOK
  <2>2. Writing(u) => Target(u) \in Conns
    BY Zenon, TargetIsConn
  <2>3. todo[u] # {} => Min(todo[u]) \in Conns
    BY Zenon, NextConn DEF ServerInv, TypeOK, ThreadTypes
  <2>4. CASE u # c
    <3>1. pc'[u] = pc[u]
      BY Zenon, <2>4, <1>1 DEF ServerInv, TypeOK, ThreadTypes
    <3> QED
      BY ZenonT(30), <2>1, <2>2, <2>3, <2>4, <3>1, <1>1, <1>2, <1>9, WriterFacts DEF ServerInv,
         TypeOK, HolderOK, Writing, Target, SocketTypes
  <2>5. CASE u = c
    <3>1. /\ pc'[c] = (IF reply[c].kind = "Broken" THEN "close" ELSE "after")
          /\ writeMutex'[c] = None
      BY ZenonT(30), <1>1, <1>2, <1>3, <1>4, <1>5, <1>6, <1>7, <1>8, <1>9, WriterFacts DEF ServerInv,
         TypeOK, SocketTypes, ThreadTypes, RequestTypes, WireTypes
    <3> QED
      BY Zenon, <2>1, <2>5, <3>1, <2>2, <2>3, <1>1, <1>2, <1>3, <1>4, <1>5, <1>6, <1>7, <1>8,
         <1>9, WriterFacts DEF ServerInv, TypeOK, HolderOK, Writing, Target, ThreadTypes,
         SocketTypes
  <2> QED
    BY ZenonT(30), <2>4, <2>5
<1>16. ClosersOK'
  BY Zenon, <1>1, <1>2, ClosersGoto, WriterFacts
<1>17. RequestsOK'
  <2> SUFFICES ASSUME NEW d \in Conns PROVE RequestOK(d)'
    BY Zenon DEF RequestsOK
  <2>1. RequestOK(d)
    BY Zenon DEF ServerInv, RequestsOK
  <2>2. CASE d # c
    <3>1. pc'[d] = pc[d] /\ asked'[d] = asked[d]
      BY Zenon, <2>2, <1>1, <1>2, WriterFacts DEF ServerInv, TypeOK, ThreadTypes, RequestTypes, WireTypes
    <3> QED
      BY Zenon, <2>1, <3>1, <1>2 DEF RequestOK, Pending, Life
  <2>3. CASE d = c
    <3> DEFINE q == asked[c]
    <3>1. pc'[c] \in {"close", "after"} /\ asked'[c] = Tail(q)
      BY Zenon, <1>1, WriterFacts DEF ServerInv, TypeOK, ThreadTypes, WireTypes
    <3>2. Counted(q, sent[c]) /\ sent[c] \in Nat
      BY Zenon, <1>4 DEF RequestOK, ServerInv, TypeOK, WireTypes
    <3>3. Counted(Tail(q), sent[c])
      <4>1. q \in Seq(Nat) /\ q # <<>> /\ sent[c] \in Int
        BY <3>2, <1>8
      <4> HIDE DEF q
      <4> QED
        BY Zenon, <3>2, <4>1, CountedTail
    <3>4. Len(Tail(q)) = Len(frames[c]) + Len(inq[c])
      <4>1. Len(Tail(q)) = Len(q) - 1 /\ Len(q) \in Nat
        BY Zenon, <1>8, TailFacts
      <4>2. Len(q) = Len(frames[c]) + Len(inq[c]) + 1
        BY Zenon, <1>1, <1>4, <1>7 DEF RequestOK, Pending
      <4>3. Len(frames[c]) \in Nat /\ Len(inq[c]) \in Nat
        BY DEF ServerInv, TypeOK, RequestTypes, WireTypes
      <4>4. Len(q) - 1 = Len(frames[c]) + Len(inq[c])
        BY ZenonT(30), <4>1, <4>2, <4>3, CountFacts
      <4> QED
        BY <4>1, <4>4, Zenon
    <3>5. peer[c] # "none"
      BY ZenonT(30), <1>1 DEF Alive
    <3> HIDE DEF q
    <3> QED
      BY Zenon, <1>4, <2>3, <3>1, <3>3, <3>4, <3>5, <1>2 DEF RequestOK, Pending
  <2> QED
    BY Zenon, <2>2, <2>3
<1>18. AnswersOK'
  <2> SUFFICES ASSUME NEW d \in Conns PROVE AnswerOK(d)'
    BY Zenon DEF AnswersOK
  <2>1. AnswerOK(d)
    BY Zenon DEF ServerInv, AnswersOK
  <2>2. CASE d # c
    <3>1. torn'[d] = torn[d] /\ pc'[d] = pc[d] /\ out'[d] = out[d] /\ asked'[d] = asked[d] /\ said'[d] = said[d]
      BY ZenonT(30), <2>2, <1>1, WriterFacts DEF ServerInv, TypeOK, SocketTypes, ThreadTypes,
         RequestTypes, WireTypes
    <3> QED
      BY ZenonT(30), <2>1, <2>2, <3>1, <1>1, <1>2, <1>3, <1>4, <1>5, <1>6, <1>7, <1>8, <1>9,
         WriterFacts DEF ServerInv, TypeOK, AnswerOK, Life, ThreadTypes, SocketTypes,
         RequestTypes
  <2>3. CASE d = c
    <3>1. /\ torn'[c] = (IF reply[c].kind = "Broken" THEN TRUE ELSE torn[c])
          /\ pc'[c] = (IF reply[c].kind = "Broken" THEN "close" ELSE "after")
          /\ out'[c] = (IF reply[c].kind = "Broken" THEN out[c]
                                      ELSE Append(out[c], [kind |-> reply[c].kind, id |-> reply[c].id]))
          /\ asked'[c] = Tail(asked[c])
          /\ said'[c] = said[c] \cup ({reply[c].verdict} \ {"none"})
      BY ZenonT(30), <1>1, <1>2, <1>3, <1>4, <1>5, <1>6, <1>7, <1>8, <1>9, WriterFacts DEF ServerInv,
         TypeOK, SocketTypes, ThreadTypes, RequestTypes, WireTypes
    <3> QED
      BY ZenonT(30), <2>1, <2>3, <3>1, <1>1, <1>2, <1>3, <1>4, <1>5, <1>6, <1>7, <1>8, <1>9,
         WriterFacts DEF ServerInv, TypeOK, AnswerOK, Life, ThreadTypes, SocketTypes,
         RequestTypes
  <2> QED
    BY Zenon, <2>2, <2>3
<1> QED
  BY ZenonT(30), <1>10, <1>11, <1>12, <1>13, <1>14, <1>15, <1>16, <1>17, <1>18 DEF ServerInv, TypeOK

=============================================================================
