-------------------------- MODULE TcpRpcClientWire --------------------------
(***************************************************************************)
(* Theorems about what TcpRpcClient reads from its connections.            *)
(*                                                                         *)
(* WireInv is inductive together with ClientInv and says what is on its    *)
(* way on each connection: that a reply is the call's own follows from it. *)
(*                                                                         *)
(* NoticeInv is inductive together with ClientInv and says where each      *)
(* notification is: on its way, read by one call(), or delivered.          *)
(***************************************************************************)
EXTENDS TcpRpcClientProofs

-----------------------------------------------------------------------------
(* Replies among the frames of a connection                                *)

IsReply(f) == f.kind # "Notification"
NoReply(q) == \A n \in 1..Len(q) : ~IsReply(q[n])
OnlyReply(q, i) ==
  \E k \in 1..Len(q) : /\ IsReply(q[k]) /\ q[k].id = i
                       /\ \A n \in 1..Len(q) : IsReply(q[n]) => n = k

\* A sequence with one more element
LEMMA AppendElements ==
  ASSUME NEW S, NEW q \in Seq(S), NEW x \in S
  PROVE  /\ Append(q, x) \in Seq(S)
         /\ \A n : n \in 1..Len(Append(q, x)) <=> n \in 1..Len(q) \/ n = Len(q) + 1
         /\ Append(q, x)[Len(q) + 1] = x
         /\ \A n \in 1..Len(q) : Append(q, x)[n] = q[n] /\ n # Len(q) + 1
  OBVIOUS

\* A notification arrives: the replies stay what they are.
LEMMA NotificationKeepsReplies ==
  ASSUME NEW q \in Seq(Frames), NEW x \in Frames, ~IsReply(x)
  PROVE  /\ NoReply(q) => NoReply(Append(q, x))
         /\ \A i \in Nat : OnlyReply(q, i) => OnlyReply(Append(q, x), i)
<1> DEFINE a == Append(q, x)
<1>1. /\ \A n : n \in 1..Len(a) <=> n \in 1..Len(q) \/ n = Len(q) + 1
      /\ a[Len(q) + 1] = x /\ \A n \in 1..Len(q) : a[n] = q[n]
  BY AppendElements
<1> HIDE DEF a
<1>2. \A n \in 1..Len(a) : IsReply(a[n]) => n \in 1..Len(q) /\ IsReply(q[n])
  BY Zenon, <1>1
<1>3. \A n \in 1..Len(q) : n \in 1..Len(a) /\ a[n] = q[n]
  BY Zenon, <1>1
<1>4. NoReply(q) => NoReply(a)
  BY Zenon, <1>2 DEF NoReply
<1>5. ASSUME NEW i \in Nat, OnlyReply(q, i) PROVE OnlyReply(a, i)
  BY Zenon, <1>2, <1>3, <1>5 DEF OnlyReply
<1> QED
  BY Zenon, <1>4, <1>5 DEF a

\* A reply arrives where there was none.
LEMMA ReplyArrives ==
  ASSUME NEW q \in Seq(Frames), NEW x \in Frames, IsReply(x), NoReply(q)
  PROVE  OnlyReply(Append(q, x), x.id)
<1> DEFINE a == Append(q, x)
<1>1. /\ \A n : n \in 1..Len(a) <=> n \in 1..Len(q) \/ n = Len(q) + 1
      /\ a[Len(q) + 1] = x /\ \A n \in 1..Len(q) : a[n] = q[n]
  BY AppendElements
<1> HIDE DEF a
<1>2. Len(q) + 1 \in 1..Len(a) /\ a[Len(q) + 1] = x
  BY Zenon, <1>1
<1>3. \A n \in 1..Len(a) : IsReply(a[n]) => n = Len(q) + 1
  BY Zenon, <1>1 DEF NoReply
<1>4. OnlyReply(a, x.id)
  BY Zenon, <1>2, <1>3 DEF OnlyReply
<1> QED
  BY Zenon, <1>4 DEF a

\* The first frame is taken.
LEMMA TakenFrame ==
  ASSUME NEW q \in Seq(Frames), q # <<>>
  PROVE  /\ NoReply(q) => ~IsReply(Head(q)) /\ NoReply(Tail(q))
         /\ \A i \in Nat : OnlyReply(q, i) =>
              IF IsReply(Head(q)) THEN Head(q).id = i /\ NoReply(Tail(q)) ELSE OnlyReply(Tail(q), i)
<1>1. /\ Head(q) = q[1] /\ 1 \in 1..Len(q)
      /\ \A n \in 1..Len(Tail(q)) : Tail(q)[n] = q[n + 1] /\ n + 1 \in 1..Len(q) /\ n + 1 # 1
      /\ \A n \in 1..Len(q) : n # 1 => n - 1 \in 1..Len(Tail(q)) /\ Tail(q)[n - 1] = q[n]
      /\ \A m, n \in 1..Len(Tail(q)) : m + 1 = n + 1 => m = n
      /\ \A m \in 1..Len(Tail(q)), n \in 1..Len(q) : m + 1 = n => m = n - 1
  OBVIOUS
<1>2. NoReply(q) => ~IsReply(Head(q)) /\ NoReply(Tail(q))
  BY ZenonT(30), <1>1 DEF NoReply
<1>3. ASSUME NEW i \in Nat, OnlyReply(q, i), IsReply(Head(q))
      PROVE  Head(q).id = i /\ NoReply(Tail(q))
  <2>1. PICK k \in 1..Len(q) : /\ IsReply(q[k]) /\ q[k].id = i
                               /\ \A n \in 1..Len(q) : IsReply(q[n]) => n = k
    BY Zenon, <1>3 DEF OnlyReply
  <2>2. k = 1
    BY Zenon, <1>1, <1>3, <2>1
  <2>3. \A n \in 1..Len(Tail(q)) : ~IsReply(q[n + 1])
    BY Zenon, <1>1, <2>1, <2>2
  <2> QED
    BY Zenon, <1>1, <2>1, <2>2, <2>3 DEF NoReply
<1>4. ASSUME NEW i \in Nat, OnlyReply(q, i), ~IsReply(Head(q))
      PROVE  OnlyReply(Tail(q), i)
  <2>1. PICK k \in 1..Len(q) : /\ IsReply(q[k]) /\ q[k].id = i
                               /\ \A n \in 1..Len(q) : IsReply(q[n]) => n = k
    BY Zenon, <1>4 DEF OnlyReply
  <2>2. k - 1 \in 1..Len(Tail(q)) /\ Tail(q)[k - 1] = q[k]
    BY ZenonT(30), <1>1, <1>4, <2>1
  <2>3. \A n \in 1..Len(Tail(q)) : IsReply(Tail(q)[n]) => n = k - 1
    <3> SUFFICES ASSUME NEW n \in 1..Len(Tail(q)), IsReply(Tail(q)[n]) PROVE n = k - 1
      BY Zenon
    <3>1. n + 1 \in 1..Len(q) /\ IsReply(q[n + 1])
      BY Zenon, <1>1
    <3>2. n + 1 = k
      BY Zenon, <2>1, <3>1
    <3> QED
      BY Zenon, <1>1, <3>2
  <2> QED
    BY Zenon, <2>1, <2>2, <2>3 DEF OnlyReply
<1> QED
  BY Zenon, <1>2, <1>3, <1>4

\* The first n frames, and what is left without them
LEMMA SplitFrames ==
  ASSUME NEW q \in Seq(Frames), NEW n \in 0..Len(q)
  PROVE  /\ NoReply(q) => NoReply(SubSeq(q, 1, n)) /\ NoReply(SubSeq(q, n + 1, Len(q)))
         /\ \A i \in Nat : OnlyReply(q, i) =>
              \/ OnlyReply(SubSeq(q, 1, n), i) /\ NoReply(SubSeq(q, n + 1, Len(q)))
              \/ NoReply(SubSeq(q, 1, n)) /\ OnlyReply(SubSeq(q, n + 1, Len(q)), i)
<1> DEFINE p == SubSeq(q, 1, n)
           r == SubSeq(q, n + 1, Len(q))
<1>1. /\ \A m \in 1..Len(p) : p[m] = q[m] /\ m \in 1..Len(q) /\ m <= n
      /\ \A m \in 1..Len(q) : m <= n => m \in 1..Len(p) /\ p[m] = q[m]
  <2>1. Len(p) = n /\ \A m \in 1..n : p[m] = q[m]
    OBVIOUS
  <2> QED
    BY <2>1
<1>2. /\ \A m \in 1..Len(r) : r[m] = q[n + m] /\ n + m \in 1..Len(q) /\ ~(n + m <= n)
      /\ \A m \in 1..Len(q) : ~(m <= n) => m - n \in 1..Len(r) /\ r[m - n] = q[m]
      /\ \A k \in 1..Len(q), m \in 1..Len(r) : n + m = k => m = k - n
  <2>1. Len(r) = Len(q) - n /\ \A m \in 1..Len(q) - n : r[m] = q[n + m]
    OBVIOUS
  <2> QED
    BY <2>1
<1> HIDE DEF p, r
<1>3. NoReply(q) => NoReply(p) /\ NoReply(r)
  BY Zenon, <1>1, <1>2 DEF NoReply
<1>4. ASSUME NEW i \in Nat, OnlyReply(q, i)
      PROVE  (OnlyReply(p, i) /\ NoReply(r)) \/ (NoReply(p) /\ OnlyReply(r, i))
  <2>1. PICK k \in 1..Len(q) : /\ IsReply(q[k]) /\ q[k].id = i
                               /\ \A m \in 1..Len(q) : IsReply(q[m]) => m = k
    BY Zenon, <1>4 DEF OnlyReply
  <2>2. CASE k <= n
    <3>1. NoReply(r)
      BY Zenon, <1>2, <2>1, <2>2 DEF NoReply
    <3>2. k \in 1..Len(p) /\ p[k] = q[k] /\ \A m \in 1..Len(p) : IsReply(p[m]) => m = k
      BY Zenon, <1>1, <2>1, <2>2
    <3>3. OnlyReply(p, i)
      BY Zenon, <2>1, <3>2 DEF OnlyReply
    <3> QED
      BY Zenon, <3>1, <3>3
  <2>3. CASE ~(k <= n)
    <3>1. NoReply(p)
      BY Zenon, <1>1, <2>1, <2>3 DEF NoReply
    <3>2. k - n \in 1..Len(r) /\ r[k - n] = q[k] /\ \A m \in 1..Len(r) : IsReply(r[m]) => m = k - n
      BY Zenon, <1>2, <2>1, <2>3
    <3>3. OnlyReply(r, i)
      BY Zenon, <2>1, <3>2 DEF OnlyReply
    <3> QED
      BY Zenon, <3>1, <3>3
  <2> QED
    BY Zenon, <2>2, <2>3
<1> QED
  BY Zenon, <1>3, <1>4 DEF p, r

\* Frames are put behind others.
LEMMA JoinFrames ==
  ASSUME NEW p \in Seq(Frames), NEW q \in Seq(Frames)
  PROVE  /\ NoReply(p) /\ NoReply(q) => NoReply(p \o q)
         /\ \A i \in Nat : (OnlyReply(p, i) /\ NoReply(q)) \/ (NoReply(p) /\ OnlyReply(q, i))
              => OnlyReply(p \o q, i)
<1> DEFINE s == p \o q
<1>1. /\ \A m \in 1..Len(p) : m \in 1..Len(s) /\ s[m] = p[m]
      /\ \A m \in 1..Len(q) : Len(p) + m \in 1..Len(s) /\ s[Len(p) + m] = q[m]
      /\ \A n \in 1..Len(s) : n \in 1..Len(p) \/ (n - Len(p) \in 1..Len(q) /\ n = Len(p) + (n - Len(p)))
  <2>1. Len(s) = Len(p) + Len(q) /\ \A m \in 1..Len(s) : s[m] = (IF m <= Len(p) THEN p[m] ELSE q[m - Len(p)])
    OBVIOUS
  <2> QED
    BY <2>1
<1> HIDE DEF s
<1>2. NoReply(p) /\ NoReply(q) => NoReply(s)
  BY Zenon, <1>1 DEF NoReply
<1>3. ASSUME NEW i \in Nat, OnlyReply(p, i), NoReply(q) PROVE OnlyReply(s, i)
  <2>1. PICK k \in 1..Len(p) : /\ IsReply(p[k]) /\ p[k].id = i
                               /\ \A m \in 1..Len(p) : IsReply(p[m]) => m = k
    BY Zenon, <1>3 DEF OnlyReply
  <2>2. k \in 1..Len(s) /\ s[k] = p[k]
    BY Zenon, <1>1
  <2>3. \A n \in 1..Len(s) : IsReply(s[n]) => n = k
    BY Zenon, <1>1, <1>3, <2>1 DEF NoReply
  <2> QED
    BY Zenon, <2>1, <2>2, <2>3 DEF OnlyReply
<1>4. ASSUME NEW i \in Nat, NoReply(p), OnlyReply(q, i) PROVE OnlyReply(s, i)
  <2>1. PICK k \in 1..Len(q) : /\ IsReply(q[k]) /\ q[k].id = i
                               /\ \A m \in 1..Len(q) : IsReply(q[m]) => m = k
    BY Zenon, <1>4 DEF OnlyReply
  <2>2. Len(p) + k \in 1..Len(s) /\ s[Len(p) + k] = q[k]
    BY Zenon, <1>1
  <2>3. \A n \in 1..Len(s) : IsReply(s[n]) => n = Len(p) + k
    BY Zenon, <1>1, <1>4, <2>1 DEF NoReply
  <2> QED
    BY Zenon, <2>1, <2>2, <2>3 DEF OnlyReply
<1> QED
  BY Zenon, <1>2, <1>3, <1>4 DEF s

-----------------------------------------------------------------------------
(* What is on its way on a connection                                      *)

\* Nothing, a part of a request, or the request i or the reply to it
Quiet(c) == asked[c] = <<>> /\ ~partial[c] /\ NoReply(inbox[c]) /\ NoReply(pending[c])
Torn(c) == asked[c] = <<>> /\ partial[c] /\ NoReply(inbox[c]) /\ NoReply(pending[c])
Outstanding(c, i) ==
  /\ ~partial[c]
  /\ \/ asked[c] = <<i>> /\ NoReply(inbox[c]) /\ NoReply(pending[c])
     \/ asked[c] = <<>> /\ OnlyReply(inbox[c], i) /\ NoReply(pending[c])
     \/ asked[c] = <<>> /\ NoReply(inbox[c]) /\ OnlyReply(pending[c], i)

InCall(t, c) == pc[t] \in CallHeld /\ cur[t] = c

\* A connection nobody has used yet, or on which no call is in progress, is quiet.
TrafficOK(c) ==
  /\ Quiet(c) \/ Torn(c) \/ \E i \in Nat : Outstanding(c, i)
  /\ c > conns => Quiet(c)
  /\ c = connection /\ (\A t \in Threads : ~InCall(t, c)) => Quiet(c)

\* A call that has sent its request finds no other one on the connection.
CallOK(t) ==
  /\ pc[t] \in {"cWrite", "cSend"} => Quiet(cur[t]) \/ Torn(cur[t])
  /\ pc[t] \in {"cRead", "cRecv"} => Quiet(cur[t]) \/ Outstanding(cur[t], req[t])
  /\ answered[t] # 0 => pc[t] \in {"cNotify", "end"} /\ answered[t] = req[t]

WireInv == (\A c \in Conns : TrafficOK(c)) /\ (\A t \in Threads : CallOK(t))

\* A step that leaves a connection as quiet, torn or outstanding as it is; what is
\* outstanding may be lost.
Keeps(c) ==
  /\ Quiet(c) => Quiet(c)'
  /\ Torn(c) => Torn(c)'
  /\ \A i \in Nat : Outstanding(c, i) => Quiet(c)' \/ Outstanding(c, i)'

\* A step that leaves a thread where it is in call(), or outside of it, or on its way
\* to fail()
Stays(t) ==
  /\ answered'[t] # 0 =>
       answered'[t] = answered[t] /\ req'[t] = req[t] /\ pc'[t] \in {"cNotify", "end"}
  /\ pc[t] \in CallHeld <=> pc'[t] \in CallHeld
  /\ pc[t] \in CallHeld =>
       /\ cur'[t] = cur[t] /\ req'[t] = req[t]
       /\ pc'[t] \in {"cWrite", "cSend"} => pc[t] \in {"cWrite", "cSend"}
       /\ pc'[t] \in {"cRead", "cRecv"} => pc[t] \in {"cRead", "cRecv"}

\* Connections are created one after the other, and published when they are new.
Creates ==
  /\ \A c \in Conns : c > conns' => c > conns
  /\ connection' \in {connection, None} \/ connection' > conns

\* A null connection_ is none of the connections.
LEMMA NoneIsNoConn == None \notin Conns
  BY ClientAssumption DEF Conns

\* A step that keeps what is on the way everywhere and leaves every thread in or outside
\* of its call keeps the invariant.
LEMMA FrameStep ==
  ASSUME ClientInv, WireInv, Creates, \A c \in Conns : Keeps(c), \A t \in Threads : Stays(t)
  PROVE  WireInv'
<1>1. ASSUME NEW c \in Conns PROVE TrafficOK(c)'
  <2>1. TrafficOK(c) /\ Keeps(c)
    BY Zenon DEF WireInv
  <2>2. Quiet(c)' \/ Torn(c)' \/ \E i \in Nat : Outstanding(c, i)'
    BY Zenon, <2>1 DEF TrafficOK, Keeps
  <2>3. c > conns' => Quiet(c)'
    BY Zenon, <2>1 DEF TrafficOK, Keeps, Creates
  <2>4. ASSUME c = connection', \A t \in Threads : ~InCall(t, c)' PROVE Quiet(c)'
    <3>1. CASE connection' = connection
      <4>1. \A t \in Threads : ~InCall(t, c)
        BY Zenon, <2>4 DEF InCall, Stays
      <4> QED
        BY Zenon, <2>1, <2>4, <3>1, <4>1 DEF TrafficOK, Keeps
    <3>2. CASE connection' = None
      BY Zenon, <2>4, <3>2, NoneIsNoConn
    <3>3. CASE connection' > conns
      BY Zenon, <2>1, <2>4, <3>3 DEF TrafficOK, Keeps
    <3> QED
      BY Zenon, <3>1, <3>2, <3>3 DEF Creates
  <2> QED
    BY Zenon, <2>2, <2>3, <2>4 DEF TrafficOK
<1>2. ASSUME NEW t \in Threads PROVE CallOK(t)'
  <2>1. CallOK(t) /\ Stays(t)
    BY Zenon DEF WireInv
  <2>2. answered'[t] # 0 => pc'[t] \in {"cNotify", "end"} /\ answered'[t] = req'[t]
    BY Zenon, <2>1 DEF CallOK, Stays
  <2>3. CASE pc[t] \in CallHeld
    <3>1. PICK c \in Conns : c = cur[t]
      BY Zenon, <2>3, CallHasConnection
    <3>2. cur'[t] = c /\ req'[t] = req[t] /\ Keeps(c)
      BY Zenon, <2>1, <2>3, <3>1 DEF Stays
    <3>3. req[t] \in Nat
      BY Zenon DEF ClientInv, TypeOK, LocalType
    <3>4. pc'[t] \in {"cWrite", "cSend"} => Quiet(c)' \/ Torn(c)'
      BY Zenon, <2>1, <2>3, <3>1, <3>2 DEF CallOK, Stays, Keeps
    <3>5. pc'[t] \in {"cRead", "cRecv"} => Quiet(c)' \/ Outstanding(c, req[t])'
      BY Zenon, <2>1, <2>3, <3>1, <3>2, <3>3 DEF CallOK, Stays, Keeps
    <3> QED
      BY Zenon, <2>2, <3>2, <3>4, <3>5 DEF CallOK, Quiet, Torn, Outstanding
  <2>4. CASE pc[t] \notin CallHeld
    <3>1. pc'[t] \notin CallHeld
      BY Zenon, <2>1, <2>4 DEF Stays
    <3> QED
      BY Zenon, <2>2, <3>1 DEF CallOK, CallHeld
  <2> QED
    BY Zenon, <2>3, <2>4
<1> QED
  BY Zenon, <1>1, <1>2 DEF WireInv

frameVars == <<partial, asked, inbox, pending>>

\* A step that moves no frame
LEMMA SameFrames ==
  ASSUME UNCHANGED frameVars, NEW c
  PROVE  Keeps(c)
  BY Zenon DEF frameVars, Keeps, Quiet, Torn, Outstanding

\* A step that leaves connection_ as it is, or clears it
LEMMA SameConns ==
  ASSUME connection' \in {connection, None}, conns' = conns
  PROVE  Creates
  BY Zenon DEF Creates

\* A step of a thread that is not in a call, and not about to return from one
Outside(t) ==
  /\ pc[t] \notin CallHeld \cup {"cNotify", "end"} /\ pc'[t] \notin CallHeld
  /\ \A u \in Threads \ {t} : pc'[u] = pc[u] /\ cur'[u] = cur[u]
  /\ UNCHANGED <<req, answered, frameVars>>

\* Such a step keeps the invariant.
LEMMA OutsideStep ==
  ASSUME ClientInv, WireInv, Creates, NEW t \in Threads, Outside(t)
  PROVE  WireInv'
<1>1. \A c \in Conns : Keeps(c)
  BY Zenon, SameFrames DEF Outside
<1>2. \A u \in Threads : Stays(u)
  <2> SUFFICES ASSUME NEW u \in Threads PROVE Stays(u)
    BY Zenon
  <2>1. CallOK(u) /\ answered' = answered /\ req' = req
    BY Zenon DEF WireInv, Outside
  <2>2. CASE u = t
    BY Zenon, <2>1, <2>2 DEF Stays, Outside, CallOK
  <2>3. CASE u # t
    BY Zenon, <2>1, <2>3 DEF Stays, Outside, CallOK
  <2> QED
    BY Zenon, <2>2, <2>3
<1> QED
  BY Zenon, <1>1, <1>2, FrameStep

\* A step of a thread in a call: it waits, gives up, or frames move
Within(t) ==
  /\ pc[t] \in CallHeld /\ pc'[t] \in CallHeld
  /\ pc'[t] \in {"cWrite", "cSend"} => pc[t] \in {"cWrite", "cSend"}
  /\ pc'[t] \in {"cRead", "cRecv"} => pc[t] \in {"cRead", "cRecv"}
  /\ \A u \in Threads \ {t} : pc'[u] = pc[u]
  /\ UNCHANGED <<cur, req, answered, connection, conns>>

\* Such a step keeps the invariant if what is on the way is kept.
LEMMA WithinStep ==
  ASSUME ClientInv, WireInv, NEW t \in Threads, Within(t), \A c \in Conns : Keeps(c)
  PROVE  WireInv'
<1>1. \A u \in Threads : Stays(u)
  <2> SUFFICES ASSUME NEW u \in Threads PROVE Stays(u)
    BY Zenon
  <2>1. CallOK(u) /\ answered' = answered /\ req' = req /\ cur' = cur
    BY Zenon DEF WireInv, Within
  <2>2. CASE u = t
    <3>1. answered[t] = 0
      BY Zenon, <2>1, <2>2 DEF Within, CallOK, CallHeld
    <3> QED
      BY Zenon, <2>1, <2>2, <3>1 DEF Stays, Within
  <2>3. CASE u # t
    BY Zenon, <2>1, <2>3 DEF Stays, Within, CallOK
  <2> QED
    BY Zenon, <2>2, <2>3
<1>2. Creates
  BY Zenon, SameConns DEF Within
<1> QED
  BY Zenon, <1>1, <1>2, FrameStep

\* A step of somebody else
LEMMA OthersStep ==
  ASSUME ClientInv, WireInv, UNCHANGED <<pc, cur, req, answered, conns>>,
         connection' \in {connection, None}, \A c \in Conns : Keeps(c)
  PROVE  WireInv'
<1>1. \A u \in Threads : Stays(u)
  BY Zenon DEF WireInv, CallOK, Stays
<1> QED
  BY Zenon, <1>1, SameConns, FrameStep

\* Where a thread goes
LEMMA GotoPoint ==
  ASSUME ClientInv, NEW t \in Threads, NEW l, Goto(t, l)
  PROVE  pc'[t] = l /\ \A u \in Threads \ {t} : pc'[u] = pc[u]
  BY Zenon DEF Goto, ClientInv, TypeOK, ControlType

-----------------------------------------------------------------------------
(* The steps of connect(), the destructor and the interrupts               *)

\* Locations outside of a call
OutLocs == ConnectHeld \cup {"idle", "kLock", "kErase", "cLock"}

\* They are not those of a call.
LEMMA OutLocsFacts ==
  /\ \A l \in OutLocs : l \notin CallHeld \cup {"cNotify", "end"}
  /\ "end" \notin CallHeld
  BY Zenon DEF OutLocs, ConnectHeld, CallHeld

\* A thread goes on in connect(), or before a call, or returns.
LEMMA GoesOutside ==
  ASSUME ClientInv, WireInv, Creates, NEW t \in Threads, pc[t] \in OutLocs,
         UNCHANGED pc \/ \E l \in OutLocs \cup {"end"} : Goto(t, l),
         \A u \in Threads \ {t} : cur'[u] = cur[u], UNCHANGED <<req, answered, frameVars>>
  PROVE  WireInv'
<1>1. pc'[t] \notin CallHeld /\ \A u \in Threads \ {t} : pc'[u] = pc[u]
  <2>1. CASE UNCHANGED pc
    BY Zenon, <2>1, OutLocsFacts
  <2>2. CASE \E l \in OutLocs \cup {"end"} : Goto(t, l)
    BY Zenon, <2>2, OutLocsFacts, GotoPoint
  <2> QED
    BY Zenon, <2>1, <2>2
<1>2. Outside(t)
  BY Zenon, <1>1, OutLocsFacts DEF Outside
<1> QED
  BY Zenon, <1>2, OutsideStep

\* connect() does not touch the frames.
LEMMA ConnectWire ==
  ASSUME ClientInv, WireInv, NEW t \in Threads,
         ConnectStep(t) \/ ConnectBegin(t) \/ ConnectPoll(t) \/ ConnectAddrExpired(t) \/ ConnectExpired(t)
  PROVE  WireInv'
<1> USE DEF wireVars, callVars, frameVars, stateVars, connVars, ConnectReturn, OutLocs, ConnectHeld
<1>1. CASE ConnectLock(t)
  <2>1. pc[t] = "kLock" /\ (Goto(t, "kErase") \/ Goto(t, "kShut"))
        /\ UNCHANGED <<req, answered, frameVars>>
    BY Zenon, <1>1 DEF ConnectLock
  <2>2. \A u \in Threads \ {t} : cur'[u] = cur[u]
    BY Zenon, <1>1 DEF ConnectLock, ClientInv, TypeOK, LocalType
  <2>3. Creates
    BY Zenon, <1>1, SameConns DEF ConnectLock, SwapOut
  <2> QED
    BY Zenon, <2>1, <2>2, <2>3, GoesOutside
<1>2. CASE ConnectShut(t)
  <2>1. pc[t] = "kShut" /\ Goto(t, "kResolve") /\ UNCHANGED <<req, answered, frameVars>>
    BY Zenon, <1>2 DEF ConnectShut
  <2>2. \A u \in Threads \ {t} : cur'[u] = cur[u]
    BY Zenon, <1>2 DEF ConnectShut, ClientInv, TypeOK, LocalType
  <2>3. Creates
    BY Zenon, <1>2, SameConns DEF ConnectShut
  <2> QED
    BY Zenon, <2>1, <2>2, <2>3, GoesOutside
<1>3. CASE ConnectPublish(t)
  <2>1. pc[t] = "kSocket" /\ (Goto(t, "kErase") \/ Goto(t, "kCheck"))
        /\ UNCHANGED <<req, answered, frameVars>>
    BY Zenon, <1>3 DEF ConnectPublish
  <2>2. \A u \in Threads \ {t} : cur'[u] = cur[u]
    BY Zenon, <1>3 DEF ConnectPublish, ClientInv, TypeOK, LocalType
  <2>3. Creates
    <3>1. CASE UNCHANGED <<connection, conns>>
      BY Zenon, <3>1, SameConns
    <3>2. CASE connection' = conns + 1 /\ conns' = conns + 1
      BY <3>2 DEF Creates, ClientInv, TypeOK, ConnectionType, Conns
    <3> QED
      BY Zenon, <1>3, <3>1, <3>2 DEF ConnectPublish
  <2> QED
    BY Zenon, <2>1, <2>2, <2>3, GoesOutside
<1>4. CASE ConnectFail(t)
  <2>1. pc[t] = "kFail" /\ Goto(t, "kAfter") /\ UNCHANGED <<cur, req, answered, frameVars>>
    BY Zenon, <1>4 DEF ConnectFail
  <2>2. Creates
    BY Zenon, <1>4, SameConns DEF ConnectFail, Fail
  <2> QED
    BY Zenon, <2>1, <2>2, GoesOutside
<1> DEFINE Rest == UNCHANGED <<cur, req, answered, frameVars, connection, conns>>
<1>5. ASSUME Rest, pc[t] \in OutLocs, UNCHANGED pc \/ \E l \in OutLocs \cup {"end"} : Goto(t, l)
      PROVE  WireInv'
  <2>1. Creates
    BY Zenon, <1>5, SameConns
  <2> QED
    BY Zenon, <1>5, <2>1, GoesOutside
<1>6. CASE ConnectResolve(t) \/ ConnectAddr(t)
  <2>1. Rest /\ pc[t] \in OutLocs
    BY Zenon, <1>6 DEF ConnectResolve, ConnectAddr
  <2>2. Goto(t, "kErase") \/ Goto(t, "kAddr") \/ Goto(t, "kSocket")
    BY Zenon, <1>6 DEF ConnectResolve, ConnectAddr
  <2> QED
    BY Zenon, <1>5, <2>1, <2>2
<1>7. CASE ConnectNoSocket(t) \/ ConnectNoFcntl(t) \/ ConnectClose(t)
  <2>1. Rest /\ pc[t] \in OutLocs
    BY Zenon, <1>7 DEF ConnectNoSocket, ConnectNoFcntl, ConnectClose
  <2>2. Goto(t, "kErase") \/ Goto(t, "kAddr") \/ Goto(t, "kClose")
    BY Zenon, <1>7 DEF ConnectNoSocket, ConnectNoFcntl, ConnectClose, NextAddress
  <2> QED
    BY Zenon, <1>5, <2>1, <2>2
<1>8. CASE ConnectCheck(t) \/ ConnectSettle(t) \/ ConnectAfter(t)
  <2>1. Rest /\ pc[t] \in OutLocs
    BY Zenon, <1>8 DEF ConnectCheck, ConnectSettle, ConnectAfter
  <2>2. Goto(t, "kErase") \/ Goto(t, "kConnect")
    BY Zenon, <1>8 DEF ConnectCheck, ConnectSettle, ConnectAfter
  <2> QED
    BY Zenon, <1>5, <2>1, <2>2
<1>9. CASE ConnectSocket(t) \/ ConnectSoError(t) \/ ConnectErase(t)
  <2>1. Rest /\ pc[t] \in OutLocs
    BY Zenon, <1>9 DEF ConnectSocket, ConnectSoError, ConnectErase
  <2>2. Goto(t, "kSettle") \/ Goto(t, "kWait") \/ Goto(t, "kFail") \/ Goto(t, "end")
    BY Zenon, <1>9 DEF ConnectSocket, ConnectSoError, ConnectErase
  <2> QED
    BY Zenon, <1>5, <2>1, <2>2
<1>10. CASE ConnectWait(t) \/ ConnectExpired(t) \/ ConnectPoll(t) \/ ConnectAddrExpired(t)
  <2>1. Rest /\ pc[t] \in OutLocs
    BY Zenon, <1>10 DEF ConnectWait, ConnectExpired, ConnectPoll, ConnectAddrExpired
  <2>2. Goto(t, "kAfter") \/ Goto(t, "kFail") \/ Goto(t, "kSoError") \/ Goto(t, "kErase")
    BY Zenon, <1>10 DEF ConnectWait, ConnectExpired, ConnectPoll, ConnectAddrExpired,
                        WaitInterrupted, WaitExpired, WaitReady, WaitFails
  <2> QED
    BY Zenon, <1>5, <2>1, <2>2
<1>11. CASE ConnectBegin(t)
  <2>1. Rest /\ pc[t] \in OutLocs /\ (UNCHANGED pc \/ Goto(t, "kLock"))
    BY Zenon, <1>11 DEF ConnectBegin
  <2> QED
    BY Zenon, <1>5, <2>1
<1> QED
  BY Zenon, <1>1, <1>2, <1>3, <1>4, <1>6, <1>7, <1>8, <1>9, <1>10, <1>11 DEF ConnectStep

\* disconnect(), cancel() and the destructor do not touch the frames either.
LEMMA InterruptWire ==
  ASSUME ClientInv, WireInv,
         \/ \E reason \in Reasons : Interrupt(reason)
         \/ \E c \in Conns : Shutdown(c)
         \/ Destroy
  PROVE  WireInv'
<1> USE DEF wireVars, callVars, frameVars, stateVars, connVars
<1>1. ASSUME UNCHANGED <<pc, cur, req, answered, conns, frameVars>>, connection' \in {connection, None}
      PROVE  WireInv'
  BY Zenon, <1>1, SameFrames, OthersStep
<1>2. CASE \E reason \in Reasons : Interrupt(reason)
  BY Zenon, <1>1, <1>2 DEF Interrupt, InterruptSection, SwapOut
<1>3. CASE \E c \in Conns : Shutdown(c)
  BY Zenon, <1>1, <1>3 DEF Shutdown
<1>4. CASE DestroyInterrupt
  BY Zenon, <1>1, <1>4 DEF DestroyInterrupt, InterruptSection, SwapOut
<1>5. CASE DestroyMark \/ DestroyWait
  BY Zenon, <1>1, <1>5 DEF DestroyMark, DestroyWait
<1> QED
  BY Zenon, <1>2, <1>3, <1>4, <1>5 DEF Destroy

-----------------------------------------------------------------------------
(* The peer                                                                *)

\* A step that moves no frame of one connection
LEMMA SameAt ==
  ASSUME NEW c \in Conns, partial'[c] = partial[c], asked'[c] = asked[c], inbox'[c] = inbox[c],
         pending'[c] = pending[c]
  PROVE  Keeps(c)
  BY Zenon DEF Keeps, Quiet, Torn, Outstanding

\* A reply is that of the request that was outstanding.
LEMMA PeerReplyWire ==
  ASSUME ClientInv, WireInv, NEW c \in Conns, PeerReply(c)
  PROVE  WireInv'
<1>1. PICK kind \in Replies :
         inbox' = [inbox EXCEPT ![c] = Append(inbox[c], [kind |-> kind, id |-> Head(asked[c])])]
  BY Zenon DEF PeerReply
<1>2. asked[c] # <<>> /\ asked' = [asked EXCEPT ![c] = Tail(asked[c])]
      /\ UNCHANGED <<pc, cur, req, answered, conns, connection, partial, pending>>
  BY DEF PeerReply, stateVars, connVars, callVars
<1>3. inbox \in [Conns -> Seq(Frames)] /\ asked \in [Conns -> Seq(Nat)]
  BY Zenon DEF ClientInv, TypeOK, WireType
<1>4. ASSUME NEW i \in Nat, Outstanding(c, i) PROVE Outstanding(c, i)'
  <2>1. asked[c] = <<i>> /\ ~partial[c] /\ NoReply(inbox[c]) /\ NoReply(pending[c])
    BY Zenon, <1>2, <1>4 DEF Outstanding
  <2>2. Head(asked[c]) = i /\ Tail(asked[c]) = <<>>
    BY <2>1
  <2> DEFINE f == [kind |-> kind, id |-> i]
  <2>3. f \in Frames /\ f.id = i /\ f.kind # "Notification"
    BY DEF Frames, Replies
  <2>4. inbox'[c] = Append(inbox[c], f) /\ asked'[c] = <<>>
    BY Zenon, <1>1, <1>2, <1>3, <2>2
  <2> HIDE DEF f
  <2>5. inbox[c] \in Seq(Frames) /\ IsReply(f)
    BY Zenon, <1>3, <2>3 DEF IsReply
  <2>6. OnlyReply(Append(inbox[c], f), f.id)
    BY Zenon, <2>1, <2>3, <2>5, ReplyArrives
  <2>7. OnlyReply(inbox'[c], i)
    BY Zenon, <2>3, <2>4, <2>6
  <2> QED
    BY Zenon, <1>2, <2>1, <2>4, <2>7 DEF Outstanding
<1>5. Keeps(c)
  BY Zenon, <1>2, <1>4 DEF Keeps, Quiet, Torn
<1>6. ASSUME NEW d \in Conns, d # c PROVE Keeps(d)
  BY Zenon, <1>1, <1>2, <1>3, <1>6, SameAt
<1> QED
  BY ZenonT(30), <1>2, <1>5, <1>6, OthersStep

\* A notification is no reply.
LEMMA PeerNotifyWire ==
  ASSUME ClientInv, WireInv, NEW c \in Conns, PeerNotify(c)
  PROVE  WireInv'
<1> DEFINE f == [kind |-> "Notification", id |-> noted + 1]
<1>1. inbox' = [inbox EXCEPT ![c] = Append(inbox[c], f)]
      /\ UNCHANGED <<pc, cur, req, answered, conns, connection, partial, pending, asked>>
  BY Zenon DEF PeerNotify, stateVars, connVars, callVars
<1>2. inbox \in [Conns -> Seq(Frames)] /\ f \in Frames /\ ~IsReply(f)
  <2>1. inbox \in [Conns -> Seq(Frames)] /\ noted \in Nat
    BY Zenon DEF ClientInv, TypeOK, WireType, HistoryType
  <2>2. f \in Frames /\ f.kind = "Notification"
    BY <2>1 DEF Frames
  <2> QED
    BY Zenon, <2>1, <2>2 DEF IsReply
<1> HIDE DEF f
<1>3. inbox'[c] = Append(inbox[c], f) /\ inbox[c] \in Seq(Frames)
  BY Zenon, <1>1, <1>2
<1>4. /\ NoReply(inbox[c]) => NoReply(inbox'[c])
      /\ \A i \in Nat : OnlyReply(inbox[c], i) => OnlyReply(inbox'[c], i)
  BY Zenon, <1>2, <1>3, NotificationKeepsReplies
<1>5. Keeps(c)
  BY Zenon, <1>1, <1>4 DEF Keeps, Quiet, Torn, Outstanding
<1>6. ASSUME NEW d \in Conns, d # c PROVE Keeps(d)
  BY Zenon, <1>1, <1>2, <1>6, SameAt
<1> QED
  BY ZenonT(30), <1>1, <1>5, <1>6, OthersStep

\* What is lost with the connection may be a reply.
LEMMA PeerCloseWire ==
  ASSUME ClientInv, WireInv, NEW c \in Conns, PeerClose(c)
  PROVE  WireInv'
<1>1. PICK n \in 0..Len(inbox[c]) : inbox' = [inbox EXCEPT ![c] = SubSeq(inbox[c], 1, n)]
  BY Zenon DEF PeerClose
<1>2. asked' = [asked EXCEPT ![c] = <<>>]
      /\ UNCHANGED <<pc, cur, req, answered, conns, connection, partial, pending>>
  BY DEF PeerClose, stateVars, connVars, callVars
<1>3. inbox \in [Conns -> Seq(Frames)] /\ asked \in [Conns -> Seq(Nat)]
  BY Zenon DEF ClientInv, TypeOK, WireType
<1>4. inbox'[c] = SubSeq(inbox[c], 1, n) /\ asked'[c] = <<>> /\ inbox[c] \in Seq(Frames)
  BY Zenon, <1>1, <1>2, <1>3
<1>5. /\ NoReply(inbox[c]) => NoReply(inbox'[c])
      /\ \A i \in Nat : OnlyReply(inbox[c], i) => OnlyReply(inbox'[c], i) \/ NoReply(inbox'[c])
  BY Zenon, <1>4, SplitFrames
<1>6. Keeps(c)
  <2>1. (Quiet(c) => Quiet(c)') /\ (Torn(c) => Torn(c)')
    BY Zenon, <1>2, <1>4, <1>5 DEF Quiet, Torn
  <2>2. ASSUME NEW i \in Nat, Outstanding(c, i) PROVE Quiet(c)' \/ Outstanding(c, i)'
    BY Zenon, <1>2, <1>4, <1>5, <2>2 DEF Quiet, Outstanding
  <2> QED
    BY Zenon, <2>1, <2>2 DEF Keeps
<1>7. ASSUME NEW d \in Conns, d # c PROVE Keeps(d)
  BY Zenon, <1>1, <1>2, <1>3, <1>7, SameAt
<1> QED
  BY Zenon, <1>2, <1>6, <1>7, OthersStep

-----------------------------------------------------------------------------
(* The steps of call()                                                     *)

\* callMutex_: one call at a time
LEMMA OnlyCaller ==
  ASSUME ClientInv, NEW t \in Threads, NEW u \in Threads, pc[t] \in CallHeld, u # t
  PROVE  pc[u] \notin CallHeld
<1>1. callMutex = t
  BY Zenon DEF ClientInv, LocalsOK, LocalOK, Held
<1> QED
  BY Zenon, <1>1 DEF ClientInv, LocalsOK, LocalOK, Held

\* The connection of a call was created.
LEMMA CallersConnection ==
  ASSUME ClientInv, NEW t \in Threads, pc[t] \in CallHeld
  PROVE  cur[t] \in Conns /\ ~(cur[t] > conns)
<1>1. cur[t] \in Conns
  BY Zenon, CallHasConnection
<1>2. cur[t] <= conns
  BY Zenon, <1>1, NoneIsNoConn DEF ClientInv, UsersOK, UserOK
<1>3. cur[t] \in Nat /\ conns \in Nat
  BY <1>1 DEF Conns, ClientInv, TypeOK, ConnectionType
<1> QED
  BY <1>1, <1>2, <1>3

\* Before the call, and during the call, nothing but the call touches its connection c.
LEMMA CallerStep ==
  ASSUME ClientInv, WireInv, NEW t \in Threads, NEW c \in Conns, ~(c > conns),
         conns' = conns, connection' \in {connection, None},
         \A u \in Threads \ {t} : /\ pc[u] \notin CallHeld
                                  /\ pc'[u] = pc[u] /\ req'[u] = req[u] /\ answered'[u] = answered[u],
         pc[t] \in CallHeld => cur[t] = c, pc'[t] \in CallHeld => cur'[t] = c, CallOK(t)',
         \A d \in Conns : d # c => Keeps(d),
         Quiet(c)' \/ Torn(c)' \/ \E i \in Nat : Outstanding(c, i)',
         connection' = c /\ pc'[t] \notin CallHeld => Quiet(c)'
  PROVE  WireInv'
<1>1. TrafficOK(c)'
  BY Zenon DEF TrafficOK, InCall
<1>2. ASSUME NEW d \in Conns, d # c PROVE TrafficOK(d)'
  <2>1. Keeps(d) /\ TrafficOK(d)
    BY Zenon, <1>2 DEF WireInv
  <2>2. Quiet(d)' \/ Torn(d)' \/ \E i \in Nat : Outstanding(d, i)'
    BY Zenon, <2>1 DEF TrafficOK, Keeps
  <2>3. d > conns' => Quiet(d)'
    BY Zenon, <2>1 DEF TrafficOK, Keeps
  <2>4. d = connection' => Quiet(d)'
    <3>1. d = connection' => d = connection
      BY Zenon, NoneIsNoConn
    <3>2. \A u \in Threads : ~InCall(u, d)
      BY Zenon, <1>2 DEF InCall
    <3> QED
      BY Zenon, <2>1, <3>1, <3>2 DEF TrafficOK, Keeps
  <2> QED
    BY Zenon, <2>2, <2>3, <2>4 DEF TrafficOK
<1>3. ASSUME NEW u \in Threads, u # t PROVE CallOK(u)'
  <2>1. CallOK(u) /\ pc'[u] \notin CallHeld /\ pc'[u] = pc[u] /\ req'[u] = req[u] /\ answered'[u] = answered[u]
    BY Zenon, <1>3 DEF WireInv
  <2> QED
    BY Zenon, <2>1 DEF CallOK, CallHeld
<1> QED
  BY Zenon, <1>1, <1>2, <1>3 DEF WireInv

\* A call begins on a quiet connection.
LEMMA CallLockWire ==
  ASSUME ClientInv, WireInv, NEW t \in Threads, CallLock(t)
  PROVE  WireInv'
<1>1. /\ pc[t] = "cLock" /\ callMutex = None
      /\ UNCHANGED <<connection, conns, req, answered, frameVars>>
  BY Zenon DEF CallLock, stateVars, connVars, callVars, wireVars, frameVars
<1>2. CASE Goto(t, "end") /\ UNCHANGED cur
  <2>1. pc[t] \in OutLocs
    BY Zenon, <1>1 DEF OutLocs
  <2>2. Creates
    BY Zenon, <1>1, SameConns
  <2> QED
    BY Zenon, <1>1, <1>2, <2>1, <2>2, GoesOutside
<1>3. CASE Usable /\ cur' = [cur EXCEPT ![t] = connection] /\ Goto(t, "cWrite")
  <2>1. PICK c \in Conns : c = connection
    BY Zenon, <1>3 DEF Usable, ClientInv, TypeOK, ObjectType
  <2>2. \A u \in Threads : pc[u] \notin CallHeld
    BY Zenon, <1>1, ClientAssumption DEF ClientInv, LocalsOK, LocalOK, Held
  <2>3. Quiet(c)
    BY Zenon, <2>1, <2>2 DEF WireInv, TrafficOK, InCall
  <2>4. \A d \in Conns : Keeps(d)
    BY Zenon, <1>1, SameFrames
  <2>5. Quiet(c)'
    BY Zenon, <2>3, <2>4 DEF Keeps
  <2>6. pc'[t] = "cWrite" /\ cur'[t] = c /\ \A u \in Threads \ {t} : pc'[u] = pc[u]
    BY Zenon, <1>3, <2>1, GotoPoint DEF ClientInv, TypeOK, LocalType
  <2>7. answered[t] = 0
    BY Zenon, <1>1 DEF WireInv, CallOK
  <2>8. CallOK(t)'
    BY Zenon, <1>1, <2>5, <2>6, <2>7 DEF CallOK, Quiet
  <2>9. ~(c > conns)
    <3>1. c <= conns /\ c \in Nat /\ conns \in Nat
      BY <2>1, NoneIsNoConn DEF ClientInv, ConnectionsOK, Conns, TypeOK, ConnectionType
    <3> QED
      BY <3>1
  <2>10. pc'[t] \in CallHeld /\ connection' = connection
    BY Zenon, <1>1, <2>6 DEF CallHeld
  <2> QED
    BY Zenon, <1>1, <2>2, <2>4, <2>5, <2>6, <2>8, <2>9, <2>10, CallerStep
<1> QED
  BY Zenon, <1>2, <1>3 DEF CallLock

\* A call waits, or gives up and goes on to fail().
LEMMA CallWaits ==
  ASSUME ClientInv, WireInv, NEW t \in Threads,
         CallExpired(t) \/ CallPollFails(t) \/ CallWritable(t) \/ CallReadable(t) \/ SendFails(t) \/ RecvFails(t)
  PROVE  WireInv'
<1> USE DEF stateVars, connVars, callVars, wireVars, frameVars
<1>1. UNCHANGED <<connection, conns, cur, req, answered, frameVars>>
  BY Zenon DEF CallExpired, CallPollFails, CallWritable, CallReadable, SendFails, RecvFails
<1>2. pc[t] \in CallHeld /\ (\/ Goto(t, "cFail")
                             \/ pc[t] = "cWrite" /\ Goto(t, "cSend")
                             \/ pc[t] = "cRead" /\ Goto(t, "cRecv"))
  BY Zenon DEF CallExpired, CallPollFails, CallWritable, CallReadable, SendFails, RecvFails,
               Waiting, WaitExpired, WaitFails, WaitReady, CallHeld
<1>3. Within(t)
  <2>1. CASE Goto(t, "cFail")
    <3>1. pc'[t] = "cFail" /\ \A u \in Threads \ {t} : pc'[u] = pc[u]
      BY Zenon, <2>1, GotoPoint
    <3> QED
      BY Zenon, <1>1, <1>2, <3>1 DEF Within, CallHeld
  <2>2. CASE pc[t] = "cWrite" /\ Goto(t, "cSend")
    <3>1. pc'[t] = "cSend" /\ \A u \in Threads \ {t} : pc'[u] = pc[u]
      BY Zenon, <2>2, GotoPoint
    <3> QED
      BY Zenon, <1>1, <2>2, <3>1 DEF Within, CallHeld
  <2>3. CASE pc[t] = "cRead" /\ Goto(t, "cRecv")
    <3>1. pc'[t] = "cRecv" /\ \A u \in Threads \ {t} : pc'[u] = pc[u]
      BY Zenon, <2>3, GotoPoint
    <3> QED
      BY Zenon, <1>1, <2>3, <3>1 DEF Within, CallHeld
  <2> QED
    BY Zenon, <1>2, <2>1, <2>2, <2>3
<1> QED
  BY Zenon, <1>1, <1>3, SameFrames, WithinStep

\* recv() moves frames, and with them perhaps the reply, to Connection::pending.
LEMMA RecvWire ==
  ASSUME ClientInv, WireInv, NEW t \in Threads, Recv(t)
  PROVE  WireInv'
<1>1. pc[t] = "cRecv" /\ Goto(t, "cRead")
      /\ UNCHANGED <<connection, conns, cur, req, answered, partial, asked>>
  BY Zenon DEF Recv, stateVars, connVars, callVars
<1>2. PICK c \in Conns : c = cur[t]
  BY Zenon, <1>1, CallHasConnection DEF CallHeld
<1>3. PICK n \in 1..Len(inbox[c]) :
        /\ pending' = [pending EXCEPT ![c] = pending[c] \o SubSeq(inbox[c], 1, n)]
        /\ inbox' = [inbox EXCEPT ![c] = SubSeq(inbox[c], n + 1, Len(inbox[c]))]
  BY Zenon, <1>2 DEF Recv
<1>4. /\ inbox \in [Conns -> Seq(Frames)] /\ pending \in [Conns -> Seq(Frames)]
      /\ asked \in [Conns -> Seq(Nat)]
  BY Zenon DEF ClientInv, TypeOK, WireType
<1>5. Within(t)
  <2>1. pc'[t] = "cRead" /\ \A u \in Threads \ {t} : pc'[u] = pc[u]
    BY Zenon, <1>1, GotoPoint
  <2> QED
    BY Zenon, <1>1, <2>1 DEF Within, CallHeld
<1>6. ASSUME NEW d \in Conns, d # c PROVE Keeps(d)
  BY Zenon, <1>1, <1>3, <1>4, <1>6, SameAt
<1>7. Keeps(c)
  <2> DEFINE p == SubSeq(inbox[c], 1, n)
             r == SubSeq(inbox[c], n + 1, Len(inbox[c]))
  <2>1. inbox[c] \in Seq(Frames) /\ pending[c] \in Seq(Frames) /\ n \in 0..Len(inbox[c])
    BY <1>4
  <2>2. p \in Seq(Frames)
    BY <2>1
  <2>3. /\ NoReply(inbox[c]) => NoReply(p) /\ NoReply(r)
        /\ \A i \in Nat : OnlyReply(inbox[c], i) =>
             (OnlyReply(p, i) /\ NoReply(r)) \/ (NoReply(p) /\ OnlyReply(r, i))
    BY Zenon, <2>1, SplitFrames
  <2>4. pending'[c] = pending[c] \o p /\ inbox'[c] = r
    BY Zenon, <1>3, <1>4
  <2> HIDE DEF p, r
  <2>5. /\ NoReply(pending[c]) /\ NoReply(p) => NoReply(pending'[c])
        /\ \A i \in Nat : (OnlyReply(pending[c], i) /\ NoReply(p)) \/ (NoReply(pending[c]) /\ OnlyReply(p, i))
             => OnlyReply(pending'[c], i)
    BY Zenon, <2>1, <2>2, <2>4, JoinFrames
  <2>6. (Quiet(c) => Quiet(c)') /\ (Torn(c) => Torn(c)')
    BY Zenon, <1>1, <2>3, <2>4, <2>5 DEF Quiet, Torn
  <2>7. ASSUME NEW i \in Nat, Outstanding(c, i) PROVE Outstanding(c, i)'
    <3>1. ~partial'[c] /\ asked'[c] = asked[c]
      BY Zenon, <1>1, <2>7 DEF Outstanding
    <3>2. CASE asked[c] = <<i>> /\ NoReply(inbox[c]) /\ NoReply(pending[c])
      BY Zenon, <2>3, <2>4, <2>5, <3>1, <3>2 DEF Outstanding
    <3>3. CASE asked[c] = <<>> /\ OnlyReply(inbox[c], i) /\ NoReply(pending[c])
      BY Zenon, <2>3, <2>4, <2>5, <3>1, <3>3 DEF Outstanding
    <3>4. CASE asked[c] = <<>> /\ NoReply(inbox[c]) /\ OnlyReply(pending[c], i)
      BY Zenon, <2>3, <2>4, <2>5, <3>1, <3>4 DEF Outstanding
    <3> QED
      BY Zenon, <2>7, <3>2, <3>3, <3>4 DEF Outstanding
  <2> QED
    BY Zenon, <2>6, <2>7 DEF Keeps
<1> QED
  BY Zenon, <1>5, <1>6, <1>7, WithinStep

\* The frame that a call takes, and what is left
LEMMA TakenOfCall ==
  ASSUME ClientInv, WireInv, NEW t \in Threads, Take(t), NEW c \in Conns, c = cur[t]
  PROVE  /\ pending'[c] = Tail(pending[c])
         /\ UNCHANGED <<connection, conns, cur, req, partial, asked, inbox>>
         /\ \A d \in Conns : d # c => Keeps(d)
         /\ NoReply(pending[c]) => ~IsReply(Head(pending[c])) /\ NoReply(Tail(pending[c]))
         /\ \A i \in Nat : OnlyReply(pending[c], i) =>
              IF IsReply(Head(pending[c])) THEN Head(pending[c]).id = i /\ NoReply(Tail(pending[c]))
                                           ELSE OnlyReply(Tail(pending[c]), i)
<1>1. /\ UNCHANGED <<connection, conns, cur, req, partial, asked, inbox>>
      /\ pending' = [pending EXCEPT ![c] = Tail(pending[c])] /\ pending[c] # <<>>
  BY Zenon DEF Take, stateVars, connVars
<1>2. pending \in [Conns -> Seq(Frames)]
  BY Zenon DEF ClientInv, TypeOK, WireType
<1>3. ASSUME NEW d \in Conns, d # c PROVE Keeps(d)
  BY Zenon, <1>1, <1>2, <1>3, SameAt
<1>4. pending[c] \in Seq(Frames) /\ pending'[c] = Tail(pending[c])
  BY Zenon, <1>1, <1>2
<1> QED
  BY Zenon, <1>1, <1>3, <1>4, TakenFrame

\* A notification is taken: the reply stays where it is.
LEMMA TakeNotificationWire ==
  ASSUME ClientInv, WireInv, NEW t \in Threads, TakeNotification(t)
  PROVE  WireInv'
<1>1. Take(t) /\ pc[t] = "cRead" /\ UNCHANGED <<pc, answered>>
  BY Zenon DEF TakeNotification, Take
<1>2. PICK c \in Conns : c = cur[t]
  BY Zenon, <1>1, CallHasConnection DEF CallHeld
<1>3. ~IsReply(Head(pending[c]))
  BY Zenon, <1>2 DEF TakeNotification, IsReply
<1>4. /\ pending'[c] = Tail(pending[c])
      /\ UNCHANGED <<connection, conns, cur, req, partial, asked, inbox>>
      /\ \A d \in Conns : d # c => Keeps(d)
      /\ NoReply(pending[c]) => NoReply(Tail(pending[c]))
      /\ \A i \in Nat : OnlyReply(pending[c], i) => OnlyReply(Tail(pending[c]), i)
  BY Zenon, <1>1, <1>2, <1>3, TakenOfCall
<1>5. Within(t)
  BY Zenon, <1>1, <1>4 DEF Within, CallHeld
<1>6. Keeps(c)
  BY Zenon, <1>4 DEF Keeps, Quiet, Torn, Outstanding
<1> QED
  BY Zenon, <1>4, <1>5, <1>6, WithinStep

\* The reply is taken: it is that of the call, and nothing is left behind.
LEMMA ReplyOfCall ==
  ASSUME ClientInv, WireInv, NEW t \in Threads, Take(t), IsReply(Head(pending[cur[t]])),
         NEW c \in Conns, c = cur[t]
  PROVE  Head(pending[c]).id = req[t] /\ Quiet(c)'
<1>1. pc[t] = "cRead" /\ req[t] \in Nat
  BY Zenon DEF Take, ClientInv, TypeOK, LocalType
<1>2. /\ pending'[c] = Tail(pending[c]) /\ UNCHANGED <<partial, asked, inbox>>
      /\ ~NoReply(pending[c])
      /\ OnlyReply(pending[c], req[t]) => Head(pending[c]).id = req[t] /\ NoReply(Tail(pending[c]))
  BY Zenon, <1>1, TakenOfCall
<1>3. Quiet(c) \/ Outstanding(c, req[t])
  BY Zenon, <1>1 DEF WireInv, CallOK
<1>4. OnlyReply(pending[c], req[t]) /\ asked[c] = <<>> /\ ~partial[c] /\ NoReply(inbox[c])
  BY Zenon, <1>2, <1>3 DEF Quiet, Outstanding
<1> QED
  BY Zenon, <1>2, <1>4 DEF Quiet

\* A call that has the answer leaves the connection quiet.
LEMMA TakeReplyWire ==
  ASSUME ClientInv, WireInv, NEW t \in Threads, TakeReply(t)
  PROVE  WireInv'
<1>1. Take(t) /\ pc[t] = "cRead" /\ pc[t] \in CallHeld /\ Goto(t, "cNotify")
  BY Zenon DEF TakeReply, Take, CallHeld
<1>2. PICK c \in Conns : c = cur[t] /\ ~(c > conns)
  BY Zenon, <1>1, CallersConnection
<1>3. IsReply(Head(pending[c])) /\ answered' = [answered EXCEPT ![t] = Head(pending[c]).id]
  BY Zenon, <1>2 DEF TakeReply, IsReply
<1>4. Head(pending[c]).id = req[t] /\ Quiet(c)'
  BY Zenon, <1>1, <1>2, <1>3, ReplyOfCall
<1>5. UNCHANGED <<connection, conns, cur, req>> /\ \A d \in Conns : d # c => Keeps(d)
  BY Zenon, <1>1, <1>2, TakenOfCall
<1>6. pc'[t] = "cNotify" /\ \A u \in Threads \ {t} : pc'[u] = pc[u]
  BY Zenon, <1>1, GotoPoint
<1>7. answered'[t] = req[t] /\ \A u \in Threads \ {t} : answered'[u] = answered[u]
  BY Zenon, <1>3, <1>4 DEF ClientInv, TypeOK, LocalType
<1>8. \A u \in Threads \ {t} : pc[u] \notin CallHeld
  BY Zenon, <1>1, OnlyCaller
<1>9. CallOK(t)' /\ pc'[t] \notin CallHeld
  BY Zenon, <1>5, <1>6, <1>7 DEF CallOK, CallHeld
<1> QED
  BY Zenon, <1>2, <1>4, <1>5, <1>6, <1>7, <1>8, <1>9, CallerStep

\* A malformed reply is on no connection any more.
LEMMA TakeBadWire ==
  ASSUME ClientInv, WireInv, NEW t \in Threads, TakeBad(t)
  PROVE  WireInv'
<1>1. Take(t) /\ pc[t] = "cRead" /\ pc[t] \in CallHeld /\ Goto(t, "cFail") /\ UNCHANGED answered
  BY Zenon DEF TakeBad, Take, CallHeld
<1>2. PICK c \in Conns : c = cur[t] /\ ~(c > conns)
  BY Zenon, <1>1, CallersConnection
<1>3. IsReply(Head(pending[c]))
  BY Zenon, <1>2 DEF TakeBad, IsReply
<1>4. Quiet(c)'
  BY Zenon, <1>1, <1>2, <1>3, ReplyOfCall
<1>5. UNCHANGED <<connection, conns, cur, req>> /\ \A d \in Conns : d # c => Keeps(d)
  BY Zenon, <1>1, <1>2, TakenOfCall
<1>6. pc'[t] = "cFail" /\ \A u \in Threads \ {t} : pc'[u] = pc[u]
  BY Zenon, <1>1, GotoPoint
<1>7. answered[t] = 0
  BY Zenon, <1>1 DEF WireInv, CallOK
<1>8. \A u \in Threads \ {t} : pc[u] \notin CallHeld
  BY Zenon, <1>1, OnlyCaller
<1>9. CallOK(t)' /\ cur'[t] = c
  BY Zenon, <1>1, <1>2, <1>5, <1>6, <1>7 DEF CallOK
<1> QED
  BY Zenon, <1>1, <1>2, <1>4, <1>5, <1>6, <1>8, <1>9, CallerStep

\* A call that gives up does so on a connection that is not, or no longer, published.
LEMMA GivesUpWire ==
  ASSUME ClientInv, WireInv, NEW t \in Threads, pc[t] \in CallHeld, Goto(t, "cNotify"),
         UNCHANGED <<conns, cur, req, answered, frameVars>>, connection' \in {connection, None},
         connection' # cur[t]
  PROVE  WireInv'
<1>1. PICK c \in Conns : c = cur[t] /\ ~(c > conns)
  BY Zenon, CallersConnection
<1>2. \A d \in Conns : Keeps(d)
  BY Zenon, SameFrames
<1>3. Quiet(c)' \/ Torn(c)' \/ \E i \in Nat : Outstanding(c, i)'
  BY Zenon, <1>2 DEF WireInv, TrafficOK, Keeps
<1>4. pc'[t] = "cNotify" /\ \A u \in Threads \ {t} : pc'[u] = pc[u]
  BY Zenon, GotoPoint
<1>5. answered[t] = 0
  BY Zenon DEF WireInv, CallOK, CallHeld
<1>6. \A u \in Threads \ {t} : pc[u] \notin CallHeld
  BY Zenon, OnlyCaller
<1>7. CallOK(t)' /\ pc'[t] \notin CallHeld
  BY Zenon, <1>4, <1>5 DEF CallOK, CallHeld
<1>8. \A u \in Threads \ {t} : req'[u] = req[u] /\ answered'[u] = answered[u]
  BY Zenon
<1> QED
  BY Zenon, <1>1, <1>2, <1>3, <1>4, <1>6, <1>7, <1>8, CallerStep

\* fail() unpublishes the connection, and an interrupted one is not published any more.
LEMMA CallGivesUp ==
  ASSUME ClientInv, WireInv, NEW t \in Threads, CallFail(t) \/ CallWait(t)
  PROVE  WireInv'
<1> USE DEF stateVars, connVars, callVars, wireVars, frameVars
<1>1. CASE CallFail(t)
  <2>1. pc[t] \in CallHeld /\ Goto(t, "cNotify") /\ UNCHANGED <<conns, cur, req, answered, frameVars>>
    BY Zenon, <1>1 DEF CallFail, CallHeld
  <2>2. cur[t] \in Conns
    BY Zenon, <2>1, CallHasConnection
  <2>3. connection' \in {connection, None} /\ connection' # cur[t]
    BY Zenon, <1>1, <2>2, NoneIsNoConn DEF CallFail, Fail
  <2> QED
    BY Zenon, <2>1, <2>3, GivesUpWire
<1>2. CASE CallWait(t)
  <2>1. pc[t] \in CallHeld /\ Goto(t, "cNotify")
        /\ UNCHANGED <<connection, conns, cur, req, answered, frameVars>>
    BY Zenon, <1>2 DEF CallWait, Waiting, WaitInterrupted, CallHeld
  <2>2. cur[t] \in Conns /\ cIntr[cur[t]] # "none"
    BY Zenon, <1>2, <2>1, CallHasConnection DEF CallWait, WaitInterrupted
  <2>3. connection # cur[t]
    BY Zenon, <2>2, NoneIsNoConn DEF ClientInv, PublishedIsCurrent
  <2> QED
    BY Zenon, <2>1, <2>3, GivesUpWire
<1> QED
  BY Zenon, <1>1, <1>2

\* A part of the request is sent: it is torn until the rest follows.
LEMMA SendPartWire ==
  ASSUME ClientInv, WireInv, NEW t \in Threads, SendPart(t)
  PROVE  WireInv'
<1>1. pc[t] = "cSend" /\ pc[t] \in CallHeld /\ Goto(t, "cWrite")
      /\ UNCHANGED <<connection, conns, cur, req, answered, asked, inbox, pending>>
  BY Zenon DEF SendPart, stateVars, connVars, callVars, CallHeld
<1>2. PICK c \in Conns : c = cur[t] /\ ~(c > conns)
  BY Zenon, <1>1, CallersConnection
<1>3. partial \in [Conns -> BOOLEAN]
  BY Zenon DEF ClientInv, TypeOK, WireType
<1>4. partial'[c] \in {TRUE, partial[c]} /\ \A d \in Conns : d # c => partial'[d] = partial[d]
  BY Zenon, <1>2, <1>3 DEF SendPart
<1>5. \A d \in Conns : d # c => Keeps(d)
  BY Zenon, <1>1, <1>4, SameAt
<1>6. Quiet(c) \/ Torn(c)
  BY Zenon, <1>1, <1>2 DEF WireInv, CallOK
<1>7. Quiet(c)' \/ Torn(c)'
  BY Zenon, <1>1, <1>3, <1>4, <1>6 DEF Quiet, Torn
<1>8. pc'[t] = "cWrite" /\ cur'[t] = c /\ \A u \in Threads \ {t} : pc'[u] = pc[u]
  BY Zenon, <1>1, <1>2, GotoPoint
<1>9. pc'[t] \in CallHeld /\ answered[t] = 0
  BY Zenon, <1>1, <1>8 DEF CallHeld, WireInv, CallOK
<1>10. CallOK(t)'
  BY Zenon, <1>1, <1>7, <1>8, <1>9 DEF CallOK, Quiet, Torn
<1>11. \A u \in Threads \ {t} : pc[u] \notin CallHeld
  BY Zenon, <1>1, OnlyCaller
<1> QED
  BY Zenon, <1>1, <1>2, <1>5, <1>7, <1>8, <1>9, <1>10, <1>11, CallerStep

\* The rest is sent: the request is the one that is outstanding.
LEMMA SendRestWire ==
  ASSUME ClientInv, WireInv, NEW t \in Threads, SendRest(t)
  PROVE  WireInv'
<1>1. pc[t] = "cSend" /\ pc[t] \in CallHeld /\ Goto(t, "cRead")
      /\ UNCHANGED <<connection, conns, cur, answered, inbox, pending>>
  BY Zenon DEF SendRest, stateVars, connVars, CallHeld
<1>2. PICK c \in Conns : c = cur[t] /\ ~(c > conns)
  BY Zenon, <1>1, CallersConnection
<1>3. /\ partial \in [Conns -> BOOLEAN] /\ asked \in [Conns -> Seq(Nat)]
      /\ req \in [Threads -> Nat] /\ sent \in Nat
  BY Zenon DEF ClientInv, TypeOK, WireType, LocalType, HistoryType
<1>4. PICK i \in Nat : i = sent + 1
  BY <1>3
<1>5. /\ req' = [req EXCEPT ![t] = i] /\ partial' = [partial EXCEPT ![c] = FALSE]
      /\ asked' = asked \/ asked' = [asked EXCEPT ![c] = Append(asked[c], i)]
  BY Zenon, <1>2, <1>4 DEF SendRest
<1>6. req'[t] = i /\ ~partial'[c] /\ \A u \in Threads \ {t} : req'[u] = req[u]
  BY Zenon, <1>3, <1>5
<1>7. \A d \in Conns : d # c => asked'[d] = asked[d] /\ partial'[d] = partial[d]
  BY Zenon, <1>3, <1>5
<1>8. \A d \in Conns : d # c => Keeps(d)
  BY Zenon, <1>1, <1>7, SameAt
<1>9. Quiet(c) \/ Torn(c)
  BY Zenon, <1>1, <1>2 DEF WireInv, CallOK
<1>10. asked[c] = <<>> /\ NoReply(inbox'[c]) /\ NoReply(pending'[c])
  BY Zenon, <1>1, <1>9 DEF Quiet, Torn
<1>11. asked'[c] = <<>> \/ asked'[c] = <<i>>
  <2>1. Append(<<>>, i) = <<i>>
    OBVIOUS
  <2> QED
    BY Zenon, <1>3, <1>5, <1>10, <2>1
<1>12. Quiet(c)' \/ Outstanding(c, i)'
  BY Zenon, <1>6, <1>10, <1>11 DEF Quiet, Outstanding
<1>13. pc'[t] = "cRead" /\ cur'[t] = c /\ \A u \in Threads \ {t} : pc'[u] = pc[u]
  BY Zenon, <1>1, <1>2, GotoPoint
<1>14. pc'[t] \in CallHeld /\ answered[t] = 0
  BY Zenon, <1>1, <1>13 DEF CallHeld, WireInv, CallOK
<1>15. CallOK(t)'
  BY Zenon, <1>1, <1>6, <1>12, <1>13, <1>14 DEF CallOK, Quiet, Outstanding
<1>16. \A u \in Threads \ {t} : pc[u] \notin CallHeld
  BY Zenon, <1>1, OnlyCaller
<1>17. \A u \in Threads \ {t} : answered'[u] = answered[u]
  BY Zenon, <1>1
<1> QED
  BY Zenon, <1>1, <1>2, <1>6, <1>8, <1>12, <1>13, <1>14, <1>15, <1>16, <1>17, CallerStep

\* A call begins, delivers its notifications, and returns.
LEMMA CallEdges ==
  ASSUME ClientInv, WireInv, NEW t \in Threads,
         CallBegin(t) \/ CallNotify(t) \/ CallSink(t) \/ End(t)
  PROVE  WireInv'
<1> USE DEF stateVars, connVars, callVars, wireVars, frameVars
<1>1. CASE CallBegin(t)
  <2>1. pc[t] \in OutLocs /\ (UNCHANGED pc \/ Goto(t, "cLock") \/ Goto(t, "end"))
        /\ UNCHANGED <<connection, conns, cur, req, answered, frameVars>>
    BY Zenon, <1>1 DEF CallBegin, OutLocs
  <2>2. Creates
    BY Zenon, <2>1, SameConns
  <2>3. "cLock" \in OutLocs
    BY Zenon DEF OutLocs
  <2> QED
    BY Zenon, <2>1, <2>2, <2>3, GoesOutside
<1>2. CASE CallNotify(t)
  <2>1. UNCHANGED <<pc, cur, req, answered, conns, connection, frameVars>>
    BY Zenon, <1>2 DEF CallNotify
  <2> QED
    BY Zenon, <2>1, SameFrames, OthersStep
<1>3. CASE CallSink(t) \/ End(t)
  <2>1. PICK l \in {"end", "idle"} : Goto(t, l) /\ (l = "end" => UNCHANGED answered)
    BY Zenon, <1>3 DEF CallSink, End
  <2>2. /\ pc[t] \notin CallHeld /\ UNCHANGED <<connection, conns, frameVars>>
        /\ UNCHANGED <<req, answered>> \/ (/\ req' = [req EXCEPT ![t] = 0]
                                           /\ answered' = [answered EXCEPT ![t] = 0])
    BY Zenon, <1>3 DEF CallSink, End, CallHeld
  <2>3. \A u \in Threads \ {t} : cur'[u] = cur[u]
    BY Zenon, <1>3 DEF CallSink, End, ClientInv, TypeOK, LocalType
  <2>4. pc'[t] = l /\ l \notin CallHeld /\ \A u \in Threads \ {t} : pc'[u] = pc[u]
    BY Zenon, <2>1, GotoPoint DEF CallHeld
  <2>5. /\ \A u \in Threads \ {t} : req'[u] = req[u] /\ answered'[u] = answered[u]
        /\ answered'[t] = 0 \/ (answered'[t] = answered[t] /\ req'[t] = req[t])
    BY Zenon, <2>2 DEF ClientInv, TypeOK, LocalType
  <2>6. l = "idle" => answered'[t] = 0
    BY Zenon, <1>3, <2>4 DEF CallSink, End, ClientInv, TypeOK, LocalType, ControlType, Goto
  <2>7. Stays(t)
    BY Zenon, <2>1, <2>2, <2>4, <2>5, <2>6 DEF Stays
  <2>8. ASSUME NEW u \in Threads, u # t PROVE Stays(u)
    <3>1. /\ CallOK(u) /\ pc'[u] = pc[u] /\ cur'[u] = cur[u] /\ req'[u] = req[u]
          /\ answered'[u] = answered[u]
      BY Zenon, <2>3, <2>4, <2>5, <2>8 DEF WireInv
    <3> QED
      BY Zenon, <3>1 DEF Stays, CallOK
  <2>9. Creates /\ \A c \in Conns : Keeps(c)
    BY Zenon, <2>2, SameConns, SameFrames
  <2> QED
    BY Zenon, <2>7, <2>8, <2>9, FrameStep
<1> QED
  BY Zenon, <1>1, <1>2, <1>3

-----------------------------------------------------------------------------
(* The reply is the call's own                                             *)

\* At the start nothing is on its way.
LEMMA InitWireInv == Init => WireInv
<1> SUFFICES ASSUME Init PROVE WireInv
  BY Zenon
<1>1. NoReply(<<>>)
  BY DEF NoReply
<1>2. ASSUME NEW c \in Conns PROVE TrafficOK(c)
  BY Zenon, <1>1 DEF Init, TrafficOK, Quiet
<1>3. ASSUME NEW t \in Threads PROVE CallOK(t)
  BY Zenon DEF Init, CallOK
<1> QED
  BY Zenon, <1>2, <1>3 DEF WireInv

\* Every step keeps what is on its way in order.
LEMMA NextWireInv == ClientInv /\ WireInv /\ [Next]_vars => WireInv'
<1> SUFFICES ASSUME ClientInv, WireInv, [Next]_vars PROVE WireInv'
  BY Zenon
<1>1. ASSUME NEW t \in Threads, Run(t) \/ Environment(t) PROVE WireInv'
  <2>1. CASE ConnectStep(t) \/ ConnectBegin(t) \/ ConnectPoll(t) \/ ConnectAddrExpired(t) \/ ConnectExpired(t)
    BY Zenon, <2>1, ConnectWire
  <2>2. CASE CallStep(t)
    BY Zenon, <2>2, CallLockWire, CallWaits, RecvWire, TakeNotificationWire, TakeReplyWire,
       TakeBadWire, CallGivesUp, SendPartWire, SendRestWire, CallEdges DEF CallStep
  <2>3. CASE CallBegin(t) \/ End(t)
    BY Zenon, <2>3, CallEdges
  <2>4. CASE CallExpired(t) \/ CallPollFails(t) \/ CallWritable(t)
    BY Zenon, <2>4, CallWaits
  <2> QED
    BY Zenon, <1>1, <2>1, <2>2, <2>3, <2>4 DEF Run, Environment, Expire
<1>2. ASSUME NEW c \in Conns, Peer(c) PROVE WireInv'
  BY Zenon, <1>2, PeerReplyWire, PeerNotifyWire, PeerCloseWire DEF Peer
<1>3. CASE (\E c \in Conns : Shutdown(c)) \/ (\E reason \in Reasons : Interrupt(reason)) \/ Destroy
  BY Zenon, <1>3, InterruptWire
<1>4. CASE UNCHANGED vars
  <2>1. UNCHANGED <<pc, cur, req, answered, conns, connection, frameVars>>
    BY Zenon, <1>4 DEF vars, stateVars, connVars, callVars, wireVars, frameVars
  <2> QED
    BY Zenon, <2>1, SameFrames, OthersStep
<1> QED
  BY Zenon, <1>1, <1>2, <1>3, <1>4 DEF Next

\* The frames that are replies, wherever they are: none, or one
LEMMA UnansweredFacts ==
  ASSUME ClientInv, NEW c \in Conns
  PROVE  /\ NoReply(inbox[c]) /\ NoReply(pending[c]) => Unanswered(c) = {}
         /\ \A i \in Nat : Outstanding(c, i) /\ asked[c] = <<>> => \E k : Unanswered(c) = {k}
<1> DEFINE q == inbox[c] \o pending[c]
<1>1. inbox[c] \in Seq(Frames) /\ pending[c] \in Seq(Frames)
  BY Zenon DEF ClientInv, TypeOK, WireType
<1>2. /\ NoReply(inbox[c]) /\ NoReply(pending[c]) => NoReply(q)
      /\ \A i \in Nat : \/ OnlyReply(inbox[c], i) /\ NoReply(pending[c])
                        \/ NoReply(inbox[c]) /\ OnlyReply(pending[c], i)
                        => OnlyReply(q, i)
  BY Zenon, <1>1, JoinFrames
<1>3. Unanswered(c) = {n \in 1..Len(q) : IsReply(q[n])}
  BY Zenon DEF Unanswered, IsReply
<1> HIDE DEF q
<1>4. NoReply(q) => Unanswered(c) = {}
  BY Zenon, <1>3 DEF NoReply
<1>5. ASSUME NEW i \in Nat, OnlyReply(q, i) PROVE \E k : Unanswered(c) = {k}
  <2>1. PICK k \in 1..Len(q) : IsReply(q[k]) /\ \A n \in 1..Len(q) : IsReply(q[n]) => n = k
    BY Zenon, <1>5 DEF OnlyReply
  <2>2. Unanswered(c) = {k}
    BY Zenon, <1>3, <2>1
  <2> QED
    BY Zenon, <2>2
<1>6. ASSUME NEW i \in Nat, Outstanding(c, i), asked[c] = <<>> PROVE OnlyReply(q, i)
  <2>1. <<i>> # <<>>
    OBVIOUS
  <2> QED
    BY Zenon, <1>2, <1>6, <2>1 DEF Outstanding
<1> QED
  BY Zenon, <1>2, <1>4, <1>5, <1>6

\* The invariants together imply what AnswerIsOwn says.
LEMMA WireInvImplies == ClientInv /\ WireInv => AnswerIsOwn
<1> SUFFICES ASSUME ClientInv, WireInv PROVE AnswerIsOwn
  BY Zenon
<1>1. \A t \in Threads : answered[t] # 0 => answered[t] = req[t]
  BY Zenon DEF WireInv, CallOK
<1>2. ASSUME NEW c \in Conns
      PROVE  Len(asked[c]) + Cardinality(Unanswered(c)) + (IF partial[c] THEN 1 ELSE 0) <= 1
  <2>1. TrafficOK(c)
    BY Zenon DEF WireInv
  <2>2. Cardinality({}) = 0 /\ \A k : Cardinality({k}) = 1
    BY Zenon, FS_EmptySet, FS_Singleton
  <2>3. CASE Quiet(c) \/ Torn(c)
    <3>1. asked[c] = <<>> /\ Unanswered(c) = {}
      BY Zenon, <2>3, UnansweredFacts DEF Quiet, Torn
    <3>2. Cardinality(Unanswered(c)) = 0
      BY Zenon, <2>2, <3>1
    <3> QED
      BY <3>1, <3>2
  <2>4. ASSUME NEW i \in Nat, Outstanding(c, i)
        PROVE  Len(asked[c]) + Cardinality(Unanswered(c)) + (IF partial[c] THEN 1 ELSE 0) <= 1
    <3>1. CASE asked[c] = <<>>
      <4>1. Cardinality(Unanswered(c)) = 1 /\ ~partial[c]
        BY Zenon, <2>2, <2>4, <3>1, UnansweredFacts DEF Outstanding
      <4> QED
        BY <3>1, <4>1
    <3>2. CASE asked[c] # <<>>
      <4>1. asked[c] = <<i>> /\ Unanswered(c) = {} /\ ~partial[c]
        BY Zenon, <2>4, <3>2, UnansweredFacts DEF Outstanding
      <4>2. Cardinality(Unanswered(c)) = 0
        BY Zenon, <2>2, <4>1
      <4> QED
        BY <4>1, <4>2
    <3> QED
      BY Zenon, <3>1, <3>2
  <2> QED
    BY Zenon, <2>1, <2>3, <2>4 DEF TrafficOK
<1>3. ASSUME connected, \A t \in Threads : ~(pc[t] \in CallHeld /\ cur[t] = connection)
      PROVE  ~partial[connection] /\ asked[connection] = <<>> /\ Unanswered(connection) = {}
  <2>1. PICK c \in Conns : c = connection
    BY Zenon, <1>3 DEF connected, Usable, ClientInv, TypeOK, ObjectType
  <2>2. Quiet(c)
    BY Zenon, <1>3, <2>1 DEF WireInv, TrafficOK, InCall
  <2> QED
    BY Zenon, <2>1, <2>2, UnansweredFacts DEF Quiet
<1> QED
  BY Zenon, <1>1, <1>2, <1>3 DEF AnswerIsOwn

\* What is on the wire stays in order: on every connection there is nothing, a torn
\* request, or exactly one request or the reply to it, and what a call reads is its own.
THEOREM WireInvariant == Spec => []WireInv
  BY InitWireInv, NextWireInv, ClientInvariant, PTL DEF Spec

\* The reply that call() returns answers the request that this call() sent, although
\* replies are matched by method id only; no call starts on a connection with traces of
\* an earlier one.
THEOREM AnswersAreOwn == Spec => []AnswerIsOwn
  BY WireInvImplies, WireInvariant, ClientInvariant, PTL

-----------------------------------------------------------------------------
(* Notifications among the frames of a connection                          *)

IsNotice(f) == f.kind = "Notification"
Carries(q, n) == \E k \in 1..Len(q) : IsNotice(q[k]) /\ q[k].id = n
Once(q) ==
  \A j, k \in 1..Len(q) : IsNotice(q[j]) /\ IsNotice(q[k]) /\ q[j].id = q[k].id => j = k

\* A frame arrives.
LEMMA NoticeArrives ==
  ASSUME NEW q \in Seq(Frames), NEW x \in Frames
  PROVE  /\ \A n : Carries(Append(q, x), n) => Carries(q, n) \/ (IsNotice(x) /\ x.id = n)
         /\ Once(q) /\ (IsNotice(x) => ~Carries(q, x.id)) => Once(Append(q, x))
<1> DEFINE a == Append(q, x)
<1>1. /\ \A n : n \in 1..Len(a) <=> n \in 1..Len(q) \/ n = Len(q) + 1
      /\ a[Len(q) + 1] = x /\ \A n \in 1..Len(q) : a[n] = q[n]
  BY AppendElements
<1> HIDE DEF a
<1>2. \A n : Carries(a, n) => Carries(q, n) \/ (IsNotice(x) /\ x.id = n)
  BY Zenon, <1>1 DEF Carries
<1>3. ASSUME Once(q), IsNotice(x) => ~Carries(q, x.id) PROVE Once(a)
  BY Zenon, <1>1, <1>3 DEF Once, Carries
<1> QED
  BY Zenon, <1>2, <1>3 DEF a

\* The first frame is taken.
LEMMA NoticeTaken ==
  ASSUME NEW q \in Seq(Frames), q # <<>>
  PROVE  /\ \A n : Carries(Tail(q), n) => Carries(q, n)
         /\ Once(q) => Once(Tail(q))
         /\ IsNotice(Head(q)) => Carries(q, Head(q).id) /\ (Once(q) => ~Carries(Tail(q), Head(q).id))
<1>1. /\ Head(q) = q[1] /\ 1 \in 1..Len(q)
      /\ \A n \in 1..Len(Tail(q)) : Tail(q)[n] = q[n + 1] /\ n + 1 \in 1..Len(q) /\ n + 1 # 1
      /\ \A m, n \in 1..Len(Tail(q)) : m + 1 = n + 1 => m = n
  OBVIOUS
<1>2. \A n : Carries(Tail(q), n) => Carries(q, n)
  BY Zenon, <1>1 DEF Carries
<1>3. ASSUME Once(q) PROVE Once(Tail(q))
  <2> SUFFICES ASSUME NEW j \in 1..Len(Tail(q)), NEW k \in 1..Len(Tail(q)),
                      IsNotice(Tail(q)[j]), IsNotice(Tail(q)[k]), Tail(q)[j].id = Tail(q)[k].id
               PROVE  j = k
    BY Zenon DEF Once
  <2>1. /\ j + 1 \in 1..Len(q) /\ k + 1 \in 1..Len(q)
        /\ Tail(q)[j] = q[j + 1] /\ Tail(q)[k] = q[k + 1]
    BY Zenon, <1>1
  <2>2. j + 1 = k + 1
    BY Zenon, <1>3, <2>1 DEF Once
  <2> QED
    BY Zenon, <1>1, <2>2
<1>4. ASSUME IsNotice(Head(q)) PROVE Carries(q, Head(q).id)
  BY Zenon, <1>1, <1>4 DEF Carries
<1>5. ASSUME IsNotice(Head(q)), Once(q) PROVE ~Carries(Tail(q), Head(q).id)
  BY Zenon, <1>1, <1>5 DEF Carries, Once
<1> QED
  BY Zenon, <1>2, <1>3, <1>4, <1>5

\* The first n frames, and what is left without them
LEMMA NoticesSplit ==
  ASSUME NEW q \in Seq(Frames), NEW n \in 0..Len(q)
  PROVE  /\ \A i : Carries(SubSeq(q, 1, n), i) \/ Carries(SubSeq(q, n + 1, Len(q)), i) => Carries(q, i)
         /\ Once(q) => /\ Once(SubSeq(q, 1, n)) /\ Once(SubSeq(q, n + 1, Len(q)))
                       /\ \A i : ~(Carries(SubSeq(q, 1, n), i) /\ Carries(SubSeq(q, n + 1, Len(q)), i))
<1> DEFINE p == SubSeq(q, 1, n)
           r == SubSeq(q, n + 1, Len(q))
<1>1. \A m \in 1..Len(p) : p[m] = q[m] /\ m \in 1..Len(q) /\ m <= n
  <2>1. Len(p) = n /\ \A m \in 1..n : p[m] = q[m]
    OBVIOUS
  <2> QED
    BY <2>1
<1>2. /\ \A m \in 1..Len(r) : r[m] = q[n + m] /\ n + m \in 1..Len(q) /\ ~(n + m <= n)
      /\ \A k, m \in 1..Len(r) : n + m = n + k => m = k
  <2>1. Len(r) = Len(q) - n /\ \A m \in 1..Len(q) - n : r[m] = q[n + m]
    OBVIOUS
  <2> QED
    BY SMTT(30), <2>1
<1> HIDE DEF p, r
<1>3. \A i : Carries(p, i) \/ Carries(r, i) => Carries(q, i)
  BY Zenon, <1>1, <1>2 DEF Carries
<1>4. ASSUME Once(q) PROVE Once(p) /\ Once(r)
  BY ZenonT(30), <1>1, <1>2, <1>4 DEF Once
<1>5. ASSUME Once(q), NEW i, Carries(p, i), Carries(r, i) PROVE FALSE
  <2>1. PICK j \in 1..Len(p) : IsNotice(p[j]) /\ p[j].id = i
    BY Zenon, <1>5 DEF Carries
  <2>2. PICK k \in 1..Len(r) : IsNotice(r[k]) /\ r[k].id = i
    BY Zenon, <1>5 DEF Carries
  <2>3. /\ p[j] = q[j] /\ j \in 1..Len(q) /\ j <= n
        /\ r[k] = q[n + k] /\ n + k \in 1..Len(q) /\ ~(n + k <= n)
    BY Zenon, <1>1, <1>2
  <2>4. j = n + k
    BY Zenon, <1>5, <2>1, <2>2, <2>3 DEF Once
  <2> QED
    BY Zenon, <2>3, <2>4
<1> QED
  BY Zenon, <1>3, <1>4, <1>5 DEF p, r

\* Frames are put behind others.
LEMMA NoticesJoin ==
  ASSUME NEW p \in Seq(Frames), NEW q \in Seq(Frames)
  PROVE  /\ \A i : Carries(p \o q, i) => Carries(p, i) \/ Carries(q, i)
         /\ Once(p) /\ Once(q) /\ (\A i \in Nat : ~(Carries(p, i) /\ Carries(q, i))) => Once(p \o q)
<1> DEFINE s == p \o q
<1>1. \A n \in 1..Len(s) : \/ n \in 1..Len(p) /\ s[n] = p[n]
                           \/ /\ n - Len(p) \in 1..Len(q) /\ s[n] = q[n - Len(p)]
                              /\ n = Len(p) + (n - Len(p))
  <2>1. Len(s) = Len(p) + Len(q) /\ \A m \in 1..Len(s) : s[m] = (IF m <= Len(p) THEN p[m] ELSE q[m - Len(p)])
    OBVIOUS
  <2> QED
    BY <2>1
<1> HIDE DEF s
<1>2. \A i : Carries(s, i) => Carries(p, i) \/ Carries(q, i)
  BY Zenon, <1>1 DEF Carries
<1>3. ASSUME Once(p), Once(q), \A i \in Nat : ~(Carries(p, i) /\ Carries(q, i)),
             NEW j \in 1..Len(s), NEW k \in 1..Len(s), IsNotice(s[j]), IsNotice(s[k]), s[j].id = s[k].id
      PROVE  j = k
  <2>1. \A m \in 1..Len(p) : p[m].id \in Nat
    <3>1. \A m \in 1..Len(p) : p[m] \in Frames
      OBVIOUS
    <3> QED
      BY Zenon, <3>1 DEF Frames
  <2>2. CASE j \in 1..Len(p) /\ s[j] = p[j]
    <3>1. CASE k \in 1..Len(p) /\ s[k] = p[k]
      BY Zenon, <1>3, <2>2, <3>1 DEF Once
    <3>2. CASE k - Len(p) \in 1..Len(q) /\ s[k] = q[k - Len(p)]
      <4>1. Carries(p, p[j].id) /\ Carries(q, p[j].id)
        BY Zenon, <1>3, <2>2, <3>2 DEF Carries
      <4> QED
        BY Zenon, <1>3, <2>1, <2>2, <4>1
    <3> QED
      BY Zenon, <1>1, <3>1, <3>2
  <2>3. CASE /\ j - Len(p) \in 1..Len(q) /\ s[j] = q[j - Len(p)] /\ j = Len(p) + (j - Len(p))
    <3>1. CASE k \in 1..Len(p) /\ s[k] = p[k]
      <4>1. Carries(p, p[k].id) /\ Carries(q, p[k].id)
        BY Zenon, <1>3, <2>3, <3>1 DEF Carries
      <4> QED
        BY Zenon, <1>3, <2>1, <3>1, <4>1
    <3>2. CASE /\ k - Len(p) \in 1..Len(q) /\ s[k] = q[k - Len(p)] /\ k = Len(p) + (k - Len(p))
      <4>1. j - Len(p) = k - Len(p)
        BY Zenon, <1>3, <2>3, <3>2 DEF Once
      <4> QED
        BY Zenon, <2>3, <3>2, <4>1
    <3> QED
      BY Zenon, <1>1, <3>1, <3>2
  <2> QED
    BY Zenon, <1>1, <2>2, <2>3
<1>4. Once(p) /\ Once(q) /\ (\A i \in Nat : ~(Carries(p, i) /\ Carries(q, i))) => Once(s)
  BY Zenon, <1>3 DEF Once
<1> QED
  BY Zenon, <1>2, <1>4 DEF s

-----------------------------------------------------------------------------
(* Where a notification is                                                 *)

\* On its way to the client, or read and owed to the callback
OnWay(c, n) == Carries(inbox[c], n) \/ Carries(pending[c], n)
Owes(t, n) == \E k \in 1..Len(notices[t]) : notices[t][k] = n

\* A notification is on its way once, and nobody has read it.
LineOK(c) ==
  /\ Once(inbox[c]) /\ Once(pending[c])
  /\ \A n \in Nat : ~(Carries(inbox[c], n) /\ Carries(pending[c], n))
  /\ \A n \in Nat : OnWay(c, n) => n <= noted /\ n \notin taken
LinesOK ==
  /\ \A c \in Conns : LineOK(c)
  /\ \A c, d \in Conns : c # d => \A n \in Nat : ~(OnWay(c, n) /\ OnWay(d, n))

\* What a call owes it owes once, alone, and until it is at the end of call().
OwedOK(t) ==
  /\ \A j, k \in 1..Len(notices[t]) : notices[t][j] = notices[t][k] => j = k
  /\ \A n \in Nat : Owes(t, n) => n \in taken /\ n \notin delivered
  /\ \A u \in Threads : u # t => \A n \in Nat : ~(Owes(t, n) /\ Owes(u, n))
DebtsOK ==
  /\ \A t \in Threads : OwedOK(t)
  /\ \A n \in taken : n <= noted /\ (n \in delivered \/ \E t \in Threads : Owes(t, n))
  /\ delivered \subseteq taken

\* Only a call owes anything.
PlacesOK == \A t \in Threads : notices[t] # <<>> => pc[t] \in CallHeld \cup {"cNotify"}

NoticeInv == LinesOK /\ DebtsOK /\ PlacesOK

noticeVars == <<inbox, pending, noted, taken, delivered, notices>>

\* What was on the way and is still, is on the way once.
LEMMA LinesStep ==
  ASSUME LinesOK, noted' = noted,
         \A c \in Conns : /\ Once(inbox'[c]) /\ Once(pending'[c])
                          /\ \A n \in Nat : ~(Carries(inbox'[c], n) /\ Carries(pending'[c], n))
                          /\ \A n \in Nat : Carries(inbox'[c], n) \/ Carries(pending'[c], n)
                                           => OnWay(c, n) /\ (n \in taken' => n \in taken)
  PROVE  LinesOK'
<1>1. ASSUME NEW c \in Conns PROVE LineOK(c)'
  BY Zenon DEF LinesOK, LineOK, OnWay
<1>2. \A c, d \in Conns : c # d => \A n \in Nat : ~(OnWay(c, n)' /\ OnWay(d, n)')
  BY Zenon DEF LinesOK, OnWay
<1> QED
  BY Zenon, <1>1, <1>2 DEF LinesOK

\* A step that reads and delivers no notification
LEMMA DebtsFrame ==
  ASSUME DebtsOK, UNCHANGED <<taken, delivered, notices, noted>>
  PROVE  DebtsOK'
<1>1. \A t, n : Owes(t, n)' <=> Owes(t, n)
  BY Zenon DEF Owes
<1>2. ASSUME NEW t \in Threads PROVE OwedOK(t)'
  BY Zenon, <1>1 DEF DebtsOK, OwedOK
<1>3. \A n \in taken : n <= noted /\ (n \in delivered \/ \E t \in Threads : Owes(t, n)')
  BY Zenon, <1>1 DEF DebtsOK
<1> QED
  BY Zenon, <1>2, <1>3 DEF DebtsOK

\* The frames of a connection change, those of the others do not.
LEMMA OneLine ==
  ASSUME LinesOK, NEW c \in Conns, UNCHANGED <<noted, taken>>,
         \A d \in Conns \ {c} : inbox'[d] = inbox[d] /\ pending'[d] = pending[d],
         Once(inbox'[c]), Once(pending'[c]),
         \A n \in Nat : ~(Carries(inbox'[c], n) /\ Carries(pending'[c], n)),
         \A n \in Nat : Carries(inbox'[c], n) \/ Carries(pending'[c], n) => OnWay(c, n)
  PROVE  LinesOK'
<1>1. ASSUME NEW d \in Conns
      PROVE  /\ Once(inbox'[d]) /\ Once(pending'[d])
             /\ \A n \in Nat : ~(Carries(inbox'[d], n) /\ Carries(pending'[d], n))
             /\ \A n \in Nat : Carries(inbox'[d], n) \/ Carries(pending'[d], n)
                              => OnWay(d, n) /\ (n \in taken' => n \in taken)
  <2>1. CASE d = c
    BY Zenon, <2>1
  <2>2. CASE d # c
    BY Zenon, <2>2 DEF LinesOK, LineOK, OnWay
  <2> QED
    BY Zenon, <2>1, <2>2
<1> QED
  BY Zenon, <1>1, LinesStep

\* A step that reads, sends and delivers nothing
LEMMA NoticesFrame ==
  ASSUME NoticeInv, UNCHANGED noticeVars
  PROVE  LinesOK' /\ DebtsOK'
<1>1. DebtsOK'
  BY Zenon, DebtsFrame DEF NoticeInv, noticeVars
<1>2. \A c \in Conns : /\ Once(inbox'[c]) /\ Once(pending'[c])
                       /\ \A n \in Nat : ~(Carries(inbox'[c], n) /\ Carries(pending'[c], n))
                       /\ \A n \in Nat : Carries(inbox'[c], n) \/ Carries(pending'[c], n)
                                        => OnWay(c, n) /\ (n \in taken' => n \in taken)
  BY Zenon DEF NoticeInv, LinesOK, LineOK, OnWay, noticeVars
<1> QED
  BY Zenon, <1>1, <1>2, LinesStep DEF NoticeInv, noticeVars

-----------------------------------------------------------------------------
(* The steps that move frames                                              *)

\* A reply comes in.
LEMMA PeerReplyNotices ==
  ASSUME ClientInv, NoticeInv, NEW c \in Conns, PeerReply(c)
  PROVE  LinesOK' /\ DebtsOK'
<1>1. /\ inbox \in [Conns -> Seq(Frames)] /\ pending \in [Conns -> Seq(Frames)]
      /\ asked[c] \in Seq(Nat) /\ asked[c] # <<>>
  BY Zenon DEF PeerReply, ClientInv, TypeOK, WireType
<1>2. Head(asked[c]) \in Nat
  BY <1>1
<1>3. PICK x \in Frames : ~IsNotice(x) /\ inbox' = [inbox EXCEPT ![c] = Append(inbox[c], x)]
  <2>1. PICK kind \in Replies :
          inbox' = [inbox EXCEPT ![c] = Append(inbox[c], [kind |-> kind, id |-> Head(asked[c])])]
    BY Zenon DEF PeerReply
  <2>2. [kind |-> kind, id |-> Head(asked[c])] \in Frames
    BY <1>2 DEF Frames
  <2>3. [kind |-> kind, id |-> Head(asked[c])].kind # "Notification"
    BY DEF Replies
  <2> QED
    BY Zenon, <2>1, <2>2, <2>3 DEF IsNotice
<1>4. UNCHANGED <<pending, noted, taken, delivered, notices>>
  BY Zenon DEF PeerReply, histVars, callVars
<1>5. inbox'[c] = Append(inbox[c], x) /\ \A d \in Conns \ {c} : inbox'[d] = inbox[d]
  BY Zenon, <1>1, <1>3
<1>6. /\ \A n : Carries(inbox'[c], n) => Carries(inbox[c], n)
      /\ Once(inbox[c]) => Once(inbox'[c])
  BY Zenon, <1>1, <1>3, <1>5, NoticeArrives
<1>7. LinesOK'
  BY ZenonT(30), <1>4, <1>5, <1>6, OneLine DEF NoticeInv, LinesOK, LineOK, OnWay
<1> QED
  BY Zenon, <1>4, <1>7, DebtsFrame DEF NoticeInv

\* The connection is closed: some of what was sent is lost.
LEMMA PeerCloseNotices ==
  ASSUME ClientInv, NoticeInv, NEW c \in Conns, PeerClose(c)
  PROVE  LinesOK' /\ DebtsOK'
<1>1. inbox \in [Conns -> Seq(Frames)] /\ UNCHANGED <<pending, noted, taken, delivered, notices>>
  BY Zenon DEF PeerClose, ClientInv, TypeOK, WireType, histVars, callVars
<1>2. PICK n \in 0..Len(inbox[c]) : inbox' = [inbox EXCEPT ![c] = SubSeq(inbox[c], 1, n)]
  BY Zenon DEF PeerClose
<1>3. inbox'[c] = SubSeq(inbox[c], 1, n) /\ \A d \in Conns \ {c} : inbox'[d] = inbox[d]
  BY Zenon, <1>1, <1>2
<1>4. /\ \A i : Carries(inbox'[c], i) => Carries(inbox[c], i)
      /\ Once(inbox[c]) => Once(inbox'[c])
  BY Zenon, <1>1, <1>3, NoticesSplit
<1>5. LinesOK'
  BY Zenon, <1>1, <1>3, <1>4, OneLine DEF NoticeInv, LinesOK, LineOK, OnWay
<1> QED
  BY Zenon, <1>1, <1>5, DebtsFrame DEF NoticeInv

\* Frames are received: they are pending now.
LEMMA RecvNotices ==
  ASSUME ClientInv, NoticeInv, NEW t \in Threads, Recv(t)
  PROVE  LinesOK' /\ DebtsOK'
<1>1. /\ inbox \in [Conns -> Seq(Frames)] /\ pending \in [Conns -> Seq(Frames)]
      /\ pc[t] \in CallHeld /\ UNCHANGED <<noted, taken, delivered, notices>>
  BY Zenon DEF Recv, ClientInv, TypeOK, WireType, histVars, callVars, CallHeld
<1>2. PICK c \in Conns : c = cur[t]
  BY Zenon, <1>1, CallHasConnection
<1>3. PICK n \in 1..Len(inbox[c]) :
        /\ pending' = [pending EXCEPT ![c] = pending[c] \o SubSeq(inbox[c], 1, n)]
        /\ inbox' = [inbox EXCEPT ![c] = SubSeq(inbox[c], n + 1, Len(inbox[c]))]
  BY Zenon, <1>2 DEF Recv
<1> DEFINE p == SubSeq(inbox[c], 1, n)
           r == SubSeq(inbox[c], n + 1, Len(inbox[c]))
<1>4. /\ pending'[c] = pending[c] \o p /\ inbox'[c] = r
      /\ \A d \in Conns \ {c} : inbox'[d] = inbox[d] /\ pending'[d] = pending[d]
  BY Zenon, <1>1, <1>3
<1>5. inbox[c] \in Seq(Frames) /\ pending[c] \in Seq(Frames) /\ n \in 0..Len(inbox[c])
  BY <1>1
<1>6. p \in Seq(Frames)
  BY <1>5
<1>7. LineOK(c)
  BY Zenon DEF NoticeInv, LinesOK
<1>8. /\ \A i : Carries(p, i) \/ Carries(r, i) => Carries(inbox[c], i)
      /\ Once(p) /\ Once(r) /\ \A i : ~(Carries(p, i) /\ Carries(r, i))
  BY Zenon, <1>5, <1>7, NoticesSplit DEF LineOK
<1> HIDE DEF p, r
<1>9. /\ \A i : Carries(pending'[c], i) => Carries(pending[c], i) \/ Carries(p, i)
      /\ Once(pending'[c])
  BY ZenonT(30), <1>4, <1>5, <1>6, <1>7, <1>8, NoticesJoin DEF LineOK
<1>10. LinesOK'
  BY ZenonT(30), <1>1, <1>4, <1>7, <1>8, <1>9, OneLine DEF NoticeInv, LineOK, OnWay
<1> QED
  BY Zenon, <1>1, <1>10, DebtsFrame DEF NoticeInv

\* A notification comes in, with a number that none had before.
LEMMA PeerNotifyNotices ==
  ASSUME ClientInv, NoticeInv, NEW c \in Conns, PeerNotify(c)
  PROVE  LinesOK' /\ DebtsOK'
<1>1. /\ inbox \in [Conns -> Seq(Frames)] /\ noted \in Nat /\ noted' = noted + 1
      /\ taken \subseteq Nat /\ UNCHANGED <<pending, taken, delivered, notices>>
  BY Zenon DEF PeerNotify, ClientInv, TypeOK, WireType, HistoryType, callVars
<1>2. PICK x \in Frames : x.id = noted' /\ inbox' = [inbox EXCEPT ![c] = Append(inbox[c], x)]
  <2>1. [kind |-> "Notification", id |-> noted'] \in Frames
    BY <1>1 DEF Frames
  <2>2. inbox' = [inbox EXCEPT ![c] = Append(inbox[c], [kind |-> "Notification", id |-> noted'])]
    BY Zenon, <1>1 DEF PeerNotify
  <2>3. [kind |-> "Notification", id |-> noted'].id = noted'
    OBVIOUS
  <2> QED
    BY Zenon, <2>1, <2>2, <2>3
<1>3. /\ noted' \in Nat /\ noted' <= noted' /\ ~(noted' <= noted)
      /\ \A n \in Nat : n <= noted => n <= noted'
  BY <1>1
<1>4. inbox'[c] = Append(inbox[c], x) /\ \A d \in Conns \ {c} : inbox'[d] = inbox[d]
  BY Zenon, <1>1, <1>2
<1>5. \A d \in Conns : LineOK(d) /\ ~OnWay(d, noted')
  BY Zenon, <1>3 DEF NoticeInv, LinesOK, LineOK
<1>6. noted' \notin taken
  BY Zenon, <1>3 DEF NoticeInv, DebtsOK
<1>7. /\ \A n : Carries(inbox'[c], n) => Carries(inbox[c], n) \/ n = noted'
      /\ Once(inbox'[c])
  <2>1. inbox[c] \in Seq(Frames) /\ Once(inbox[c]) /\ ~Carries(inbox[c], x.id)
    BY Zenon, <1>1, <1>2, <1>5 DEF LineOK, OnWay
  <2>2. /\ \A n : Carries(Append(inbox[c], x), n) => Carries(inbox[c], n) \/ x.id = n
        /\ Once(Append(inbox[c], x))
    BY Zenon, <2>1, NoticeArrives
  <2> QED
    BY Zenon, <1>2, <1>4, <2>2
<1>8. \A d \in Conns, n \in Nat : OnWay(d, n)' => OnWay(d, n) \/ (d = c /\ n = noted')
  <2> SUFFICES ASSUME NEW d \in Conns, NEW n \in Nat, OnWay(d, n)'
               PROVE  OnWay(d, n) \/ (d = c /\ n = noted')
    BY Zenon
  <2>1. CASE d = c
    BY Zenon, <1>1, <1>7, <2>1 DEF OnWay
  <2>2. CASE d # c
    BY Zenon, <1>1, <1>4, <2>2 DEF OnWay
  <2> QED
    BY Zenon, <2>1, <2>2
<1>9. ASSUME NEW d \in Conns PROVE LineOK(d)'
  <2>1. \A n \in Nat : OnWay(d, n)' => n <= noted' /\ n \notin taken'
    BY Zenon, <1>1, <1>3, <1>5, <1>6, <1>8 DEF LineOK
  <2>2. CASE d = c
    <3>1. \A n \in Nat : ~(Carries(inbox'[c], n) /\ Carries(pending[c], n))
      BY Zenon, <1>5, <1>7 DEF LineOK, OnWay
    <3> QED
      BY ZenonT(30), <1>1, <1>5, <1>7, <2>1, <2>2, <3>1 DEF LineOK
  <2>3. CASE d # c
    BY Zenon, <1>1, <1>4, <1>5, <2>1, <2>3 DEF LineOK
  <2> QED
    BY Zenon, <2>2, <2>3
<1>10. \A d, e \in Conns : d # e => \A n \in Nat : ~(OnWay(d, n)' /\ OnWay(e, n)')
  <2> SUFFICES ASSUME NEW d \in Conns, NEW e \in Conns, d # e, NEW n \in Nat, OnWay(d, n)', OnWay(e, n)'
               PROVE  FALSE
    BY Zenon
  <2>1. ~(OnWay(d, n) /\ OnWay(e, n))
    BY Zenon DEF NoticeInv, LinesOK
  <2>2. OnWay(d, n) \/ (d = c /\ n = noted')
    BY Zenon, <1>8
  <2>3. OnWay(e, n) \/ (e = c /\ n = noted')
    BY Zenon, <1>8
  <2> QED
    BY Zenon, <1>5, <2>1, <2>2, <2>3
<1>11. DebtsOK'
  <2>1. \A t, n : Owes(t, n)' <=> Owes(t, n)
    BY Zenon, <1>1 DEF Owes
  <2>2. ASSUME NEW t \in Threads PROVE OwedOK(t)'
    BY Zenon, <1>1, <2>1 DEF NoticeInv, DebtsOK, OwedOK
  <2>3. \A n \in taken : n <= noted' /\ (n \in delivered \/ \E t \in Threads : Owes(t, n)')
    BY Zenon, <1>1, <1>3, <2>1 DEF NoticeInv, DebtsOK
  <2> QED
    BY Zenon, <1>1, <2>2, <2>3 DEF NoticeInv, DebtsOK
<1> QED
  BY Zenon, <1>9, <1>10, <1>11 DEF LinesOK

\* The connection and the frame of a thread that takes one
LEMMA NoticeOfCall ==
  ASSUME ClientInv, NoticeInv, NEW t \in Threads, Take(t)
  PROVE  \E c \in Conns :
           /\ c = cur[t] /\ pending[c] \in Seq(Frames) /\ pending[c] # <<>>
           /\ pending'[c] = Tail(pending[c])
           /\ \A d \in Conns \ {c} : pending'[d] = pending[d]
           /\ LineOK(c) /\ UNCHANGED <<inbox, noted, delivered>>
<1>1. pc[t] \in CallHeld /\ pending \in [Conns -> Seq(Frames)]
  BY Zenon DEF Take, CallHeld, ClientInv, TypeOK, WireType
<1>2. PICK c \in Conns : c = cur[t]
  BY Zenon, <1>1, CallHasConnection
<1>3. /\ pending[c] # <<>> /\ pending' = [pending EXCEPT ![c] = Tail(pending[c])]
      /\ UNCHANGED <<inbox, noted, delivered>>
  BY Zenon, <1>2 DEF Take
<1>4. pending'[c] = Tail(pending[c]) /\ \A d \in Conns \ {c} : pending'[d] = pending[d]
  BY Zenon, <1>1, <1>3
<1> QED
  BY Zenon, <1>1, <1>2, <1>3, <1>4 DEF NoticeInv, LinesOK

\* A reply is taken.
LEMMA TakeReplyNotices ==
  ASSUME ClientInv, NoticeInv, NEW t \in Threads, TakeReply(t) \/ TakeBad(t)
  PROVE  LinesOK' /\ DebtsOK'
<1>1. Take(t) /\ UNCHANGED <<taken, notices>>
  BY Zenon DEF TakeReply, TakeBad
<1>2. PICK c \in Conns :
           /\ c = cur[t] /\ pending[c] \in Seq(Frames) /\ pending[c] # <<>>
           /\ pending'[c] = Tail(pending[c])
           /\ \A d \in Conns \ {c} : pending'[d] = pending[d]
           /\ LineOK(c) /\ UNCHANGED <<inbox, noted, delivered>>
  BY Zenon, <1>1, NoticeOfCall
<1>3. /\ \A n : Carries(pending'[c], n) => Carries(pending[c], n)
      /\ Once(pending'[c])
  <2>1. Once(pending[c])
    BY Zenon, <1>2 DEF LineOK
  <2>2. (\A n : Carries(Tail(pending[c]), n) => Carries(pending[c], n)) /\ Once(Tail(pending[c]))
    BY Zenon, <1>2, <2>1, NoticeTaken
  <2> QED
    BY Zenon, <1>2, <2>2
<1>4. LinesOK'
  BY Zenon, <1>1, <1>2, <1>3, OneLine DEF NoticeInv, LineOK, OnWay
<1> QED
  BY Zenon, <1>1, <1>2, <1>4, DebtsFrame DEF NoticeInv

\* A notification is taken: it is no longer on the way, and the call owes it.
LEMMA TakeNotificationNotices ==
  ASSUME ClientInv, NoticeInv, NEW t \in Threads, TakeNotification(t)
  PROVE  LinesOK' /\ DebtsOK'
<1>1. Take(t)
  BY Zenon DEF TakeNotification
<1>2. PICK c \in Conns :
           /\ c = cur[t] /\ pending[c] \in Seq(Frames) /\ pending[c] # <<>>
           /\ pending'[c] = Tail(pending[c])
           /\ \A d \in Conns \ {c} : pending'[d] = pending[d]
           /\ LineOK(c) /\ UNCHANGED <<inbox, noted, delivered>>
  BY Zenon, <1>1, NoticeOfCall
<1>3. PICK i \in Nat : i = Head(pending[c]).id
  BY Zenon, <1>1, <1>2, TakeFrame
<1>4. /\ IsNotice(Head(pending[c])) /\ taken' = taken \cup {i}
      /\ notices' = [notices EXCEPT ![t] = Append(notices[t], i)]
  BY Zenon, <1>2, <1>3 DEF TakeNotification, IsNotice
<1>5. /\ \A n : Carries(pending'[c], n) => Carries(pending[c], n)
      /\ Once(pending'[c]) /\ Carries(pending[c], i) /\ ~Carries(pending'[c], i)
  <2>1. Once(pending[c])
    BY Zenon, <1>2 DEF LineOK
  <2>2. /\ \A n : Carries(Tail(pending[c]), n) => Carries(pending[c], n)
        /\ Once(Tail(pending[c])) /\ Carries(pending[c], i) /\ ~Carries(Tail(pending[c]), i)
    BY Zenon, <1>2, <1>3, <1>4, <2>1, NoticeTaken
  <2> QED
    BY Zenon, <1>2, <2>2
<1>6. OnWay(c, i) /\ ~Carries(inbox[c], i) /\ i <= noted /\ i \notin taken
  BY Zenon, <1>2, <1>5 DEF LineOK, OnWay
<1>7. ASSUME NEW d \in Conns
      PROVE  /\ Once(inbox'[d]) /\ Once(pending'[d])
             /\ \A n \in Nat : ~(Carries(inbox'[d], n) /\ Carries(pending'[d], n))
             /\ \A n \in Nat : Carries(inbox'[d], n) \/ Carries(pending'[d], n)
                              => OnWay(d, n) /\ (n \in taken' => n \in taken)
  <2>1. CASE d = c
    BY Zenon, <1>2, <1>4, <1>5, <1>6, <2>1 DEF LineOK, OnWay
  <2>2. CASE d # c
    <3>1. LineOK(d) /\ ~OnWay(d, i)
      BY Zenon, <1>6, <2>2 DEF NoticeInv, LinesOK
    <3>2. inbox'[d] = inbox[d] /\ pending'[d] = pending[d]
      BY Zenon, <1>2, <2>2
    <3> QED
      BY Zenon, <1>4, <3>1, <3>2 DEF LineOK, OnWay
  <2> QED
    BY Zenon, <2>1, <2>2
<1>8. LinesOK'
  BY Zenon, <1>2, <1>7, LinesStep DEF NoticeInv
<1>9. /\ notices \in [Threads -> Seq(Nat)] /\ notices[t] \in Seq(Nat)
      /\ notices'[t] = Append(notices[t], i) /\ \A u \in Threads \ {t} : notices'[u] = notices[u]
  BY Zenon, <1>4 DEF ClientInv, TypeOK, LocalType
<1>10. /\ \A k : k \in 1..Len(notices'[t]) <=> k \in 1..Len(notices[t]) \/ k = Len(notices[t]) + 1
       /\ notices'[t][Len(notices[t]) + 1] = i
       /\ \A k \in 1..Len(notices[t]) : notices'[t][k] = notices[t][k] /\ k # Len(notices[t]) + 1
  <2>1. /\ \A k : k \in 1..Len(Append(notices[t], i)) <=> k \in 1..Len(notices[t]) \/ k = Len(notices[t]) + 1
        /\ Append(notices[t], i)[Len(notices[t]) + 1] = i
        /\ \A k \in 1..Len(notices[t]) : Append(notices[t], i)[k] = notices[t][k] /\ k # Len(notices[t]) + 1
    BY <1>9, AppendElements
  <2> QED
    BY Zenon, <1>9, <2>1
<1>11. /\ \A n : Owes(t, n)' <=> Owes(t, n) \/ n = i
       /\ \A u \in Threads \ {t} : \A n : Owes(u, n)' <=> Owes(u, n)
  BY Zenon, <1>9, <1>10 DEF Owes
<1>12. \A u \in Threads : OwedOK(u) /\ ~Owes(u, i)
  BY Zenon, <1>6 DEF NoticeInv, DebtsOK, OwedOK
<1>13. i \notin delivered
  BY Zenon, <1>6 DEF NoticeInv, DebtsOK
<1>14. ASSUME NEW u \in Threads PROVE OwedOK(u)'
  <2>1. \A j, k \in 1..Len(notices'[u]) : notices'[u][j] = notices'[u][k] => j = k
    <3>1. CASE u = t
      <4> SUFFICES ASSUME NEW j \in 1..Len(notices'[t]), NEW k \in 1..Len(notices'[t]),
                          notices'[t][j] = notices'[t][k]
                   PROVE  j = k
        BY Zenon, <3>1
      <4>1. CASE j \in 1..Len(notices[t]) /\ k \in 1..Len(notices[t])
        BY Zenon, <1>10, <1>12, <4>1 DEF OwedOK
      <4>2. CASE j = Len(notices[t]) + 1 /\ k \in 1..Len(notices[t])
        <5>1. notices[t][k] = i
          BY Zenon, <1>10, <4>2
        <5> QED
          BY Zenon, <1>12, <4>2, <5>1 DEF Owes
      <4>3. CASE k = Len(notices[t]) + 1 /\ j \in 1..Len(notices[t])
        <5>1. notices[t][j] = i
          BY Zenon, <1>10, <4>3
        <5> QED
          BY Zenon, <1>12, <4>3, <5>1 DEF Owes
      <4> QED
        BY Zenon, <1>10, <4>1, <4>2, <4>3
    <3>2. CASE u # t
      BY Zenon, <1>9, <1>12, <3>2 DEF OwedOK
    <3> QED
      BY Zenon, <3>1, <3>2
  <2>2. \A n \in Nat : Owes(u, n)' => n \in taken' /\ n \notin delivered'
    BY Zenon, <1>2, <1>4, <1>11, <1>12, <1>13 DEF OwedOK
  <2>3. ASSUME NEW w \in Threads, w # u, NEW n \in Nat, Owes(u, n)', Owes(w, n)' PROVE FALSE
    <3>1. ~(Owes(u, n) /\ Owes(w, n))
      BY Zenon, <1>12, <2>3 DEF OwedOK
    <3> QED
      BY Zenon, <1>11, <1>12, <2>3, <3>1
  <2> QED
    BY Zenon, <2>1, <2>2, <2>3 DEF OwedOK
<1>15. \A n \in taken' : n <= noted' /\ (n \in delivered' \/ \E u \in Threads : Owes(u, n)')
  BY Zenon, <1>2, <1>4, <1>6, <1>11 DEF NoticeInv, DebtsOK
<1>16. delivered' \subseteq taken'
  BY Zenon, <1>2, <1>4 DEF NoticeInv, DebtsOK
<1> QED
  BY Zenon, <1>8, <1>14, <1>15, <1>16 DEF DebtsOK

\* A sequence without its first element
LEMMA TailElements ==
  ASSUME NEW S, NEW q \in Seq(S), q # <<>>
  PROVE  /\ Head(q) \in S /\ Head(q) = q[1] /\ 1 \in 1..Len(q)
         /\ \A n \in 1..Len(Tail(q)) : Tail(q)[n] = q[n + 1] /\ n + 1 \in 1..Len(q) /\ n + 1 # 1
         /\ \A n \in 1..Len(q) : n = 1 \/ (n - 1 \in 1..Len(Tail(q)) /\ Tail(q)[n - 1] = q[n])
         /\ \A m, n \in 1..Len(Tail(q)) : m + 1 = n + 1 => m = n
  OBVIOUS

\* The callback gets a notification: the call owes all the others still.
LEMMA CallNotifyNotices ==
  ASSUME ClientInv, NoticeInv, NEW t \in Threads, CallNotify(t)
  PROVE  LinesOK' /\ DebtsOK'
<1>1. /\ notices \in [Threads -> Seq(Nat)] /\ notices[t] \in Seq(Nat) /\ notices[t] # <<>>
      /\ delivered' = delivered \cup {Head(notices[t])}
      /\ notices' = [notices EXCEPT ![t] = Tail(notices[t])]
      /\ UNCHANGED <<inbox, pending, taken, noted>>
  BY Zenon DEF CallNotify, ClientInv, TypeOK, LocalType, wireVars
<1>2. notices'[t] = Tail(notices[t]) /\ \A u \in Threads \ {t} : notices'[u] = notices[u]
  BY Zenon, <1>1
<1> DEFINE q == notices[t]
           r == Tail(q)
           i == Head(q)
<1>3. /\ i \in Nat /\ i = q[1] /\ 1 \in 1..Len(q)
      /\ \A n \in 1..Len(r) : r[n] = q[n + 1] /\ n + 1 \in 1..Len(q) /\ n + 1 # 1
      /\ \A n \in 1..Len(q) : n = 1 \/ (n - 1 \in 1..Len(r) /\ r[n - 1] = q[n])
      /\ \A m, n \in 1..Len(r) : m + 1 = n + 1 => m = n
  BY <1>1, TailElements
<1> HIDE DEF i, r
<1>4. delivered' = delivered \cup {i} /\ notices'[t] = r
  BY Zenon, <1>1, <1>2 DEF i, r
<1>5. \A u \in Threads : OwedOK(u)
  BY Zenon DEF NoticeInv, DebtsOK
<1>6. \A j, k \in 1..Len(q) : q[j] = q[k] => j = k
  BY Zenon, <1>5 DEF OwedOK
<1>7. \A n : Owes(t, n)' => Owes(t, n) /\ n # i
  <2> SUFFICES ASSUME NEW n, NEW k \in 1..Len(r), r[k] = n PROVE Owes(t, n) /\ n # i
    BY Zenon, <1>4 DEF Owes
  <2>1. q[k + 1] = n /\ k + 1 \in 1..Len(q) /\ k + 1 # 1
    BY Zenon, <1>3
  <2> QED
    BY Zenon, <1>3, <1>6, <2>1 DEF Owes
<1>8. \A n : Owes(t, n) => Owes(t, n)' \/ n = i
  <2> SUFFICES ASSUME NEW n, NEW k \in 1..Len(q), q[k] = n PROVE Owes(t, n)' \/ n = i
    BY Zenon DEF Owes
  <2> QED
    BY Zenon, <1>3, <1>4 DEF Owes
<1>9. \A u \in Threads \ {t} : \A n : Owes(u, n)' <=> Owes(u, n)
  BY Zenon, <1>2 DEF Owes
<1>10. Owes(t, i)
  BY Zenon, <1>3 DEF Owes
<1>11. \A u \in Threads \ {t} : ~Owes(u, i)
  BY Zenon, <1>3, <1>5, <1>10 DEF OwedOK
<1>12. i \in taken
  BY Zenon, <1>3, <1>5, <1>10 DEF OwedOK
<1>13. \A u \in Threads : \A n : Owes(u, n)' => Owes(u, n) /\ n # i
  BY Zenon, <1>7, <1>9, <1>11
<1>14. ASSUME NEW u \in Threads PROVE OwedOK(u)'
  <2>1. \A j, k \in 1..Len(notices'[u]) : notices'[u][j] = notices'[u][k] => j = k
    <3>1. CASE u = t
      <4> SUFFICES ASSUME NEW j \in 1..Len(r), NEW k \in 1..Len(r), r[j] = r[k] PROVE j = k
        BY Zenon, <1>4, <3>1
      <4>1. /\ r[j] = q[j + 1] /\ r[k] = q[k + 1]
            /\ j + 1 \in 1..Len(q) /\ k + 1 \in 1..Len(q)
        BY Zenon, <1>3
      <4>2. j + 1 = k + 1
        BY Zenon, <1>6, <4>1
      <4> QED
        BY Zenon, <1>3, <4>2
    <3>2. CASE u # t
      BY Zenon, <1>2, <1>5, <3>2 DEF OwedOK
    <3> QED
      BY Zenon, <3>1, <3>2
  <2>2. \A n \in Nat : Owes(u, n)' => n \in taken' /\ n \notin delivered'
    BY Zenon, <1>1, <1>4, <1>5, <1>13 DEF OwedOK
  <2>3. \A w \in Threads : w # u => \A n \in Nat : ~(Owes(u, n)' /\ Owes(w, n)')
    BY Zenon, <1>5, <1>13 DEF OwedOK
  <2> QED
    BY Zenon, <2>1, <2>2, <2>3 DEF OwedOK
<1>15. \A n \in taken' : n <= noted' /\ (n \in delivered' \/ \E u \in Threads : Owes(u, n)')
  <2> SUFFICES ASSUME NEW n \in taken PROVE n <= noted /\ (n \in delivered' \/ \E u \in Threads : Owes(u, n)')
    BY Zenon, <1>1
  <2>1. n <= noted /\ (n \in delivered \/ \E u \in Threads : Owes(u, n))
    BY Zenon DEF NoticeInv, DebtsOK
  <2> QED
    BY Zenon, <1>4, <1>8, <1>9, <2>1
<1>16. delivered' \subseteq taken'
  BY Zenon, <1>1, <1>4, <1>12 DEF NoticeInv, DebtsOK
<1>17. DebtsOK'
  BY Zenon, <1>14, <1>15, <1>16 DEF DebtsOK
<1>18. \A c \in Conns : /\ Once(inbox'[c]) /\ Once(pending'[c])
                        /\ \A n \in Nat : ~(Carries(inbox'[c], n) /\ Carries(pending'[c], n))
                        /\ \A n \in Nat : Carries(inbox'[c], n) \/ Carries(pending'[c], n)
                                         => OnWay(c, n) /\ (n \in taken' => n \in taken)
  BY Zenon, <1>1 DEF NoticeInv, LinesOK, LineOK, OnWay
<1> QED
  BY Zenon, <1>1, <1>17, <1>18, LinesStep DEF NoticeInv

-----------------------------------------------------------------------------
(* What a thread owes when it is where                                     *)

Owing == CallHeld \cup {"cNotify"}

\* A thread goes on in its call, or owes nothing.
LEMMA PlacesStep ==
  ASSUME ClientInv, NoticeInv, NEW t \in Threads, UNCHANGED notices,
         UNCHANGED pc \/ \E l : Goto(t, l) /\ (l \in Owing \/ pc[t] \notin Owing \/ notices[t] = <<>>)
  PROVE  PlacesOK'
<1>1. CASE UNCHANGED pc
  BY Zenon, <1>1 DEF NoticeInv, PlacesOK
<1>2. ASSUME NEW l, Goto(t, l), l \in Owing \/ pc[t] \notin Owing \/ notices[t] = <<>> PROVE PlacesOK'
  <2>1. pc'[t] = l /\ \A u \in Threads \ {t} : pc'[u] = pc[u]
    BY Zenon, <1>2, GotoPoint
  <2> SUFFICES ASSUME NEW u \in Threads, notices[u] # <<>> PROVE pc'[u] \in Owing
    BY Zenon DEF PlacesOK, Owing
  <2>2. pc[u] \in Owing
    BY Zenon DEF NoticeInv, PlacesOK, Owing
  <2> QED
    BY Zenon, <1>2, <2>1, <2>2
<1> QED
  BY Zenon, <1>1, <1>2

\* A step that leaves the notifications alone
LEMMA NoticeRest ==
  ASSUME ClientInv, NoticeInv, NEW t \in Threads, UNCHANGED noticeVars,
         UNCHANGED pc \/ \E l : Goto(t, l) /\ (l \in Owing \/ pc[t] \notin Owing \/ notices[t] = <<>>)
  PROVE  NoticeInv'
<1>1. UNCHANGED notices
  BY Zenon DEF noticeVars
<1> QED
  BY Zenon, <1>1, NoticesFrame, PlacesStep DEF NoticeInv

\* connect() owes nothing.
LEMMA ConnectNotices ==
  ASSUME ClientInv, NoticeInv, NEW t \in Threads,
         ConnectStep(t) \/ ConnectBegin(t) \/ ConnectPoll(t) \/ ConnectAddrExpired(t) \/ ConnectExpired(t)
  PROVE  NoticeInv'
<1> USE DEF wireVars, callVars, histVars, noticeVars, ConnectReturn
<1>1. \A l \in OutLocs : l \notin Owing
  BY Zenon, OutLocsFacts DEF Owing
<1>2. ASSUME pc[t] \in OutLocs, UNCHANGED noticeVars, UNCHANGED pc \/ \E l : Goto(t, l)
      PROVE  NoticeInv'
  BY Zenon, <1>1, <1>2, NoticeRest
<1> HIDE DEF noticeVars
<1>3. CASE ConnectLock(t) \/ ConnectShut(t) \/ ConnectPublish(t) \/ ConnectFail(t)
  <2>1. pc[t] \in OutLocs /\ \E l : Goto(t, l)
    BY Zenon, <1>3 DEF ConnectLock, ConnectShut, ConnectPublish, ConnectFail, OutLocs, ConnectHeld
  <2>2. UNCHANGED noticeVars
    BY ZenonT(30), <1>3 DEF ConnectLock, ConnectShut, ConnectPublish, ConnectFail, noticeVars
  <2> QED
    BY Zenon, <1>2, <2>1, <2>2
<1>4. CASE ConnectResolve(t) \/ ConnectAddr(t) \/ ConnectNoSocket(t) \/ ConnectNoFcntl(t) \/ ConnectClose(t)
  <2>1. pc[t] \in OutLocs /\ \E l : Goto(t, l)
    BY Zenon, <1>4 DEF ConnectResolve, ConnectAddr, ConnectNoSocket, ConnectNoFcntl, ConnectClose,
       NextAddress, OutLocs, ConnectHeld
  <2>2. UNCHANGED noticeVars
    BY ZenonT(30), <1>4 DEF ConnectResolve, ConnectAddr, ConnectNoSocket, ConnectNoFcntl, ConnectClose,
       noticeVars
  <2> QED
    BY Zenon, <1>2, <2>1, <2>2
<1>5. CASE ConnectCheck(t) \/ ConnectSettle(t) \/ ConnectAfter(t) \/ ConnectSocket(t) \/ ConnectSoError(t)
           \/ ConnectErase(t)
  <2>1. pc[t] \in OutLocs /\ \E l : Goto(t, l)
    BY Zenon, <1>5 DEF ConnectCheck, ConnectSettle, ConnectAfter, ConnectSocket, ConnectSoError,
       ConnectErase, OutLocs, ConnectHeld
  <2>2. UNCHANGED noticeVars
    BY Zenon, <1>5 DEF ConnectCheck, ConnectSettle, ConnectAfter, ConnectSocket, ConnectSoError,
       ConnectErase, noticeVars
  <2> QED
    BY Zenon, <1>2, <2>1, <2>2
<1>6. CASE ConnectWait(t) \/ ConnectExpired(t) \/ ConnectPoll(t) \/ ConnectAddrExpired(t) \/ ConnectBegin(t)
  <2>1. pc[t] \in OutLocs /\ (UNCHANGED pc \/ \E l : Goto(t, l))
    BY Zenon, <1>6 DEF ConnectWait, ConnectExpired, ConnectPoll, ConnectAddrExpired, ConnectBegin,
       WaitInterrupted, WaitExpired, WaitReady, WaitFails, OutLocs, ConnectHeld
  <2>2. UNCHANGED noticeVars
    BY Zenon, <1>6 DEF ConnectWait, ConnectExpired, ConnectPoll, ConnectAddrExpired, ConnectBegin,
       noticeVars
  <2> QED
    BY Zenon, <1>2, <2>1, <2>2
<1> QED
  BY ZenonT(30), <1>3, <1>4, <1>5, <1>6 DEF ConnectStep

\* The steps of call() that read and deliver nothing: they stay in the call, or there
\* is nothing to deliver.
LEMMA CallNotices ==
  ASSUME ClientInv, NoticeInv, NEW t \in Threads,
         \/ CallBegin(t) \/ End(t) \/ CallLock(t) \/ CallWait(t) \/ CallExpired(t) \/ CallPollFails(t)
         \/ CallWritable(t) \/ CallReadable(t) \/ SendPart(t) \/ SendRest(t) \/ SendFails(t)
         \/ RecvFails(t) \/ CallFail(t) \/ CallSink(t)
  PROVE  NoticeInv'
<1> USE DEF wireVars, callVars, histVars
<1>1. /\ "idle" \notin Owing /\ "cLock" \notin Owing /\ "end" \notin Owing
      /\ \A l \in {"cNotify", "cFail", "cWrite", "cSend", "cRead", "cRecv"} : l \in Owing
  BY Zenon DEF Owing, CallHeld
<1>2. CASE CallBegin(t) \/ End(t) \/ CallLock(t)
  <2>1. pc[t] \notin Owing /\ (UNCHANGED pc \/ \E l : Goto(t, l))
    BY Zenon, <1>1, <1>2 DEF CallBegin, End, CallLock
  <2>2. UNCHANGED noticeVars
    BY Zenon, <1>2 DEF CallBegin, End, CallLock, noticeVars
  <2> QED
    BY Zenon, <2>1, <2>2, NoticeRest
<1>3. CASE CallWait(t) \/ CallExpired(t) \/ CallPollFails(t) \/ CallWritable(t) \/ CallReadable(t)
  <2>1. \E l \in Owing : Goto(t, l)
    BY Zenon, <1>1, <1>3 DEF CallWait, CallExpired, CallPollFails, CallWritable, CallReadable,
       WaitInterrupted, WaitExpired, WaitReady, WaitFails
  <2>2. UNCHANGED noticeVars
    BY ZenonT(30), <1>3 DEF CallWait, CallExpired, CallPollFails, CallWritable, CallReadable, noticeVars
  <2> QED
    BY Zenon, <2>1, <2>2, NoticeRest
<1>4. CASE SendPart(t) \/ SendRest(t) \/ SendFails(t) \/ RecvFails(t) \/ CallFail(t)
  <2>1. \E l \in Owing : Goto(t, l)
    BY Zenon, <1>1, <1>4 DEF SendPart, SendRest, SendFails, RecvFails, CallFail
  <2>2. UNCHANGED noticeVars
    BY Zenon, <1>4 DEF SendPart, SendRest, SendFails, RecvFails, CallFail, noticeVars
  <2> QED
    BY Zenon, <2>1, <2>2, NoticeRest
<1>5. CASE CallSink(t)
  <2>1. notices[t] = <<>> /\ Goto(t, "end") /\ UNCHANGED noticeVars
    BY Zenon, <1>5 DEF CallSink, noticeVars
  <2> QED
    BY Zenon, <2>1, NoticeRest
<1> QED
  BY Zenon, <1>2, <1>3, <1>4, <1>5

\* The steps of call() that receive, take or deliver
LEMMA ReaderNotices ==
  ASSUME ClientInv, NoticeInv, NEW t \in Threads,
         Recv(t) \/ TakeNotification(t) \/ TakeReply(t) \/ TakeBad(t) \/ CallNotify(t)
  PROVE  NoticeInv'
<1>1. LinesOK' /\ DebtsOK'
  BY Zenon, RecvNotices, TakeNotificationNotices, TakeReplyNotices, CallNotifyNotices
<1>2. \A l \in {"cNotify", "cFail", "cRead"} : l \in Owing
  BY Zenon DEF Owing, CallHeld
<1>3. CASE Recv(t) \/ TakeReply(t) \/ TakeBad(t)
  <2>1. UNCHANGED notices /\ \E l \in Owing : Goto(t, l)
    BY Zenon, <1>2, <1>3 DEF Recv, TakeReply, TakeBad, callVars
  <2> QED
    BY Zenon, <1>1, <2>1, PlacesStep DEF NoticeInv
<1>4. CASE TakeNotification(t) \/ CallNotify(t)
  <2>1. /\ pc[t] \in Owing /\ UNCHANGED pc
        /\ \A u \in Threads \ {t} : notices'[u] = notices[u]
    BY Zenon, <1>2, <1>4 DEF TakeNotification, Take, CallNotify, ClientInv, TypeOK, LocalType
  <2>2. PlacesOK'
    BY Zenon, <2>1 DEF NoticeInv, PlacesOK, Owing
  <2> QED
    BY Zenon, <1>1, <2>2 DEF NoticeInv
<1> QED
  BY Zenon, <1>3, <1>4

\* At the start there is no notification.
LEMMA InitNoticeInv == Init => NoticeInv
<1> SUFFICES ASSUME Init PROVE NoticeInv
  BY Zenon
<1>1. Once(<<>>) /\ \A n : ~Carries(<<>>, n)
  BY DEF Once, Carries
<1>2. 1..Len(<<>>) = {}
  OBVIOUS
<1>3. \A t \in Threads : notices[t] = <<>>
  BY Zenon DEF Init
<1>4. \A c \in Conns : inbox[c] = <<>> /\ pending[c] = <<>>
  BY Zenon DEF Init
<1>5. LinesOK
  BY Zenon, <1>1, <1>4 DEF LinesOK, LineOK, OnWay
<1>6. \A t \in Threads : \A n : ~Owes(t, n)
  BY Zenon, <1>2, <1>3 DEF Owes
<1>7. \A t \in Threads : OwedOK(t)
  BY Zenon, <1>2, <1>3, <1>6 DEF OwedOK
<1>8. DebtsOK
  BY Zenon, <1>7 DEF DebtsOK, Init
<1>9. PlacesOK
  BY Zenon, <1>3 DEF PlacesOK
<1> QED
  BY ZenonT(30), <1>5, <1>8, <1>9 DEF NoticeInv

\* Every step keeps the account of the notifications.
LEMMA NextNoticeInv == ClientInv /\ NoticeInv /\ [Next]_vars => NoticeInv'
<1> SUFFICES ASSUME ClientInv, NoticeInv, [Next]_vars PROVE NoticeInv'
  BY Zenon
<1> USE DEF wireVars, callVars, histVars
<1>1. ASSUME NEW t \in Threads, Run(t) \/ Environment(t) PROVE NoticeInv'
  <2>1. CASE ConnectStep(t) \/ ConnectBegin(t) \/ ConnectPoll(t) \/ ConnectAddrExpired(t) \/ ConnectExpired(t)
    BY Zenon, <2>1, ConnectNotices
  <2>2. CASE Recv(t) \/ TakeNotification(t) \/ TakeReply(t) \/ TakeBad(t) \/ CallNotify(t)
    BY Zenon, <2>2, ReaderNotices
  <2>3. CASE \/ CallBegin(t) \/ End(t) \/ CallLock(t) \/ CallWait(t) \/ CallExpired(t) \/ CallPollFails(t)
             \/ CallWritable(t) \/ CallReadable(t) \/ SendPart(t) \/ SendRest(t) \/ SendFails(t)
             \/ RecvFails(t) \/ CallFail(t) \/ CallSink(t)
    BY Zenon, <2>3, CallNotices
  <2> QED
    BY ZenonT(30), <1>1, <2>1, <2>2, <2>3 DEF Run, Environment, Expire, CallStep
<1>2. ASSUME UNCHANGED <<pc, notices>>, LinesOK', DebtsOK' PROVE NoticeInv'
  BY Zenon, <1>2 DEF NoticeInv, PlacesOK
<1>3. ASSUME NEW c \in Conns, Peer(c) PROVE NoticeInv'
  <2>1. LinesOK' /\ DebtsOK'
    BY ZenonT(30), <1>3, PeerReplyNotices, PeerNotifyNotices, PeerCloseNotices DEF Peer
  <2>2. UNCHANGED <<pc, notices>>
    BY Zenon, <1>3 DEF Peer, PeerReply, PeerNotify, PeerClose
  <2> QED
    BY Zenon, <1>2, <2>1, <2>2
<1>4. ASSUME UNCHANGED <<pc, noticeVars>> PROVE NoticeInv'
  <2>1. UNCHANGED <<pc, notices>>
    BY Zenon, <1>4 DEF noticeVars
  <2> QED
    BY Zenon, <1>2, <1>4, <2>1, NoticesFrame
<1>5. CASE \E c \in Conns : Shutdown(c)
  BY Zenon, <1>4, <1>5 DEF Shutdown, noticeVars
<1>6. CASE \E reason \in Reasons : Interrupt(reason)
  BY Zenon, <1>4, <1>6 DEF Interrupt, InterruptSection, noticeVars
<1>7. CASE Destroy
  BY Zenon, <1>4, <1>7 DEF Destroy, DestroyMark, DestroyInterrupt, DestroyWait, InterruptSection, noticeVars
<1>8. CASE UNCHANGED vars
  BY Zenon, <1>4, <1>8 DEF vars, noticeVars
<1> QED
  BY ZenonT(30), <1>1, <1>3, <1>5, <1>6, <1>7, <1>8 DEF Next

\* The account is complete.
LEMMA NoticeInvImplies == ClientInv /\ NoticeInv => NoticesAccounted
<1> SUFFICES ASSUME ClientInv, NoticeInv PROVE NoticesAccounted
  BY Zenon
<1> DEFINE owed(t) == {notices[t][i] : i \in DOMAIN notices[t]}
<1>1. ASSUME NEW t \in Threads PROVE DOMAIN notices[t] = 1..Len(notices[t]) /\ owed(t) \subseteq Nat
  <2>1. notices[t] \in Seq(Nat)
    BY Zenon DEF ClientInv, TypeOK, LocalType
  <2> QED
    BY <2>1
<1>2. \A t \in Threads : \A n : n \in owed(t) <=> Owes(t, n)
  BY Zenon, <1>1 DEF Owes
<1>3. \A t \in Threads : \A n \in owed(t) : n \in taken /\ n \notin delivered
  BY Zenon, <1>1, <1>2 DEF NoticeInv, DebtsOK, OwedOK
<1>4. \A n \in taken : n \in delivered \/ \E t \in Threads : n \in owed(t)
  BY Zenon, <1>2 DEF NoticeInv, DebtsOK
<1>5. delivered \subseteq taken
  BY Zenon DEF NoticeInv, DebtsOK
<1>6. ASSUME NEW t \in Threads, pc[t] = "idle" PROVE owed(t) = {}
  <2>1. notices[t] = <<>>
    BY Zenon, <1>6 DEF NoticeInv, PlacesOK, CallHeld
  <2> QED
    BY <2>1
<1> HIDE DEF owed
<1>7. taken = delivered \cup UNION {owed(t) : t \in Threads}
  BY Zenon, <1>3, <1>4, <1>5
<1>8. \A t \in Threads : owed(t) \cap delivered = {}
  BY Zenon, <1>3
<1> QED
  BY ZenonT(30), <1>6, <1>7, <1>8 DEF NoticesAccounted, owed

\* Where a notification is, at any time: it is on its way on one connection and nobody
\* has read it, or one call() has read it and owes it to the callback, or the callback
\* got it; only a call() that has not returned owes anything.
THEOREM NoticeInvariant == Spec => []NoticeInv
  BY InitNoticeInv, NextNoticeInv, ClientInvariant, PTL DEF Spec

\* No notification that call() has read is lost or delivered twice: also a call() that
\* times out, fails or is interrupted hands what it has read to the callback before it
\* returns.
THEOREM NoticesAreAccounted == Spec => []NoticesAccounted
  BY NoticeInvImplies, NoticeInvariant, ClientInvariant, PTL

=============================================================================
