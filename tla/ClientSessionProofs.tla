------------------------ MODULE ClientSessionProofs -------------------------
(***************************************************************************)
(* What ClientSession promises of the ports of a session, for any number   *)
(* of threads, servers, ports and changes: between operations a connected  *)
(* session has the ports of its server and a disconnected one has none,    *)
(* and the port an operation refers to stays.  The invariant follows the   *)
(* ports from the answer of getPortConfig on the wire, through hydrate, to *)
(* ports_: an answer that is still on its way belongs to the server the    *)
(* session is connected to, since an interruption empties the wire.        *)
(***************************************************************************)
EXTENDS ClientSession, TLAPS

Configurations == UNION {[S -> Nat] : S \in SUBSET Ids}
AnswerOf(f) == [kind |-> "answer", configs |-> f]
Messages == {Notice(i) : i \in Ids} \union {AnswerOf(f) : f \in Configurations}
Connecting == {"version", "list", "configs", "closure"}
Operating == {"refresh", "query", "control", "apply"}

SessionType ==
  /\ version \in [Servers -> Configurations] /\ \A s \in Servers : DOMAIN version[s] = PortsOf[s]
  /\ owed \subseteq Ids /\ link \in Servers \union {None} /\ host \in Servers
  /\ wire \in Seq(Messages) /\ answered \in BOOLEAN /\ listening \in BOOLEAN
  /\ pc \in Locations /\ holder \in Threads \union {None} /\ barrier \subseteq Threads

IsAnswer(n) == n \in 1..Len(wire) /\ wire[n].kind = "answer"

\* There is at most one answer on the wire, and it tells the ports of the server.
WireOK ==
  /\ link = None => wire = <<>> /\ ~answered /\ ~listening
  /\ answered <=> \E n \in 1..Len(wire) : IsAnswer(n)
  /\ \A m, n \in 1..Len(wire) : IsAnswer(m) /\ IsAnswer(n) => m = n
  /\ pc = "configs" => \A n \in 1..Len(wire) : IsAnswer(n) => DOMAIN wire[n].configs = PortsOf[link]

\* Where the ports come from, by what the session is doing.
PortsOK ==
  /\ holder = None <=> pc = "idle"
  /\ pc = "dial" => link = None
  /\ pc \in Connecting \union {"dial"} => ports = NoPorts
  /\ pc = "closure" /\ link # None => DOMAIN staged = PortsOf[link]
  /\ pc \in Operating \union {"idle"} /\ link # None => origin = link /\ DOMAIN ports = PortsOf[link]
  /\ pc = "idle" /\ link = None /\ barrier = {} => ports = NoPorts
  /\ borrowed # None => pc \in {"control", "apply"} /\ borrowed \in DOMAIN ports

SessionInv == SessionType /\ WireOK /\ PortsOK

-----------------------------------------------------------------------------
(* Locations, configurations and messages                                  *)

\* Where an operation may be
LEMMA LocationFacts ==
  /\ Locations = Connecting \union Operating \union {"idle", "dial"}
  /\ "idle" \notin Connecting \union Operating /\ "dial" \notin Connecting \union Operating
  /\ \A l \in Operating : l \notin Connecting
  BY Zenon DEF Locations, Connecting, Operating

\* Ports that were left out, or none at all
LEMMA NoPortsFacts == NoPorts \in Configurations /\ DOMAIN NoPorts = {}
<1>1. NoPorts \in [{} -> Nat] /\ {} \in SUBSET Ids /\ DOMAIN NoPorts = {}
  BY DEF NoPorts
<1> QED
  BY Zenon, <1>1 DEF Configurations

\* getPortConfig answers for the ports of the server that it was asked for.
LEMMA ConfigsFacts ==
  ASSUME SessionInv, link # None, NEW S
  PROVE  Configs(S) \in Configurations /\ DOMAIN Configs(S) = S \intersect PortsOf[link]
<1>1. link \in Servers /\ Known = PortsOf[link] /\ PortsOf[link] \in SUBSET Ids
  BY Zenon, SessionAssumption DEF SessionInv, SessionType, Known
<1>2. version[link] \in Configurations /\ DOMAIN version[link] = PortsOf[link]
  BY Zenon, <1>1 DEF SessionInv, SessionType
<1>3. \A i \in PortsOf[link] : version[link][i] \in Nat
  BY Zenon, <1>2 DEF Configurations
<1>4. Configs(S) = [i \in S \intersect PortsOf[link] |-> version[link][i]]
  BY Zenon, <1>1 DEF Configs, Restrict
<1>5. Configs(S) \in [S \intersect PortsOf[link] -> Nat] /\ S \intersect PortsOf[link] \in SUBSET Ids
  BY Zenon, <1>1, <1>3, <1>4
<1> QED
  BY Zenon, <1>4, <1>5 DEF Configurations

\* A message is a notification or an answer.
LEMMA MessageFacts ==
  /\ \A i \in Ids : Notice(i) \in Messages /\ Notice(i).kind = "notice"
  /\ \A f \in Configurations : /\ AnswerOf(f) \in Messages /\ AnswerOf(f).kind = "answer"
                               /\ AnswerOf(f).configs = f
<1>1. \A i \in Ids : Notice(i) \in Messages
  BY Zenon DEF Messages
<1>2. \A f \in Configurations : AnswerOf(f) \in Messages
  BY Zenon DEF Messages
<1>3. \A i \in Ids : Notice(i).kind = "notice"
  BY DEF Notice
<1>4. \A f \in Configurations : AnswerOf(f).kind = "answer" /\ AnswerOf(f).configs = f
  BY DEF AnswerOf
<1> QED
  BY Zenon, <1>1, <1>2, <1>3, <1>4

\* A wire with one more message
LEMMA AppendFacts ==
  ASSUME NEW q \in Seq(Messages), NEW x \in Messages, NEW w, w = Append(q, x)
  PROVE  /\ w \in Seq(Messages)
         /\ \A n : n \in 1..Len(w) <=> n \in 1..Len(q) \/ n = Len(q) + 1
         /\ w[Len(q) + 1] = x
         /\ \A n \in 1..Len(q) : w[n] = q[n] /\ n # Len(q) + 1
  OBVIOUS

\* What is left of a sequence after its first n elements
LEMMA RestFacts ==
  ASSUME NEW S, NEW q \in Seq(S), NEW n \in 1..Len(q)
  PROVE  /\ SubSeq(q, n + 1, Len(q)) \in Seq(S)
         /\ \A k \in 1..Len(SubSeq(q, n + 1, Len(q))) :
              n + k \in 1..Len(q) /\ n + k # n /\ SubSeq(q, n + 1, Len(q))[k] = q[n + k]
<1>1. /\ SubSeq(q, n + 1, Len(q)) \in Seq(S) /\ Len(SubSeq(q, n + 1, Len(q))) = Len(q) - n
      /\ \A k \in 1..Len(q) - n : SubSeq(q, n + 1, Len(q))[k] = q[n + k]
  OBVIOUS
<1>2. \A k \in 1..Len(q) - n : n + k \in 1..Len(q) /\ n + k # n
  OBVIOUS
<1> QED
  BY <1>1, <1>2

\* The empty wire
LEMMA EmptyFacts == <<>> \in Seq(Messages) /\ 1..Len(<<>>) = {}
  OBVIOUS

-----------------------------------------------------------------------------
(* What the steps do with the wire                                         *)

\* A step that leaves the connection alone and does not come to the configurations
LEMMA WireSame ==
  ASSUME SessionInv, UNCHANGED <<link, wire, answered, listening>>,
         pc' = "configs" => pc = "configs"
  PROVE  WireOK'
  BY Zenon DEF SessionInv, WireOK, IsAnswer

\* A step that drops the connection
LEMMA WireEmpty ==
  ASSUME wire' = <<>>, answered' = FALSE, listening' = FALSE
  PROVE  WireOK' /\ wire' \in Seq(Messages) /\ answered' \in BOOLEAN /\ listening' \in BOOLEAN
<1>1. \A n \in 1..Len(wire') : FALSE
  BY Zenon, EmptyFacts
<1>2. WireOK'
  BY Zenon, <1>1 DEF WireOK
<1> QED
  BY Zenon, <1>2, EmptyFacts

\* The answer that a call returns is that of the server the session is connected to,
\* and the only one.
LEMMA AnsweredFacts ==
  ASSUME SessionInv, Answered
  PROVE  /\ link # None /\ link' = link /\ listening' = listening /\ owed' = owed
         /\ pc \in Calling /\ wire' \in Seq(Messages) /\ ~answered' /\ answered' \in BOOLEAN
         /\ WireOK'
         /\ pc = "configs" => DOMAIN Configuration = PortsOf[link]
<1>1. answered /\ link # None /\ pc \in Calling /\ UNCHANGED <<link, listening, owed>>
      /\ answered' = FALSE /\ wire' = SubSeq(wire, AnswerAt + 1, Len(wire))
  BY Zenon DEF SessionInv, WireOK, Answered
<1>2. \E n \in 1..Len(wire) : wire[n].kind = "answer"
  BY Zenon, <1>1 DEF SessionInv, WireOK, IsAnswer
<1>3. AnswerAt \in 1..Len(wire) /\ wire[AnswerAt].kind = "answer"
  BY Zenon, <1>2 DEF AnswerAt
<1>4. wire \in Seq(Messages)
  BY Zenon DEF SessionInv, SessionType
<1>5. /\ wire' \in Seq(Messages)
      /\ \A k \in 1..Len(wire') : AnswerAt + k \in 1..Len(wire) /\ AnswerAt + k # AnswerAt
                                  /\ wire'[k] = wire[AnswerAt + k]
  <2> HIDE DEF AnswerAt
  <2> QED
    BY Zenon, <1>1, <1>3, <1>4, RestFacts
<1>6. \A k \in 1..Len(wire') : ~IsAnswer(k)'
  <2> SUFFICES ASSUME NEW k \in 1..Len(wire'), wire'[k].kind = "answer" PROVE FALSE
    BY Zenon DEF IsAnswer
  <2>1. IsAnswer(AnswerAt + k) /\ IsAnswer(AnswerAt)
    BY Zenon, <1>3, <1>5 DEF IsAnswer
  <2> QED
    BY Zenon, <1>3, <1>5, <2>1 DEF SessionInv, WireOK
<1>7. WireOK'
  BY Zenon, <1>1, <1>6 DEF WireOK
<1>8. pc = "configs" => DOMAIN Configuration = PortsOf[link]
  BY Zenon, <1>3 DEF SessionInv, WireOK, IsAnswer, Configuration
<1> QED
  BY Zenon, <1>1, <1>5, <1>7, <1>8

-----------------------------------------------------------------------------
(* The actions keep the invariant                                          *)

\* Changing a port's configuration keeps the ports of every server.
LEMMA ModifyKeeps ==
  ASSUME SessionInv, NEW s \in Servers, NEW i \in PortsOf[s], Modify(s, i)
  PROVE  SessionInv'
<1>1. /\ version' = [version EXCEPT ![s] = [version[s] EXCEPT ![i] = version[s][i] + 1]]
      /\ owed' = (IF s = link THEN owed \union {i} ELSE owed)
      /\ UNCHANGED <<linkVars, holder, barrier, pc, host, ports, pending, localVars, origin>>
  BY DEF Modify
<1>2. version[s] \in Configurations /\ DOMAIN version[s] = PortsOf[s] /\ PortsOf[s] \in SUBSET Ids
  BY Zenon, SessionAssumption DEF SessionInv, SessionType
<1>3. version[s] \in [PortsOf[s] -> Nat]
  BY Zenon, <1>2 DEF Configurations
<1>4. [version[s] EXCEPT ![i] = version[s][i] + 1] \in [PortsOf[s] -> Nat]
  BY <1>3
<1>5. [version[s] EXCEPT ![i] = version[s][i] + 1] \in Configurations
  BY Zenon, <1>2, <1>4 DEF Configurations
<1> DEFINE f == [version[s] EXCEPT ![i] = version[s][i] + 1]
<1>6. f \in Configurations /\ DOMAIN f = PortsOf[s] /\ version' = [version EXCEPT ![s] = f]
  BY Zenon, <1>1, <1>4, <1>5
<1> HIDE DEF f
<1>7. version' \in [Servers -> Configurations] /\ \A r \in Servers : DOMAIN version'[r] = PortsOf[r]
  BY Zenon, <1>6 DEF SessionInv, SessionType
<1>8. owed' \subseteq Ids
  BY Zenon, <1>1, <1>2 DEF SessionInv, SessionType
<1>9. WireOK'
  BY Zenon, <1>1, WireSame DEF linkVars
<1>10. PortsOK'
  BY Zenon, <1>1 DEF SessionInv, PortsOK, linkVars, localVars
<1> QED
  BY Zenon, <1>1, <1>7, <1>8, <1>9, <1>10 DEF SessionInv, SessionType, linkVars

\* A notification is no answer.
LEMMA BroadcastKeeps ==
  ASSUME SessionInv, NEW i \in Ids, Broadcast(i)
  PROVE  SessionInv'
<1>1. /\ owed' = owed \ {i} /\ wire' = (IF listening THEN Append(wire, Notice(i)) ELSE wire)
      /\ UNCHANGED <<version, listening, link, answered, holder, barrier, pc, host, ports,
                     localVars, origin>>
  BY Zenon DEF Broadcast
<1>2. wire \in Seq(Messages) /\ Notice(i) \in Messages /\ Notice(i).kind # "answer"
  BY Zenon, MessageFacts DEF SessionInv, SessionType
<1>3. wire' \in Seq(Messages) /\ WireOK'
  <2>1. CASE ~listening
    BY Zenon, <1>1, <1>2, <2>1, WireSame
  <2>2. CASE listening
    <3>1. /\ wire' \in Seq(Messages)
          /\ \A n : n \in 1..Len(wire') <=> n \in 1..Len(wire) \/ n = Len(wire) + 1
          /\ wire'[Len(wire) + 1] = Notice(i) /\ \A n \in 1..Len(wire) : wire'[n] = wire[n]
      <4>1. wire' = Append(wire, Notice(i))
        BY Zenon, <1>1, <2>2
      <4> QED
        BY <1>2, <4>1, AppendFacts
    <3>2. link # None
      BY Zenon, <2>2 DEF SessionInv, WireOK
    <3>3. \A n \in 1..Len(wire') : IsAnswer(n)' <=> IsAnswer(n)
      <4> SUFFICES ASSUME NEW n \in 1..Len(wire') PROVE IsAnswer(n)' <=> IsAnswer(n)
        BY Zenon
      <4>1. CASE n \in 1..Len(wire)
        BY Zenon, <3>1, <4>1 DEF IsAnswer
      <4>2. CASE n \notin 1..Len(wire)
        BY Zenon, <1>2, <3>1, <4>2 DEF IsAnswer
      <4> QED
        BY Zenon, <4>1, <4>2
    <3>4. \A n \in 1..Len(wire') : IsAnswer(n) => n \in 1..Len(wire) /\ wire'[n] = wire[n]
      BY Zenon, <3>1 DEF IsAnswer
    <3>5. \A n \in 1..Len(wire) : n \in 1..Len(wire')
      BY Zenon, <3>1
    <3>6. answered' <=> \E n \in 1..Len(wire') : IsAnswer(n)'
      BY Zenon, <1>1, <3>3, <3>4, <3>5 DEF SessionInv, WireOK
    <3>7. \A m, n \in 1..Len(wire') : IsAnswer(m)' /\ IsAnswer(n)' => m = n
      BY Zenon, <3>3, <3>4 DEF SessionInv, WireOK
    <3>8. pc' = "configs" =>
            \A n \in 1..Len(wire') : IsAnswer(n)' => DOMAIN wire'[n].configs = PortsOf[link']
      BY Zenon, <1>1, <3>3, <3>4 DEF SessionInv, WireOK
    <3> QED
      BY Zenon, <1>1, <3>1, <3>2, <3>6, <3>7, <3>8 DEF WireOK
  <2> QED
    BY Zenon, <2>1, <2>2
<1>4. PortsOK'
  BY Zenon, <1>1 DEF SessionInv, PortsOK, localVars
<1>5. owed' \subseteq Ids
  BY Zenon, <1>1 DEF SessionInv, SessionType
<1> QED
  BY Zenon, <1>1, <1>3, <1>4, <1>5 DEF SessionInv, SessionType

\* The server's answer to getPortConfig tells the ports it has.
LEMMA ServeKeeps ==
  ASSUME SessionInv, Serve
  PROVE  SessionInv'
<1>1. /\ link # None /\ ~answered /\ answered' = TRUE /\ wire' = Append(wire, AnswerOf(Answer))
      /\ listening' = (listening \/ pc = "version")
      /\ UNCHANGED <<version, owed, link, holder, barrier, pc, host, ports, localVars, origin>>
  BY Zenon DEF Serve, AnswerOf, serverVars
<1>2. Answer \in Configurations /\ (pc = "configs" => DOMAIN Answer = PortsOf[link])
  <2>1. CASE pc = "configs"
    <3>1. Answer = Configs(Known)
      BY Zenon, <2>1 DEF Answer
    <3>2. Known = PortsOf[link]
      BY Zenon, <1>1 DEF Known
    <3> QED
      BY Zenon, <1>1, <3>1, <3>2, ConfigsFacts
  <2>2. CASE pc = "refresh"
    <3>1. Answer = Configs(asked)
      BY Zenon, <2>2 DEF Answer
    <3> QED
      BY Zenon, <1>1, <2>2, <3>1, ConfigsFacts
  <2>3. CASE pc \notin {"configs", "refresh"}
    <3>1. Answer = NoPorts
      BY Zenon, <2>3 DEF Answer
    <3> QED
      BY Zenon, <2>3, <3>1, NoPortsFacts
  <2> QED
    BY Zenon, <2>1, <2>2, <2>3
<1>3. /\ wire \in Seq(Messages) /\ AnswerOf(Answer) \in Messages
      /\ AnswerOf(Answer).kind = "answer" /\ AnswerOf(Answer).configs = Answer
  BY Zenon, <1>2, MessageFacts DEF SessionInv, SessionType
<1>4. /\ wire' \in Seq(Messages)
      /\ \A n : n \in 1..Len(wire') <=> n \in 1..Len(wire) \/ n = Len(wire) + 1
      /\ wire'[Len(wire) + 1] = AnswerOf(Answer)
      /\ \A n \in 1..Len(wire) : wire'[n] = wire[n] /\ n # Len(wire) + 1
  <2>1. wire' = Append(wire, AnswerOf(Answer))
    BY Zenon, <1>1
  <2> QED
    BY <1>3, <2>1, AppendFacts
<1>5. \A n \in 1..Len(wire') : IsAnswer(n)' <=> n = Len(wire) + 1
  <2> SUFFICES ASSUME NEW n \in 1..Len(wire') PROVE IsAnswer(n)' <=> n = Len(wire) + 1
    BY Zenon
  <2>1. CASE n \in 1..Len(wire)
    <3>1. wire[n].kind # "answer"
      BY Zenon, <1>1, <2>1 DEF SessionInv, WireOK, IsAnswer
    <3> QED
      BY Zenon, <1>4, <2>1, <3>1 DEF IsAnswer
  <2>2. CASE n = Len(wire) + 1
    BY Zenon, <1>3, <1>4, <2>2 DEF IsAnswer
  <2> QED
    BY Zenon, <1>4, <2>1, <2>2
<1>6. Len(wire) + 1 \in 1..Len(wire')
  BY Zenon, <1>4
<1>7. pc' = "configs" => \A n \in 1..Len(wire') : IsAnswer(n)' => DOMAIN wire'[n].configs = PortsOf[link']
  <2> SUFFICES ASSUME pc = "configs", NEW n \in 1..Len(wire'), IsAnswer(n)'
                PROVE  DOMAIN wire'[n].configs = PortsOf[link]
    BY Zenon, <1>1
  <2>1. wire'[n] = AnswerOf(Answer)
    BY Zenon, <1>4, <1>5
  <2>2. wire'[n].configs = Answer
    BY Zenon, <1>3, <2>1
  <2> QED
    BY Zenon, <1>2, <2>2
<1>8. WireOK'
  <2>1. link' # None
    BY Zenon, <1>1
  <2>2. \E n \in 1..Len(wire') : IsAnswer(n)'
    BY Zenon, <1>5, <1>6
  <2>3. \A m, n \in 1..Len(wire') : IsAnswer(m)' /\ IsAnswer(n)' => m = n
    BY Zenon, <1>5
  <2> QED
    BY Zenon, <1>1, <1>7, <2>1, <2>2, <2>3 DEF WireOK
<1>9. PortsOK'
  BY Zenon, <1>1 DEF SessionInv, PortsOK, localVars
<1>10. listening' \in BOOLEAN /\ answered' \in BOOLEAN
  BY Zenon, <1>1 DEF SessionInv, SessionType
<1> QED
  BY Zenon, <1>1, <1>4, <1>8, <1>9, <1>10 DEF SessionInv, SessionType

\* Dropping the connection leaves nothing on the wire and nothing owed.
LEMMA UnlinkedFacts ==
  ASSUME Unlinked
  PROVE  /\ link' = None /\ owed' = {} /\ WireOK' /\ wire' \in Seq(Messages)
         /\ answered' \in BOOLEAN /\ listening' \in BOOLEAN
  BY Zenon, WireEmpty DEF Unlinked

\* connect() starts with no connection and no ports.
LEMMA ConnectKeeps ==
  ASSUME SessionInv, NEW t \in Threads, NEW s \in Servers, Connect(t, s)
  PROVE  SessionInv'
<1>1. /\ holder = None /\ holder' = t /\ pc' = "dial" /\ host' = s /\ Unlinked /\ ports' = NoPorts
      /\ UNCHANGED <<version, barrier, asked, staged, borrowed>>
  BY Zenon DEF Connect, localVars
<1>2. /\ link' = None /\ owed' = {} /\ WireOK' /\ wire' \in Seq(Messages)
      /\ answered' \in BOOLEAN /\ listening' \in BOOLEAN
  BY Zenon, <1>1, UnlinkedFacts
<1>3. t # None /\ "dial" \in Locations /\ borrowed = None
  BY Zenon, <1>1, SessionAssumption DEF Locations, SessionInv, PortsOK
<1>4. PortsOK'
  BY Zenon, <1>1, <1>2, <1>3, LocationFacts DEF PortsOK
<1> QED
  BY Zenon, <1>1, <1>2, <1>3, <1>4 DEF SessionInv, SessionType

\* The connection is made, or the operation is over.
LEMMA DialKeeps ==
  ASSUME SessionInv, Dial
  PROVE  SessionInv'
<1>1. /\ pc = "dial" /\ link = None /\ ports = NoPorts /\ wire = <<>> /\ ~answered /\ ~listening
      /\ borrowed = None /\ holder # None
  BY Zenon DEF Dial, SessionInv, PortsOK, WireOK
<1>2. UNCHANGED <<version, owed, listening, wire, answered, barrier, host, ports, pending, origin>>
  BY Zenon DEF Dial, serverVars
<1>3. answered' = FALSE /\ listening' = FALSE /\ wire' = <<>>
  BY Zenon, <1>1, <1>2 DEF SessionInv, SessionType
<1>4. WireOK' /\ wire' \in Seq(Messages) /\ answered' \in BOOLEAN /\ listening' \in BOOLEAN
  BY Zenon, <1>3, WireEmpty
<1>5. CASE link' = host /\ pc' = "version" /\ UNCHANGED <<holder, localVars>>
  <2>1. host # None /\ "version" \in Locations /\ host \in Servers
    BY Zenon, SessionAssumption DEF Locations, SessionInv, SessionType
  <2>2. PortsOK'
    BY Zenon, <1>1, <1>2, <1>5, <2>1 DEF PortsOK, Operating, localVars
  <2> QED
    BY Zenon, <1>2, <1>4, <1>5, <2>1, <2>2 DEF SessionInv, SessionType
<1>6. CASE link' = None /\ Release
  <2>1. PortsOK'
    BY Zenon, <1>1, <1>2, <1>6 DEF PortsOK, Release
  <2>2. "idle" \in Locations
    BY Zenon DEF Locations
  <2> QED
    BY Zenon, <1>2, <1>4, <1>6, <2>1, <2>2 DEF SessionInv, SessionType, Release
<1> QED
  BY Zenon, <1>5, <1>6 DEF Dial

\* A connect that fails leaves no connection and no ports.
LEMMA AbandonKeeps ==
  ASSUME SessionInv, Abandon
  PROVE  SessionInv'
<1>1. Unlinked /\ Release /\ ports' = NoPorts /\ UNCHANGED <<version, barrier, host>>
  BY Zenon DEF Abandon
<1>2. /\ link' = None /\ owed' = {} /\ WireOK' /\ wire' \in Seq(Messages)
      /\ answered' \in BOOLEAN /\ listening' \in BOOLEAN
  BY Zenon, <1>1, UnlinkedFacts
<1>3. PortsOK'
  BY Zenon, <1>1, <1>2 DEF PortsOK, Release
<1>4. "idle" \in Locations
  BY Zenon DEF Locations
<1> QED
  BY Zenon, <1>1, <1>2, <1>3, <1>4 DEF SessionInv, SessionType, Release

\* A step of connect() from one call to the next
LEMMA HydrateKeeps ==
  ASSUME SessionInv, NEW l \in Connecting, Hydrate(l), pc \in Connecting, UNCHANGED ports,
         l = "closure" => DOMAIN staged' = PortsOf[link]
  PROVE  SessionInv'
<1>1. Answered /\ pc' = l /\ UNCHANGED <<version, holder, barrier, host, borrowed>>
  BY Zenon DEF Hydrate
<1>2. /\ link # None /\ link' = link /\ listening' = listening /\ owed' = owed
      /\ wire' \in Seq(Messages) /\ answered' \in BOOLEAN /\ WireOK'
  BY Zenon, <1>1, AnsweredFacts
<1>3. l \in Locations /\ l # "idle" /\ l # "dial" /\ l \notin Operating /\ l \notin {"control", "apply"}
  BY Zenon, LocationFacts DEF Connecting, Operating
<1>4. ports = NoPorts /\ borrowed = None /\ holder # None
  BY Zenon, LocationFacts DEF SessionInv, PortsOK, Connecting
<1>5. PortsOK'
  BY Zenon, <1>1, <1>2, <1>3, <1>4 DEF PortsOK
<1> QED
  BY Zenon, <1>1, <1>2, <1>3, <1>5 DEF SessionInv, SessionType

\* checkVersion, getPortIdList, getPortConfig and the calls of hydratePort: the ports
\* that are staged are those of the server.
LEMMA ConnectingKeeps ==
  ASSUME SessionInv, VersionChecked \/ PortsListed \/ ConfigsRead \/ ClosureRead
  PROVE  SessionInv'
<1> USE DEF Connecting
<1>1. CASE VersionChecked
  <2>1. pc = "version" /\ Hydrate("list") /\ UNCHANGED ports
    BY Zenon, <1>1 DEF VersionChecked
  <2> QED
    BY Zenon, <2>1, HydrateKeeps
<1>2. CASE PortsListed
  <2>1. pc = "list" /\ Hydrate("configs") /\ UNCHANGED ports
    BY Zenon, <1>2 DEF PortsListed
  <2> QED
    BY Zenon, <2>1, HydrateKeeps
<1>3. CASE ConfigsRead
  <2>1. pc = "configs" /\ Hydrate("closure") /\ UNCHANGED ports /\ staged' = Configuration
    BY Zenon, <1>3 DEF ConfigsRead
  <2>2. DOMAIN Configuration = PortsOf[link]
    BY Zenon, <2>1, AnsweredFacts DEF Hydrate
  <2>3. DOMAIN staged' = PortsOf[link]
    BY Zenon, <2>1, <2>2
  <2> QED
    BY Zenon, <2>1, <2>3, HydrateKeeps
<1>4. CASE ClosureRead
  <2>1. pc = "closure" /\ Hydrate("closure") /\ UNCHANGED <<ports, staged>>
    BY Zenon, <1>4 DEF ClosureRead
  <2>2. link # None
    BY Zenon, <2>1, AnsweredFacts DEF Hydrate
  <2>3. DOMAIN staged' = PortsOf[link]
    BY Zenon, <2>1, <2>2 DEF SessionInv, PortsOK
  <2> QED
    BY Zenon, <2>1, <2>3, HydrateKeeps
<1> QED
  BY Zenon, <1>1, <1>2, <1>3, <1>4

\* connect() succeeds: the session has the ports of the server.
LEMMA HydratedKeeps ==
  ASSUME SessionInv, Hydrated
  PROVE  SessionInv'
<1>1. Answered /\ origin' = link /\ Release /\ UNCHANGED <<version, barrier, host>>
  BY Zenon DEF Hydrated
<1>2. /\ link # None /\ link' = link /\ listening' = listening /\ owed' = owed
      /\ wire' \in Seq(Messages) /\ answered' \in BOOLEAN /\ WireOK'
  BY Zenon, <1>1, AnsweredFacts
<1>3. DOMAIN ports' = PortsOf[link]
  <2>1. CASE pc = "closure" /\ ports' = staged
    BY Zenon, <1>2, <2>1 DEF SessionInv, PortsOK
  <2>2. CASE pc = "configs" /\ DOMAIN Configuration = {} /\ ports' = NoPorts
    BY Zenon, <1>1, <2>2, AnsweredFacts, NoPortsFacts
  <2> QED
    BY Zenon, <2>1, <2>2 DEF Hydrated
<1>4. PortsOK'
  BY Zenon, <1>1, <1>2, <1>3 DEF PortsOK, Release, Connecting
<1>5. "idle" \in Locations
  BY Zenon DEF Locations
<1> QED
  BY Zenon, <1>1, <1>2, <1>4, <1>5 DEF SessionInv, SessionType, Release

\* The operation goes on with statistics, or with a port there is.
LEMMA ProceedFacts ==
  ASSUME NEW ps, Proceed(ps)
  PROVE  /\ pc' \in Operating /\ pc' \in Locations /\ pc' # "configs"
         /\ borrowed' # None => pc' \in {"control", "apply"} /\ borrowed' \in DOMAIN ps
<1>1. CASE pc' = "query" /\ borrowed' = None
  BY Zenon, <1>1 DEF Operating, Locations
<1>2. CASE \E i \in DOMAIN ps : pc' \in {"control", "apply"} /\ borrowed' = i
  BY Zenon, <1>2 DEF Operating, Locations
<1> QED
  BY Zenon, <1>1, <1>2 DEF Proceed

\* An operation begins.
LEMMA OperateKeeps ==
  ASSUME SessionInv, NEW t \in Threads, Operate(t) \/ OperateRefresh(t)
  PROVE  SessionInv'
<1>1. /\ holder = None /\ holder' = t
      /\ UNCHANGED <<version, owed, listening, link, wire, answered, barrier, host, ports, origin>>
  BY Zenon DEF Operate, OperateRefresh, serverVars, linkVars
<1>2. /\ pc' \in Operating /\ pc' \in Locations /\ pc' # "configs"
      /\ borrowed' # None => pc' \in {"control", "apply"} /\ borrowed' \in DOMAIN ports
  <2>1. CASE Operate(t)
    BY Zenon, <2>1, ProceedFacts DEF Operate
  <2>2. CASE OperateRefresh(t)
    <3>1. pc' = "refresh" /\ borrowed' = borrowed /\ borrowed = None
      BY Zenon, <1>1, <2>2 DEF OperateRefresh, SessionInv, PortsOK
    <3> QED
      BY Zenon, <3>1 DEF Operating, Locations
  <2> QED
    BY Zenon, <2>1, <2>2
<1>3. WireOK'
  BY Zenon, <1>1, <1>2, WireSame
<1>4. t # None
  BY Zenon, SessionAssumption
<1>5. PortsOK'
  <2>1. pc = "idle"
    BY Zenon, <1>1 DEF SessionInv, PortsOK
  <2>2. pc' # "idle" /\ pc' # "dial" /\ pc' # "closure" /\ pc' \notin Connecting \union {"dial"}
    BY Zenon, <1>2, LocationFacts DEF Connecting
  <2>3. link # None => origin = link /\ DOMAIN ports = PortsOf[link]
    BY Zenon, <2>1 DEF SessionInv, PortsOK
  <2> QED
    BY Zenon, <1>1, <1>2, <1>4, <2>2, <2>3 DEF PortsOK
<1> QED
  BY Zenon, <1>1, <1>2, <1>3, <1>5 DEF SessionInv, SessionType

\* processNotifications() has read configurations; the ports are the same.
LEMMA RefreshKeeps ==
  ASSUME SessionInv, Refresh
  PROVE  SessionInv'
<1>1. /\ pc = "refresh" /\ Answered /\ ports' = Refreshed(Configuration)
      /\ UNCHANGED <<version, barrier, host, origin>>
  BY Zenon DEF Refresh
<1>2. /\ link # None /\ link' = link /\ listening' = listening /\ owed' = owed
      /\ wire' \in Seq(Messages) /\ answered' \in BOOLEAN /\ WireOK'
  BY Zenon, <1>1, AnsweredFacts
<1>3. DOMAIN ports' = DOMAIN ports
  BY Zenon, <1>1 DEF Refreshed
<1>4. origin = link /\ DOMAIN ports = PortsOf[link] /\ holder # None
  BY Zenon, <1>1, <1>2 DEF SessionInv, PortsOK, Operating
<1>5. CASE Proceed(ports) /\ UNCHANGED holder
  <2>1. /\ pc' \in Operating /\ pc' \in Locations
        /\ borrowed' # None => pc' \in {"control", "apply"} /\ borrowed' \in DOMAIN ports
    BY Zenon, <1>5, ProceedFacts
  <2>2. pc' # "idle" /\ pc' # "dial" /\ pc' # "closure" /\ pc' \notin Connecting \union {"dial"}
    BY Zenon, <2>1, LocationFacts DEF Connecting
  <2>3. PortsOK'
    BY Zenon, <1>1, <1>2, <1>3, <1>4, <1>5, <2>1, <2>2 DEF PortsOK
  <2> QED
    BY Zenon, <1>1, <1>2, <1>5, <2>1, <2>3 DEF SessionInv, SessionType
<1>6. CASE Release
  <2>1. PortsOK'
    BY Zenon, <1>1, <1>2, <1>3, <1>4, <1>6 DEF PortsOK, Release, Connecting
  <2>2. "idle" \in Locations
    BY Zenon DEF Locations
  <2> QED
    BY Zenon, <1>1, <1>2, <1>6, <2>1, <2>2 DEF SessionInv, SessionType, Release
<1> QED
  BY Zenon, <1>5, <1>6 DEF Refresh

\* An operation ends: a session that lost its connection has no ports afterwards.
LEMMA LeaveKeeps ==
  ASSUME SessionInv, pc \in Operating, NEW more, Answered \/ Unlinked, Leave(more),
         UNCHANGED <<version, barrier, host>>
  PROVE  SessionInv'
<1>1. Release /\ ClearIfDisconnected(more)
  BY Zenon DEF Leave
<1>2. "idle" \in Locations
  BY Zenon DEF Locations
<1>3. CASE Answered
  <2>1. /\ link # None /\ link' = link /\ listening' = listening /\ owed' = owed
        /\ wire' \in Seq(Messages) /\ answered' \in BOOLEAN /\ WireOK'
    BY Zenon, <1>3, AnsweredFacts
  <2>2. UNCHANGED <<ports, origin>> /\ origin = link /\ DOMAIN ports = PortsOf[link]
    BY Zenon, <1>1, <2>1 DEF ClearIfDisconnected, SessionInv, PortsOK
  <2>3. PortsOK'
    BY Zenon, <1>1, <2>1, <2>2 DEF PortsOK, Release, Connecting
  <2> QED
    BY Zenon, <1>1, <1>2, <2>1, <2>3 DEF SessionInv, SessionType, Release
<1>4. CASE Unlinked
  <2>1. /\ link' = None /\ owed' = {} /\ WireOK' /\ wire' \in Seq(Messages)
        /\ answered' \in BOOLEAN /\ listening' \in BOOLEAN
    BY Zenon, <1>4, UnlinkedFacts
  <2>2. ports' = NoPorts
    BY Zenon, <1>1, <2>1 DEF ClearIfDisconnected
  <2>3. PortsOK'
    BY Zenon, <1>1, <2>1, <2>2 DEF PortsOK, Release
  <2> QED
    BY Zenon, <1>1, <1>2, <2>1, <2>3 DEF SessionInv, SessionType, Release
<1> QED
  BY Zenon, <1>3, <1>4

\* The calls of the operations
LEMMA CallsKeep ==
  ASSUME SessionInv, RefreshFails \/ OperationEnds \/ ApplyGoesOn
  PROVE  SessionInv'
<1>1. CASE RefreshFails
  <2>1. pc \in Operating /\ UNCHANGED <<version, barrier, host>>
    BY Zenon, <1>1 DEF RefreshFails, Operating
  <2> QED
    BY Zenon, <1>1, <2>1, LeaveKeeps DEF RefreshFails, Refused, Broken
<1>2. CASE OperationEnds
  <2>1. pc \in Operating /\ UNCHANGED <<version, barrier, host>>
    BY Zenon, <1>2 DEF OperationEnds, Operating
  <2> QED
    BY Zenon, <1>2, <2>1, LeaveKeeps DEF OperationEnds, Broken
<1>3. CASE ApplyGoesOn
  <2>1. /\ pc = "apply" /\ Answered
        /\ UNCHANGED <<version, holder, barrier, pc, host, ports, staged, borrowed, origin>>
    BY Zenon, <1>3 DEF ApplyGoesOn, localVars
  <2>2. /\ link # None /\ link' = link /\ listening' = listening /\ owed' = owed
        /\ wire' \in Seq(Messages) /\ answered' \in BOOLEAN /\ WireOK'
    BY Zenon, <2>1, AnsweredFacts
  <2>3. PortsOK'
    BY Zenon, <2>1, <2>2 DEF SessionInv, PortsOK
  <2> QED
    BY Zenon, <2>1, <2>2, <2>3 DEF SessionInv, SessionType
<1> QED
  BY Zenon, <1>1, <1>2, <1>3

\* disconnect() and cancel() drop the connection under an operation, and clear the
\* session once no operation runs.
LEMMA InterruptKeeps ==
  ASSUME SessionInv, NEW t \in Threads, Interrupt(t) \/ PassBarrier(t)
  PROVE  SessionInv'
<1>1. CASE Interrupt(t)
  <2>1. /\ barrier' = barrier \union {t} /\ Unlinked
        /\ UNCHANGED <<version, holder, pc, host, ports, staged, borrowed, origin>>
    BY Zenon, <1>1 DEF Interrupt, localVars
  <2>2. /\ link' = None /\ owed' = {} /\ WireOK' /\ wire' \in Seq(Messages)
        /\ answered' \in BOOLEAN /\ listening' \in BOOLEAN
    BY Zenon, <2>1, UnlinkedFacts
  <2>3. barrier' # {} /\ barrier' \subseteq Threads
    BY Zenon, <2>1 DEF SessionInv, SessionType
  <2>4. PortsOK'
    BY Zenon, <2>1, <2>2, <2>3 DEF SessionInv, PortsOK
  <2> QED
    BY Zenon, <2>1, <2>2, <2>3, <2>4 DEF SessionInv, SessionType
<1>2. CASE PassBarrier(t)
  <2>1. /\ holder = None /\ barrier' = barrier \ {t} /\ ClearIfDisconnected({})
        /\ UNCHANGED <<version, owed, listening, link, wire, answered, holder, pc, host, staged, borrowed>>
    BY Zenon, <1>2 DEF PassBarrier, serverVars, linkVars, localVars
  <2>2. WireOK'
    BY Zenon, <2>1, WireSame
  <2>3. pc = "idle" /\ borrowed = None
    BY Zenon, <2>1 DEF SessionInv, PortsOK
  <2>4. IF link = None THEN ports' = NoPorts ELSE UNCHANGED <<ports, origin>>
    BY Zenon, <2>1 DEF ClearIfDisconnected
  <2>5. PortsOK'
    BY Zenon, <2>1, <2>3, <2>4 DEF SessionInv, PortsOK, Connecting
  <2> QED
    BY Zenon, <2>1, <2>2, <2>5 DEF SessionInv, SessionType
<1> QED
  BY Zenon, <1>1, <1>2

-----------------------------------------------------------------------------
(* The theorems                                                            *)

\* A session that was never connected
LEMMA SessionInit == Init => SessionInv
<1> SUFFICES ASSUME Init PROVE SessionInv
  BY Zenon
<1>1. version = [s \in Servers |-> [i \in PortsOf[s] |-> 0]]
  BY Zenon DEF Init
<1>2. \A s \in Servers : [i \in PortsOf[s] |-> 0] \in [PortsOf[s] -> Nat] /\ PortsOf[s] \in SUBSET Ids
  BY SessionAssumption
<1>3. \A s \in Servers : version[s] \in Configurations /\ DOMAIN version[s] = PortsOf[s]
  BY Zenon, <1>1, <1>2 DEF Configurations
<1>4. version \in [Servers -> Configurations]
  BY Zenon, <1>1, <1>3
<1>5. \A n \in 1..Len(wire) : FALSE
  BY Zenon, EmptyFacts DEF Init
<1>6. WireOK
  BY Zenon, <1>5 DEF Init, WireOK
<1>7. PortsOK
  BY Zenon DEF Init, PortsOK, Connecting
<1>8. SessionType
  BY Zenon, <1>3, <1>4, EmptyFacts DEF Init, SessionType, Locations
<1> QED
  BY Zenon, <1>6, <1>7, <1>8 DEF SessionInv

\* The inductive invariant: the state of a session, its connection and its ports.
THEOREM SessionInvariant == Spec => []SessionInv
<1>1. SessionInv /\ [Next]_vars => SessionInv'
  <2> SUFFICES ASSUME SessionInv, [Next]_vars PROVE SessionInv'
    BY Zenon
  <2>1. CASE UNCHANGED vars
    BY Zenon, <2>1 DEF vars, SessionInv, SessionType, WireOK, IsAnswer, PortsOK
  <2>2. CASE \E s \in Servers : \E i \in PortsOf[s] : Modify(s, i)
    BY Zenon, <2>2, ModifyKeeps
  <2>3. CASE \E i \in Ids : Broadcast(i)
    BY Zenon, <2>3, BroadcastKeeps
  <2>4. CASE Serve \/ Abandon \/ RefreshFails
    BY Zenon, <2>4, ServeKeeps, AbandonKeeps, CallsKeep
  <2>5. CASE CallStep
    BY Zenon, <2>5, DialKeeps, ConnectingKeeps, HydratedKeeps, RefreshKeeps, CallsKeep DEF CallStep
  <2>6. CASE \E t \in Threads : \E s \in Servers : Connect(t, s)
    BY Zenon, <2>6, ConnectKeeps
  <2>7. CASE \E t \in Threads : Operate(t) \/ OperateRefresh(t)
    BY Zenon, <2>7, OperateKeeps
  <2>8. CASE \E t \in Threads : Interrupt(t) \/ PassBarrier(t)
    BY Zenon, <2>8, InterruptKeeps
  <2> QED
    BY Zenon, <2>1, <2>2, <2>3, <2>4, <2>5, <2>6, <2>7, <2>8 DEF Next
<1> QED
  BY <1>1, SessionInit, PTL DEF Spec

\* ClientSession: between operations a connected session has the ports of its server
\* and no others, a disconnected one has none, and an operation's port is not taken
\* away under it, whichever threads connect, operate and interrupt.
THEOREM SessionHasItsPorts == Spec => []PortsAreTheServers
<1>1. SessionInv => PortsAreTheServers
  BY Zenon DEF SessionInv, PortsOK, PortsAreTheServers
<1> QED
  BY <1>1, SessionInvariant, PTL

=============================================================================
