---------------------------- MODULE ClientSession ----------------------------
(***************************************************************************)
(* ClientSession: one session object, used by threads that connect it to   *)
(* one server or another, run operations on its ports, and interrupt it,   *)
(* while the servers change the configuration of their ports and notify    *)
(* the session of it.                                                      *)
(*                                                                         *)
(* An operation holds operationMutex_ throughout, so that its local state  *)
(* is kept in single variables.  A call of TcpRpcClient is two steps: the  *)
(* server serves the request (Serve), then the call returns what came over *)
(* the connection up to the answer (the actions named after the callers).  *)
(* Calls that read nothing this module tells apart are one kind of call;   *)
(* hydratePort and apply make any number of them.  What apply does with a  *)
(* port is the subject of PortApply.                                       *)
(***************************************************************************)
EXTENDS Naturals, Sequences, FiniteSets, Functions

CONSTANTS
  Threads, Servers, Ids, None,
  PortsOf,        \* the ports of each server
  MaxVersion      \* bound: changes of the configuration of one port

ASSUME SessionAssumption ==
  /\ None \notin Threads /\ None \notin Servers /\ None \notin Ids
  /\ PortsOf \in [Servers -> SUBSET Ids]
  /\ MaxVersion \in Nat

VARIABLES
  version,     \* by server and port: the configuration the port has
  owed,        \* changed ports of the session's server, not yet broadcast
  listening,   \* the server sends notifications on the connection
  link,        \* the server rpc_ is connected to, or None
  wire,        \* what the server sent on the connection
  answered,    \* the server has served the call that is active
  holder,      \* of operationMutex_
  barrier,     \* threads in disconnect() or cancel(), before the mutex
  pc,          \* where the operation is
  host,        \* host_, endpointPort_
  ports,       \* ports_: the configuration of each port
  pending,     \* pendingNotifications_
  asked,       \* ids of processNotifications
  staged,      \* configurations of hydrate
  borrowed,    \* the port of which apply holds a reference
  origin       \* history: the server ports_ was read from

vars == <<version, owed, listening, link, wire, answered, holder, barrier, pc, host, ports,
          pending, asked, staged, borrowed, origin>>
serverVars == <<version, owed>>
linkVars == <<listening, link, wire, answered>>
localVars == <<asked, staged, borrowed>>

NoPorts == [i \in {} |-> 0]
Known == IF link = None THEN {} ELSE PortsOf[link]
Notice(i) == [kind |-> "notice", id |-> i]
Locations == {"idle", "dial", "version", "list", "configs", "closure", "refresh", "query",
              "control", "apply"}
Calling == Locations \ {"idle", "dial"}

Init ==
  /\ version = [s \in Servers |-> [i \in PortsOf[s] |-> 0]] /\ owed = {}
  /\ listening = FALSE /\ link = None /\ wire = <<>> /\ answered = FALSE
  /\ holder = None /\ barrier = {} /\ pc = "idle" /\ host \in Servers
  /\ ports = NoPorts /\ pending = {} /\ asked = {} /\ staged = NoPorts /\ borrowed = None
  /\ origin = None

-----------------------------------------------------------------------------
(* The server.                                                             *)

\* Another client's modifyPort changes the port, and broadcasts that later.
Modify(s, i) ==
  /\ version[s][i] < MaxVersion
  /\ version' = [version EXCEPT ![s][i] = @ + 1]
  /\ owed' = IF s = link THEN owed \union {i} ELSE owed
  /\ UNCHANGED <<linkVars, holder, barrier, pc, host, ports, pending, localVars, origin>>

Broadcast(i) ==
  /\ i \in owed /\ owed' = owed \ {i}
  /\ wire' = IF listening THEN Append(wire, Notice(i)) ELSE wire
  /\ UNCHANGED <<version, listening, link, answered, holder, barrier, pc, host, ports, pending,
                 localVars, origin>>

\* getPortConfig skips the ids the server does not have.
Configs(ids) == Restrict(version[link], ids \intersect Known)

Answer ==
  CASE pc = "configs" -> Configs(Known)
    [] pc = "refresh" -> Configs(asked)
    [] OTHER -> NoPorts

\* The server turns notifications on when it has answered checkVersion.
Serve ==
  /\ link # None /\ pc \in Calling /\ ~answered
  /\ wire' = Append(wire, [kind |-> "answer", configs |-> Answer])
  /\ answered' = TRUE /\ listening' = (listening \/ pc = "version")
  /\ UNCHANGED <<serverVars, link, holder, barrier, pc, host, ports, pending, localVars, origin>>

-----------------------------------------------------------------------------
(* rpc_.                                                                   *)

Unlinked == link' = None /\ wire' = <<>> /\ answered' = FALSE /\ listening' = FALSE /\ owed' = {}

\* The call returns the answer; the notifications that came before it have
\* gone through the callback (a mismatched one is ignored there).
AnswerAt == CHOOSE n \in 1..Len(wire) : wire[n].kind = "answer"
Heard == IF answered THEN {wire[n].id : n \in 1..(AnswerAt - 1)} ELSE {}
Answered ==
  /\ pc \in Calling /\ answered /\ answered' = FALSE
  /\ wire' = SubSeq(wire, AnswerAt + 1, Len(wire))
  /\ UNCHANGED <<link, listening, owed>>
Configuration == wire[AnswerAt].configs

\* The call fails: the server refused it and the connection goes on, or the
\* connection is lost, if it was not lost already.
Refused == Answered
Broken == Unlinked

-----------------------------------------------------------------------------
(* The ends of the operations.                                             *)

Release == holder' = None /\ pc' = "idle" /\ asked' = {} /\ staged' = NoPorts /\ borrowed' = None

\* clearIfDisconnected() after the notifications more came in.
ClearIfDisconnected(more) ==
  IF link' = None
    THEN ports' = NoPorts /\ pending' = {} /\ origin' = None
    ELSE pending' = pending \union more /\ UNCHANGED <<ports, origin>>

\* ScopeExit clears before the mutex is released.
Leave(more) == Release /\ ClearIfDisconnected(more)

-----------------------------------------------------------------------------
(* connect() and reconnect().                                              *)

Connect(t, s) ==
  /\ holder = None /\ t \notin barrier
  /\ holder' = t /\ pc' = "dial" /\ host' = s
  /\ Unlinked /\ ports' = NoPorts /\ origin' = None
  /\ UNCHANGED <<version, barrier, pending, localVars>>

Dial ==
  /\ pc = "dial"
  /\ \/ link' = host /\ pc' = "version" /\ UNCHANGED <<holder, localVars>>
     \/ link' = None /\ Release
  /\ UNCHANGED <<serverVars, listening, wire, answered, barrier, host, ports, pending, origin>>

\* Mutant: the connection stays when hydrate fails.
AbandonLinked ==
  /\ pc \in {"version", "list", "configs", "closure"}
  /\ (Refused \/ Broken) /\ Leave({})
  /\ UNCHANGED <<version, barrier, host>>

\* checkVersion or hydrate failed: the session disconnects.
Abandon ==
  /\ pc \in {"version", "list", "configs", "closure"}
  /\ Unlinked /\ Release
  /\ ports' = NoPorts /\ pending' = {} /\ origin' = None
  /\ UNCHANGED <<version, barrier, host>>

Hydrate(l) ==
  /\ Answered /\ pc' = l /\ pending' = pending \union Heard
  /\ UNCHANGED <<version, holder, barrier, host, asked, borrowed>>

VersionChecked == pc = "version" /\ Hydrate("list") /\ UNCHANGED <<ports, staged, origin>>
PortsListed == pc = "list" /\ Hydrate("configs") /\ UNCHANGED <<ports, staged, origin>>
ConfigsRead ==
  /\ pc = "configs" /\ answered /\ DOMAIN Configuration # {} /\ Hydrate("closure")
  /\ staged' = Configuration /\ UNCHANGED <<ports, origin>>
\* One of the calls of hydratePort for one of the ports.
ClosureRead == pc = "closure" /\ Hydrate("closure") /\ UNCHANGED <<ports, staged, origin>>
\* The last one, or there are no ports.
Hydrated ==
  /\ Answered
  /\ \/ pc = "closure" /\ ports' = staged
     \/ pc = "configs" /\ DOMAIN Configuration = {} /\ ports' = NoPorts
  /\ origin' = link
  /\ pending' = pending \union Heard
  /\ Release
  /\ UNCHANGED <<version, barrier, host>>

-----------------------------------------------------------------------------
(* apply(), queryStats(), getCapture() and the four control operations:    *)
(* processNotifications() first, then the calls of the operation.          *)

\* The operation goes on when ports_ is ps: with statistics, with a port it
\* found, or not at all because there is no such port.
Proceed(ps) ==
  \/ pc' = "query" /\ borrowed' = None /\ asked' = {} /\ UNCHANGED staged
  \/ \E i \in DOMAIN ps : pc' \in {"control", "apply"} /\ borrowed' = i /\ asked' = {} /\ UNCHANGED staged

Operate(t) ==
  /\ holder = None /\ t \notin barrier /\ pending = {}
  /\ holder' = t /\ Proceed(ports)
  /\ UNCHANGED <<serverVars, linkVars, barrier, host, ports, pending, origin>>

OperateRefresh(t) ==
  /\ holder = None /\ t \notin barrier /\ pending # {}
  /\ holder' = t /\ pc' = "refresh" /\ asked' = pending /\ pending' = {}
  /\ UNCHANGED <<serverVars, linkVars, barrier, host, ports, staged, borrowed, origin>>

\* hydrateConfig for every port that is still known.
Refreshed(ps) == [i \in DOMAIN ports |-> IF i \in DOMAIN ps THEN ps[i] ELSE ports[i]]

Refresh ==
  /\ pc = "refresh" /\ Answered /\ DOMAIN Configuration = asked
  /\ ports' = Refreshed(Configuration) /\ pending' = pending \union Heard
  /\ \/ Proceed(ports) /\ UNCHANGED holder
     \/ Ids \ DOMAIN ports # {} /\ Release
  /\ UNCHANGED <<version, barrier, host, origin>>

\* Mutant: the ids are not kept for the next operation.
RefreshFailsDrops ==
  /\ pc = "refresh"
  /\ \/ Refused /\ Leave(Heard)
     \/ Broken /\ Leave({})
  /\ UNCHANGED <<version, barrier, host>>

\* The configurations are not those that were asked for, or the call failed.
RefreshFails ==
  /\ pc = "refresh"
  /\ \/ Refused /\ Leave(Heard \union asked)
     \/ Broken /\ Leave({})
  /\ UNCHANGED <<version, barrier, host>>

\* An operation on a port makes one call, apply any number of them.
ApplyGoesOn ==
  /\ pc = "apply" /\ Answered /\ pending' = pending \union Heard
  /\ UNCHANGED <<version, holder, barrier, pc, host, ports, localVars, origin>>

OperationEnds ==
  /\ pc \in {"query", "control", "apply"}
  /\ \/ Answered /\ Leave(Heard)
     \/ Broken /\ Leave({})
  /\ UNCHANGED <<version, barrier, host>>

-----------------------------------------------------------------------------
(* disconnect() and cancel(): the call that is active is interrupted       *)
(* first; the session is cleared when the operation is over.               *)

Interrupt(t) ==
  /\ holder # t /\ t \notin barrier /\ barrier' = barrier \union {t}
  /\ Unlinked
  /\ UNCHANGED <<version, holder, pc, host, ports, pending, localVars, origin>>

PassBarrier(t) ==
  /\ t \in barrier /\ holder = None /\ barrier' = barrier \ {t}
  /\ UNCHANGED <<serverVars, linkVars, holder, pc, host, localVars>>
  /\ ClearIfDisconnected({})

CallStep ==
  \/ Dial \/ VersionChecked \/ PortsListed \/ ConfigsRead \/ ClosureRead \/ Hydrated
  \/ Refresh \/ ApplyGoesOn \/ OperationEnds

Next ==
  \/ \E s \in Servers : \E i \in PortsOf[s] : Modify(s, i)
  \/ \E i \in Ids : Broadcast(i)
  \/ Serve \/ CallStep \/ Abandon \/ RefreshFails
  \/ \E t \in Threads :
       \/ \E s \in Servers : Connect(t, s)
       \/ Operate(t) \/ OperateRefresh(t) \/ Interrupt(t) \/ PassBarrier(t)

Spec == Init /\ [][Next]_vars

\* The controller polls the statistics for as long as it is connected, calls
\* return, a refresh that is tried again and again succeeds some time, and the
\* server broadcasts what it owes.
FairSpec ==
  /\ Spec
  /\ WF_vars(\E i \in Ids : Broadcast(i)) /\ WF_vars(Serve) /\ WF_vars(CallStep \/ RefreshFails)
  /\ WF_vars(\E t \in Threads : PassBarrier(t))
  /\ SF_vars(\E t \in Threads : Operate(t) \/ OperateRefresh(t))
  /\ SF_vars(Refresh) /\ SF_vars(OperationEnds) /\ SF_vars(Hydrated)

-----------------------------------------------------------------------------
(* Properties.                                                             *)

\* Outside of operations a connected session has all the ports of the server it is
\* connected to and none of another one, however the connections came and went; and
\* once no disconnect() or cancel() is waiting either, a session that is not connected
\* has no ports ("interrupted session ports clear" in the tests).  The port an operation
\* refers to while its calls are made stays in ports_, whoever interrupts the session
\* (the comment in call()).
PortsAreTheServers ==
  /\ holder = None =>
       /\ link # None => origin = link /\ DOMAIN ports = PortsOf[link]
       /\ link = None /\ barrier = {} => ports = NoPorts
  /\ borrowed # None => borrowed \in DOMAIN ports

\* A session asks its server for ports this server has.  (Otherwise the answer
\* is refused, the ids are kept, and every later operation fails the same way.)
AsksForKnownPorts == pc = "refresh" /\ link # None => asked \subseteq Known

\* A session that stays connected, and is polled, ends up with the current
\* configurations, unless it keeps asking for ports of an earlier server.
Catches ==
  <>[](link # None /\ AsksForKnownPorts) => []<>(holder = None /\ \A i \in DOMAIN ports \intersect Known : ports[i] = version[link][i])

=============================================================================
