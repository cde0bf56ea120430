------------------------------ MODULE PortApply ------------------------------
(***************************************************************************)
(* Headless clients that edit their copy of one port (PortState) and bring *)
(* the server to it with ClientSession::apply, each over a session of its  *)
(* own, while transmission on the port starts and stops.                   *)
(*                                                                         *)
(* apply is a sequence of RPCs.  Between two of them the other clients may *)
(* change the port; any of them may be refused; the session may be lost at *)
(* any of them, and the server may carry out the last request of a lost    *)
(* session later, when the client has already connected again.             *)
(***************************************************************************)
EXTENDS PortService, Sequences, FiniteSets

CONSTANTS
  Clients,
  StreamIds, GroupIds,
  Values,        \* contents of streams and device groups
  MaxEdits,      \* bound: edits made by the clients, all together
  MaxDrops       \* bound: sessions lost

Empty == [i \in {} |-> Blank]
ASSUME ApplyAssumption ==
  /\ Blank \in Values
  /\ \A v \in Values : Canon(v) \in Values /\ Canon(Canon(v)) = Canon(v)
  /\ Canon(Blank) = Blank
  /\ "late" \notin Clients
  /\ MaxEdits \in Nat /\ MaxDrops \in Nat

VARIABLES
  port,      \* the port on the server
  late,      \* requests of lost sessions which the server has not carried out
  pc,        \* where each client is
  streams, groups, sync,   \* PortState: desired contents, PortSyncState
  todo,      \* the operations of the plan that are left
  checked,   \* the server found the port not transmitting for the current one
  seen,      \* the answers of the reads
  edits, drops,            \* bounds
  edited,    \* history: device groups edited since the last success
  noise      \* history: others changed the port since the read-back of the last
             \* success (old), since this attempt began (new), since its
             \* read-back began (back)

vars == <<port, late, pc, streams, groups, sync, todo, checked, seen, edits, drops, edited, noise>>
stateVars == <<streams, groups, sync, edited>>
planVars == <<todo, checked, seen>>
boundVars == <<edits, drops>>

Quiet == [old |-> FALSE, new |-> FALSE, back |-> FALSE]
Noisy == [old |-> TRUE, new |-> TRUE, back |-> TRUE]

Operations == {"DeleteDeviceGroups", "AddDeviceGroups", "ModifyDeviceGroups", "RefreshDevices",
               "DeleteStreams", "AddStreams", "ModifyStreams", "ResolveNeighbors", "Build"}
Clean(s, g) == [streams |-> s, groups |-> g, modified |-> {}, dirty |-> FALSE]
NothingSeen == [streamIds |-> {}, streams |-> Empty, groupIds |-> {}]

Init ==
  /\ port = NewPort /\ late = {}
  /\ pc = [c \in Clients |-> "down"]
  /\ streams = [c \in Clients |-> Empty] /\ groups = [c \in Clients |-> Empty]
  /\ sync = [c \in Clients |-> Clean({}, {})]
  /\ todo = [c \in Clients |-> <<>>] /\ checked = [c \in Clients |-> FALSE]
  /\ seen = [c \in Clients |-> NothingSeen]
  /\ edits = 0 /\ drops = 0
  /\ edited = [c \in Clients |-> {}]
  /\ noise = [c \in Clients |-> Quiet]

-----------------------------------------------------------------------------
(* Steps of a client and of the server on its behalf.                      *)

Goto(c, l) == pc' = [pc EXCEPT ![c] = l]
See(c, field, value) == seen' = [seen EXCEPT ![c][field] = value]

\* The server's port becomes p, by a request of c or, c being None of the
\* clients, by a late one.
Serve(c, p) ==
  /\ port' = p
  /\ noise' = [d \in Clients |->
       IF d # c /\ <<p.streams, p.groups>> # <<port.streams, port.groups>>
         THEN Noisy ELSE noise[d]]

\* The state of a session that is gone.
Forget(c) ==
  /\ streams' = [streams EXCEPT ![c] = Empty] /\ groups' = [groups EXCEPT ![c] = Empty]
  /\ sync' = [sync EXCEPT ![c] = Clean({}, {})] /\ edited' = [edited EXCEPT ![c] = {}]
  /\ todo' = [todo EXCEPT ![c] = <<>>] /\ checked' = [checked EXCEPT ![c] = FALSE]
  /\ seen' = [seen EXCEPT ![c] = NothingSeen]

-----------------------------------------------------------------------------
(* ClientSession::connect: hydratePort reads the ids and then the contents *)
(* of the device groups, then those of the streams.                        *)

Connect(c) ==
  /\ pc[c] = "down" /\ Goto(c, "groupIds")
  /\ noise' = [noise EXCEPT ![c] = Quiet]
  /\ UNCHANGED <<port, late, stateVars, planVars, boundVars>>

HydrateGroupIds(c) ==
  /\ pc[c] = "groupIds" /\ Goto(c, "groups")
  /\ See(c, "groupIds", DOMAIN port.groups)
  /\ UNCHANGED <<port, late, stateVars, todo, checked, boundVars, noise>>

\* getDeviceGroupConfig and getStreamConfig skip the ids that are gone.
HydrateGroups(c) ==
  /\ pc[c] = "groups"
  /\ IF seen[c].groupIds \subseteq DOMAIN port.groups
       THEN /\ Goto(c, "streamIds")
            /\ groups' = [groups EXCEPT ![c] = Restrict(port.groups, seen[c].groupIds)]
            /\ UNCHANGED <<streams, sync, edited, planVars>>
       ELSE Goto(c, "down") /\ Forget(c)
  /\ UNCHANGED <<port, late, boundVars, noise>>

HydrateStreamIds(c) ==
  /\ pc[c] = "streamIds" /\ Goto(c, "streams")
  /\ See(c, "streamIds", DOMAIN port.streams)
  /\ UNCHANGED <<port, late, stateVars, todo, checked, boundVars, noise>>

HydrateStreams(c) ==
  /\ pc[c] = "streams"
  /\ IF seen[c].streamIds \subseteq DOMAIN port.streams
       THEN /\ Goto(c, "idle")
            /\ streams' = [streams EXCEPT ![c] = Restrict(port.streams, seen[c].streamIds)]
            /\ sync' = [sync EXCEPT ![c] = Clean(seen[c].streamIds, seen[c].groupIds)]
            /\ seen' = [seen EXCEPT ![c] = NothingSeen]
            /\ UNCHANGED <<groups, edited, todo, checked>>
       ELSE Goto(c, "down") /\ Forget(c)
  /\ UNCHANGED <<port, late, boundVars, noise>>

-----------------------------------------------------------------------------
(* Edits of the desired state (PortState).                                 *)

Edit(c) ==
  /\ pc[c] = "idle" /\ edits < MaxEdits /\ edits' = edits + 1
  /\ UNCHANGED <<port, late, pc, planVars, drops, noise>>

SetStreams(c, s) ==
  /\ streams' = [streams EXCEPT ![c] = s]
  /\ sync' = [sync EXCEPT ![c].dirty = TRUE]
  /\ UNCHANGED <<groups, edited>>

AddStream(c, i, v) ==
  /\ i \notin DOMAIN streams[c] /\ Edit(c)
  /\ SetStreams(c, [Added(streams[c], {i}) EXCEPT ![i] = v])

UpdateStream(c, i, v) ==
  /\ i \in DOMAIN streams[c] /\ Edit(c)
  /\ SetStreams(c, [streams[c] EXCEPT ![i] = v])

DeleteStream(c, i) ==
  /\ i \in DOMAIN streams[c] /\ Edit(c)
  /\ SetStreams(c, Deleted(streams[c], {i}))

\* Mutant: a group that was just added is only marked dirty.
AddDeviceGroupUnmarked(c, i, v) ==
  /\ i \notin DOMAIN groups[c] /\ Edit(c)
  /\ groups' = [groups EXCEPT ![c] = [Added(@, {i}) EXCEPT ![i] = v]]
  /\ sync' = [sync EXCEPT ![c].dirty = TRUE]
  /\ edited' = [edited EXCEPT ![c] = @ \union {i}]
  /\ UNCHANGED streams

\* A group that was just added counts as modified until the read-back.
AddDeviceGroup(c, i, v) ==
  /\ i \notin DOMAIN groups[c] /\ Edit(c)
  /\ groups' = [groups EXCEPT ![c] = [Added(@, {i}) EXCEPT ![i] = v]]
  /\ sync' = [sync EXCEPT ![c].modified = @ \union {i}, ![c].dirty = TRUE]
  /\ edited' = [edited EXCEPT ![c] = @ \union {i}]
  /\ UNCHANGED streams

UpdateDeviceGroup(c, i, v) ==
  /\ i \in DOMAIN groups[c] /\ Edit(c)
  /\ groups' = [groups EXCEPT ![c][i] = v]
  /\ sync' = [sync EXCEPT ![c].modified = @ \union {i}, ![c].dirty = TRUE]
  /\ edited' = [edited EXCEPT ![c] = @ \union {i}]
  /\ UNCHANGED streams

DeleteDeviceGroup(c, i) ==
  /\ i \in DOMAIN groups[c] /\ Edit(c)
  /\ groups' = [groups EXCEPT ![c] = Deleted(@, {i})]
  /\ sync' = [sync EXCEPT ![c].dirty = TRUE]
  /\ edited' = [edited EXCEPT ![c] = @ \union {i}]
  /\ UNCHANGED streams

EditSome(c) ==
  \/ \E i \in StreamIds : DeleteStream(c, i) \/ \E v \in Values : AddStream(c, i, v) \/ UpdateStream(c, i, v)
  \/ \E i \in GroupIds :
       DeleteDeviceGroup(c, i) \/ \E v \in Values : AddDeviceGroup(c, i, v) \/ UpdateDeviceGroup(c, i, v)

-----------------------------------------------------------------------------
(* ClientSession::apply.                                                   *)

newStreams(c) == DOMAIN streams[c] \ sync[c].streams
deletedStreams(c) == sync[c].streams \ DOMAIN streams[c]
newDeviceGroups(c) == DOMAIN groups[c] \ sync[c].groups
deletedDeviceGroups(c) == sync[c].groups \ DOMAIN groups[c]
modifiedDeviceGroups(c) ==
  (sync[c].modified \union newDeviceGroups(c)) \intersect DOMAIN groups[c]

\* ApplyPlan::create for the desired state of c and what is known of the
\* server's: the operations that have work to do, in their fixed order.
When(needed, op) == IF needed THEN <<op>> ELSE <<>>
Planned(c, remoteStreams, remoteGroups) ==
  LET deleted == remoteGroups \ DOMAIN groups[c]
      added == DOMAIN groups[c] \ remoteGroups
      modified == (sync[c].modified \union added) \intersect DOMAIN groups[c]
  IN  When(deleted # {}, "DeleteDeviceGroups")
      \o When(added # {}, "AddDeviceGroups")
      \o When(modified # {}, "ModifyDeviceGroups")
      \o When(deleted \union added \union modified # {}, "RefreshDevices")
      \o When(remoteStreams \ DOMAIN streams[c] # {}, "DeleteStreams")
      \o When(DOMAIN streams[c] \ remoteStreams # {}, "AddStreams")
      \o When(DOMAIN streams[c] # {}, "ModifyStreams")
      \o <<"ResolveNeighbors", "Build">>

Apply(c) ==
  /\ pc[c] = "idle" /\ Goto(c, "baseStreams")
  /\ noise' = [noise EXCEPT ![c].new = FALSE, ![c].back = FALSE]
  /\ UNCHANGED <<port, late, stateVars, planVars, boundVars>>

BaseStreams(c) ==
  /\ pc[c] = "baseStreams" /\ Goto(c, "baseGroups")
  /\ See(c, "streamIds", DOMAIN port.streams)
  /\ UNCHANGED <<port, late, stateVars, todo, checked, boundVars, noise>>

\* Mutant: the plan is made for what the last synchronisation left.
BaseGroupsStale(c) ==
  /\ pc[c] = "baseGroups" /\ Goto(c, "plan")
  /\ todo' = [todo EXCEPT ![c] = Planned(c, sync[c].streams, sync[c].groups)]
  /\ UNCHANGED <<port, late, stateVars, checked, seen, boundVars, noise>>

\* refreshRemoteBaseline, then the plan
BaseGroups(c) ==
  /\ pc[c] = "baseGroups" /\ Goto(c, "plan")
  /\ sync' = [sync EXCEPT ![c].streams = seen[c].streamIds, ![c].groups = DOMAIN port.groups]
  /\ todo' = [todo EXCEPT ![c] = Planned(c, seen[c].streamIds, DOMAIN port.groups)]
  /\ UNCHANGED <<port, late, streams, groups, edited, checked, seen, boundVars, noise>>

\* apply returns an error; the desired state and its marks stay.
Fail(c) ==
  /\ Goto(c, "idle")
  /\ todo' = [todo EXCEPT ![c] = <<>>] /\ checked' = [checked EXCEPT ![c] = FALSE]
  /\ seen' = [seen EXCEPT ![c] = NothingSeen]
  /\ UNCHANGED stateVars

\* The request of the operation op of c; what the server does with it.
Request(c, op) ==
  [op |-> op,
   ids |-> CASE op = "DeleteDeviceGroups" -> deletedDeviceGroups(c)
             [] op = "AddDeviceGroups" -> newDeviceGroups(c)
             [] op = "DeleteStreams" -> deletedStreams(c)
             [] op = "AddStreams" -> newStreams(c)
             [] OTHER -> {},
   contents |-> CASE op = "ModifyDeviceGroups" -> Restrict(groups[c], modifiedDeviceGroups(c))
                  [] op = "ModifyStreams" -> streams[c]
                  [] OTHER -> Empty]
Respond(p, r, valid) ==
  CASE r.op = "DeleteDeviceGroups" -> deleteDeviceGroup(p, r.ids)
    [] r.op = "AddDeviceGroups" -> addDeviceGroup(p, r.ids)
    [] r.op = "ModifyDeviceGroups" -> modifyDeviceGroup(p, r.contents)
    [] r.op = "RefreshDevices" -> [port |-> p, ok |-> TRUE]
    [] r.op = "DeleteStreams" -> deleteStream(p, r.ids)
    [] r.op = "AddStreams" -> addStream(p, r.ids)
    [] r.op = "ModifyStreams" -> modifyStream(p, r.contents)
    [] r.op = "ResolveNeighbors" -> resolveDeviceNeighbors(p)
    [] r.op = "Build" -> build(p, valid)

\* The server looks at isTransmitOn() before it takes the port's lock.
Unchecked == {"RefreshDevices", "ResolveNeighbors"}

PlanCheck(c) ==
  /\ pc[c] = "plan" /\ ~checked[c] /\ Head(todo[c]) \notin Unchecked
  /\ IF port.busy THEN Fail(c)
     ELSE /\ checked' = [checked EXCEPT ![c] = TRUE]
          /\ UNCHANGED <<pc, stateVars, todo, seen>>
  /\ UNCHANGED <<port, late, boundVars, noise>>

PlanAct(c, valid) ==
  /\ pc[c] = "plan" /\ (checked[c] \/ Head(todo[c]) \in Unchecked)
  /\ LET answer == Respond(port, Request(c, Head(todo[c])), valid)
     IN  /\ Serve(c, answer.port)
         /\ IF ~answer.ok THEN Fail(c)
            ELSE /\ todo' = [todo EXCEPT ![c] = Tail(@)]
                 /\ checked' = [checked EXCEPT ![c] = FALSE]
                 /\ Goto(c, IF Len(todo[c]) = 1 THEN "confirmStreamIds" ELSE "plan")
                 /\ UNCHANGED <<stateVars, seen>>
  /\ UNCHANGED <<late, boundVars>>

ConfirmStreamIds(c) ==
  /\ pc[c] = "confirmStreamIds" /\ Goto(c, "confirmStreams")
  /\ See(c, "streamIds", DOMAIN port.streams)
  /\ noise' = [noise EXCEPT ![c].back = FALSE]
  /\ UNCHANGED <<port, late, stateVars, todo, checked, boundVars>>

ConfirmStreams(c) ==
  /\ pc[c] = "confirmStreams" /\ Goto(c, "confirmGroupIds")
  /\ See(c, "streams", Restrict(port.streams, seen[c].streamIds \intersect DOMAIN port.streams))
  /\ UNCHANGED <<port, late, stateVars, todo, checked, boundVars, noise>>

ConfirmGroupIds(c) ==
  /\ pc[c] = "confirmGroupIds" /\ Goto(c, "confirmGroups")
  /\ See(c, "groupIds", DOMAIN port.groups)
  /\ UNCHANGED <<port, late, stateVars, todo, checked, boundVars, noise>>

\* Mutant: only the ids are compared.
ConfirmedIds(c) ==
  /\ seen[c].streamIds = DOMAIN streams[c] /\ DOMAIN seen[c].streams = DOMAIN streams[c]
  /\ seen[c].groupIds = DOMAIN groups[c] /\ seen[c].groupIds \subseteq DOMAIN port.groups

\* The last answer, and the comparison: all the ids, and the contents of the
\* streams, are the desired ones.  The contents of the groups are taken over.
Confirmed(c) ==
  /\ seen[c].streamIds = DOMAIN streams[c] /\ seen[c].streams = streams[c]
  /\ seen[c].groupIds = DOMAIN groups[c] /\ seen[c].groupIds \subseteq DOMAIN port.groups

\* Mutant: the contents of the groups are not taken over.
ConfirmGroupsDesired(c) ==
  /\ pc[c] = "confirmGroups"
  /\ IF Confirmed(c)
       THEN /\ Goto(c, "idle")
            /\ sync' = [sync EXCEPT ![c] = Clean(seen[c].streamIds, seen[c].groupIds)]
            /\ edited' = [edited EXCEPT ![c] = {}]
            /\ noise' = [noise EXCEPT ![c].old = noise[c].back, ![c].new = noise[c].back]
            /\ seen' = [seen EXCEPT ![c] = NothingSeen]
            /\ UNCHANGED <<streams, groups, todo, checked>>
       ELSE Fail(c) /\ UNCHANGED noise
  /\ UNCHANGED <<port, late, boundVars>>

ConfirmGroups(c) ==
  /\ pc[c] = "confirmGroups"
  /\ IF Confirmed(c)
       THEN /\ Goto(c, "idle")
            /\ streams' = [streams EXCEPT ![c] = seen[c].streams]
            /\ groups' = [groups EXCEPT ![c] = Restrict(port.groups, seen[c].groupIds)]
            /\ sync' = [sync EXCEPT ![c] = Clean(seen[c].streamIds, seen[c].groupIds)]
            /\ edited' = [edited EXCEPT ![c] = {}]
            /\ noise' = [noise EXCEPT ![c].old = noise[c].back, ![c].new = noise[c].back]
            /\ seen' = [seen EXCEPT ![c] = NothingSeen]
            /\ UNCHANGED <<todo, checked>>
       ELSE Fail(c) /\ UNCHANGED noise
  /\ UNCHANGED <<port, late, boundVars>>

-----------------------------------------------------------------------------
(* The session is lost: a timeout, a transport error, disconnect() or      *)
(* cancel().  If the server has the request of an operation, it may still  *)
(* carry it out, past its check of isTransmitOn() or not.                  *)

Drop(c) ==
  /\ pc[c] # "down" /\ drops < MaxDrops /\ drops' = drops + 1
  /\ Goto(c, "down") /\ Forget(c)
  /\ \/ late' = late
     \/ /\ pc[c] = "plan"
        /\ late' = late \union {[request |-> Request(c, Head(todo[c])),
                               checked |-> checked[c] \/ Head(todo[c]) \in Unchecked]}
  /\ UNCHANGED <<port, edits, noise>>

LateCheck(r) ==
  /\ ~r.checked
  /\ late' = (late \ {r}) \union (IF port.busy THEN {} ELSE {[r EXCEPT !.checked = TRUE]})
  /\ UNCHANGED <<port, pc, stateVars, planVars, boundVars, noise>>

LateAct(r, valid) ==
  /\ r.checked /\ late' = late \ {r}
  /\ Serve("late", Respond(port, r.request, valid).port)
  /\ UNCHANGED <<pc, stateVars, planVars, boundVars>>

\* The request did not reach the server.
LateLost(r) ==
  /\ late' = late \ {r}
  /\ UNCHANGED <<port, pc, stateVars, planVars, boundVars, noise>>

\* startTransmit and stopTransmit of c; a transmission may also end by itself.
Transmit(c) ==
  /\ pc[c] = "idle"
  /\ Serve(c, (IF port.busy THEN stopTransmit(port) ELSE startTransmit(port)).port)
  /\ UNCHANGED <<late, pc, stateVars, planVars, boundVars>>

TransmitEnds ==
  /\ port.busy /\ port' = stopTransmit(port).port
  /\ UNCHANGED <<late, pc, stateVars, planVars, boundVars, noise>>

ClientStep(c) ==
  \/ Connect(c) \/ HydrateGroupIds(c) \/ HydrateGroups(c) \/ HydrateStreamIds(c) \/ HydrateStreams(c)
  \/ BaseStreams(c) \/ BaseGroups(c) \/ PlanCheck(c) \/ \E valid \in BOOLEAN : PlanAct(c, valid)
  \/ ConfirmStreamIds(c) \/ ConfirmStreams(c) \/ ConfirmGroupIds(c) \/ ConfirmGroups(c)

Next ==
  \/ \E c \in Clients : ClientStep(c) \/ EditSome(c) \/ Apply(c) \/ Transmit(c) \/ Drop(c)
  \/ \E r \in late : LateCheck(r) \/ LateLost(r) \/ \E valid \in BOOLEAN : LateAct(r, valid)
  \/ TransmitEnds

Spec == Init /\ [][Next]_vars

BuildPasses(c) == pc[c] = "plan" /\ Head(todo[c]) = "Build" /\ PlanAct(c, TRUE)

\* The client goes on with what it began, applies again and again, and the
\* build of its streams does not fail for ever.
FairSpec ==
  /\ Spec
  /\ \A c \in Clients :
       WF_vars(ClientStep(c)) /\ WF_vars(Apply(c)) /\ SF_vars(BuildPasses(c))

-----------------------------------------------------------------------------
(* Properties.                                                             *)

\* A client that is not dirty has what the server has, provided nobody else
\* changed the port since the read-back of the apply, or the connect, began that
\* made it so: what others did before that, in the middle of the plan, does no
\* harm.  This is what dirty() promises; the server's own changes of the
\* contents of a group (a mac step of 0 becomes 1) are included.
CleanIsApplied ==
  \A c \in Clients :
    pc[c] = "idle" /\ ~sync[c].dirty /\ ~noise[c].old =>
      port.streams = streams[c] /\ port.groups = groups[c]

\* ClientSession::apply returns success.
Succeeds(c) == pc[c] = "confirmGroups" /\ Confirmed(c) /\ pc'[c] = "idle"

\* An apply that succeeds leaves the server with the desired streams, all of
\* them and no others, and with the desired device groups as the client has them
\* now: whatever other clients added, deleted or changed between its baseline
\* and its operations, and between these and the read-back.  Only a change after
\* the read-back began escapes the comparison.
SuccessIsServed ==
  [][\A c \in Clients :
       Succeeds(c) /\ ~noise[c].back =>
         /\ port'.streams = streams[c]
         /\ DOMAIN port'.groups = DOMAIN groups[c] /\ port'.groups = groups'[c]]_vars

\* Device groups: if nobody else changed the port during an attempt, no edit
\* made since the last success is lost, however many attempts failed half way
\* in between.
NoEditLost ==
  [][\A c \in Clients :
       Succeeds(c) /\ ~noise[c].new =>
         \A i \in edited[c] \intersect DOMAIN groups[c] : groups'[c][i] = Canon(groups[c][i])]_vars

\* Applying again and again gets through, once transmission stays off and
\* nobody else changes the port: what an attempt that failed has done on the
\* server does not make the next one fail, nor does a request that was late.
Converges ==
  \A c \in Clients : <>[](~port.busy /\ ~noise[c].new) => []<>(pc[c] = "idle" /\ ~sync[c].dirty)

=============================================================================
