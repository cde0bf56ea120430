-------------------------- MODULE PortApplyProofs ---------------------------
(***************************************************************************)
(* What PortApply promises of ClientSession::apply, for any number of      *)
(* clients, streams, device groups, edits and lost sessions: a client that *)
(* is not dirty has what the server has, the server has what an apply that *)
(* succeeds was for, and no edit of a device group is lost.  The inductive *)
(* invariant follows a client through connect and apply: as long as nobody *)
(* else changes the port, what the client has read is what the port holds, *)
(* and once its ModifyDeviceGroups was served the port has its groups.     *)
(***************************************************************************)
EXTENDS PortApply, TLAPS

Ids == StreamIds \union GroupIds
Contents == UNION {[S -> Values] : S \in SUBSET Ids}
Requests == [op : Operations, ids : SUBSET Ids, contents : Contents]
Confirming == {"confirmStreamIds", "confirmStreams", "confirmGroupIds", "confirmGroups"}
Up == Confirming \union {"idle", "baseStreams", "baseGroups", "plan"}
Locations == Up \union {"down", "groupIds", "groups", "streamIds", "streams"}

Ports == [streams : Contents, groups : Contents, dirty : BOOLEAN,
          packets : [streams : Contents, groups : Contents], busy : BOOLEAN]
Syncs == [streams : SUBSET Ids, groups : SUBSET Ids, modified : SUBSET Ids, dirty : BOOLEAN]
Seens == [streamIds : SUBSET Ids, streams : Contents, groupIds : SUBSET Ids]
Flags == [old : BOOLEAN, new : BOOLEAN, back : BOOLEAN]

ServerType == port \in Ports /\ late \subseteq [request : Requests, checked : BOOLEAN]
StateType ==
  /\ streams \in [Clients -> Contents] /\ groups \in [Clients -> Contents]
  /\ sync \in [Clients -> Syncs] /\ edited \in [Clients -> SUBSET Ids]
PlanType ==
  /\ pc \in [Clients -> Locations] /\ todo \in [Clients -> Seq(Operations)]
  /\ checked \in [Clients -> BOOLEAN] /\ seen \in [Clients -> Seens]
  /\ noise \in [Clients -> Flags]
ApplyType == ServerType /\ StateType /\ PlanType

\* The marks of the desired state
MarksOK(c) ==
  /\ ~sync[c].dirty => sync[c].modified = {}
  /\ edited[c] \intersect DOMAIN groups[c] \subseteq sync[c].modified
  /\ pc[c] \notin Up => edited[c] = {}
  /\ pc[c] = "plan" => todo[c] # <<>>
  /\ noise[c].new => noise[c].old

\* What connect has read is what the port holds.
HydrationOK(c) ==
  ~noise[c].old =>
    /\ pc[c] \in {"groups", "streamIds", "streams"} => seen[c].groupIds = DOMAIN port.groups
    /\ pc[c] \in {"streamIds", "streams"} => groups[c] = port.groups
    /\ pc[c] = "streams" => seen[c].streamIds = DOMAIN port.streams

\* A clean client has what the port holds, and its plan leaves the port as it is.
CleanOK(c) ==
  ~sync[c].dirty /\ ~noise[c].old =>
    /\ pc[c] \in Up => port.streams = streams[c] /\ port.groups = groups[c]
    /\ pc[c] = "plan" => sync[c].streams = DOMAIN streams[c] /\ sync[c].groups = DOMAIN groups[c]

\* What this attempt of apply has read is what the port holds.
AttemptOK(c) ==
  /\ ~noise[c].new => (pc[c] = "baseGroups" => seen[c].streamIds = DOMAIN port.streams)
  /\ ~noise[c].back =>
    /\ pc[c] = "confirmStreams" => seen[c].streamIds = DOMAIN port.streams
    /\ pc[c] \in {"confirmGroupIds", "confirmGroups"} => seen[c].streams = port.streams
    /\ pc[c] = "confirmGroups" => seen[c].groupIds = DOMAIN port.groups

\* Once ModifyDeviceGroups was served the port has the groups that were edited.
Sent(c) ==
  pc[c] \in Confirming \/ (pc[c] = "plan" /\ "ModifyDeviceGroups" \notin Range(todo[c]))
SentOK(c) ==
  ~noise[c].new /\ Sent(c) =>
    \A i \in edited[c] \intersect DOMAIN groups[c] :
      i \in DOMAIN port.groups /\ port.groups[i] = Canon(groups[c][i])

ClientOK(c) == MarksOK(c) /\ HydrationOK(c) /\ CleanOK(c) /\ AttemptOK(c) /\ SentOK(c)
ApplyInv == ApplyType /\ \A c \in Clients : ClientOK(c)

-----------------------------------------------------------------------------
(* Contents by id, and what the server's methods do with them              *)

\* A function with ids for its domain and values for its contents is one of Contents.
LEMMA ContentsFacts ==
  /\ \A f \in Contents : DOMAIN f \subseteq Ids /\ f \in [DOMAIN f -> Values]
  /\ \A S \in SUBSET Ids : \A f \in [S -> Values] : f \in Contents
  BY Zenon DEF Contents

\* No contents at all
LEMMA EmptyType == Empty \in Contents /\ DOMAIN Empty = {}
<1>1. Empty \in [{} -> Values] /\ {} \in SUBSET Ids /\ DOMAIN Empty = {}
  BY DEF Empty
<1> QED
  BY <1>1, ContentsFacts, Zenon

\* Restricting contents to some of their ids
LEMMA RestrictType ==
  ASSUME NEW f \in Contents, NEW S \in SUBSET DOMAIN f
  PROVE  Restrict(f, S) \in Contents /\ DOMAIN Restrict(f, S) = S
<1>1. Restrict(f, S) \in [S -> Values] /\ S \in SUBSET Ids
  BY ContentsFacts, Zenon DEF Restrict
<1> QED
  BY <1>1, ContentsFacts, Zenon

\* Adding ids, with empty contents where they are new
LEMMA AddedType ==
  ASSUME NEW f \in Contents, NEW S \in SUBSET Ids
  PROVE  Added(f, S) \in Contents /\ DOMAIN Added(f, S) = DOMAIN f \union S
<1>1. Added(f, S) \in [DOMAIN f \union S -> Values] /\ DOMAIN f \union S \in SUBSET Ids
  BY ContentsFacts, ApplyAssumption, Zenon DEF Added
<1> QED
  BY <1>1, ContentsFacts, Zenon

\* Deleting ids
LEMMA DeletedType ==
  ASSUME NEW f \in Contents, NEW S
  PROVE  Deleted(f, S) \in Contents /\ DOMAIN Deleted(f, S) = DOMAIN f \ S
<1>1. DOMAIN f \ S \in SUBSET DOMAIN f
  BY Zenon
<1> QED
  BY <1>1, RestrictType, Zenon DEF Deleted

\* Changing the contents of the ids there are
LEMMA ModifiedType ==
  ASSUME NEW f \in Contents, NEW g, \A i \in DOMAIN g : g[i] \in Values
  PROVE  Modified(f, g) \in Contents /\ DOMAIN Modified(f, g) = DOMAIN f
<1>1. Modified(f, g) \in [DOMAIN f -> Values] /\ DOMAIN f \in SUBSET Ids
  BY ContentsFacts, Zenon DEF Modified
<1> QED
  BY <1>1, ContentsFacts, Zenon

\* A port with other groups
LEMMA PortGroups == \A p \in Ports, f \in Contents : [p EXCEPT !.groups = f] \in Ports
  BY DEF Ports

\* A port with other streams
WithStreams(p, f, b) == [p EXCEPT !.streams = f, !.dirty = b]

\* ... is a port.
LEMMA PortStreams ==
  \A p \in Ports, f \in Contents, b \in BOOLEAN : WithStreams(p, f, b) \in Ports
  BY Zenon DEF Ports, WithStreams

\* A port with its packet list built
LEMMA PortBuilt == \A p \in Ports : updatePacketList(p) \in Ports
  BY Zenon DEF Ports, updatePacketList

\* What a method makes of a port is a port.
LEMMA RespondType ==
  ASSUME NEW p \in Ports, NEW r \in Requests, NEW valid \in BOOLEAN
  PROVE  Respond(p, r, valid).port \in Ports
<1>1. /\ p.streams \in Contents /\ p.groups \in Contents /\ p.dirty \in BOOLEAN
      /\ r.ids \in SUBSET Ids /\ r.contents \in Contents /\ r.op \in Operations
  BY DEF Ports, Requests
<1>2. \A i \in DOMAIN r.contents : r.contents[i] \in Values
  BY <1>1, ContentsFacts, Zenon
<1>3. CASE r.op = "DeleteDeviceGroups"
  <2>1. deleteDeviceGroup(p, r.ids).port = [p EXCEPT !.groups = Deleted(p.groups, r.ids)]
    BY Zenon DEF deleteDeviceGroup
  <2>2. Deleted(p.groups, r.ids) \in Contents
    BY <1>1, DeletedType, Zenon
  <2>3. Respond(p, r, valid) = deleteDeviceGroup(p, r.ids)
    BY <1>3, Zenon DEF Respond
  <2> QED
    BY <2>1, <2>2, <2>3, PortGroups, Zenon
<1>4. CASE r.op = "AddDeviceGroups"
  <2>1. addDeviceGroup(p, r.ids).port = [p EXCEPT !.groups = Added(p.groups, r.ids)]
    BY Zenon DEF addDeviceGroup
  <2>2. Added(p.groups, r.ids) \in Contents
    BY <1>1, AddedType, Zenon
  <2>3. Respond(p, r, valid) = addDeviceGroup(p, r.ids)
    BY <1>4, Zenon DEF Respond
  <2> QED
    BY <2>1, <2>2, <2>3, PortGroups, Zenon
<1>5. CASE r.op = "ModifyDeviceGroups"
  <2> DEFINE canon == [i \in DOMAIN r.contents |-> Canon(r.contents[i])]
  <2>1. modifyDeviceGroup(p, r.contents).port = [p EXCEPT !.groups = Modified(p.groups, canon)]
    BY Zenon DEF modifyDeviceGroup
  <2>2. \A i \in DOMAIN canon : canon[i] \in Values
    BY <1>2, ApplyAssumption, Zenon
  <2> HIDE DEF canon
  <2>3. Modified(p.groups, canon) \in Contents
    BY <1>1, <2>2, ModifiedType, Zenon
  <2>4. Respond(p, r, valid) = modifyDeviceGroup(p, r.contents)
    BY <1>5, Zenon DEF Respond
  <2> QED
    BY <2>1, <2>3, <2>4, PortGroups, Zenon
<1>6. CASE r.op = "RefreshDevices"
  BY <1>6, Zenon DEF Respond
<1>7. CASE r.op = "DeleteStreams"
  <2>1. PICK b \in BOOLEAN :
          deleteStream(p, r.ids).port = WithStreams(p, Deleted(p.streams, r.ids), b)
    BY Zenon DEF deleteStream, WithStreams
  <2>2. Deleted(p.streams, r.ids) \in Contents
    BY <1>1, DeletedType, Zenon
  <2>3. Respond(p, r, valid) = deleteStream(p, r.ids)
    BY <1>7, Zenon DEF Respond
  <2> QED
    BY <2>1, <2>2, <2>3, PortStreams
<1>8. CASE r.op = "AddStreams"
  <2>1. PICK b \in BOOLEAN :
          addStream(p, r.ids).port = WithStreams(p, Added(p.streams, r.ids), b)
    BY Zenon DEF addStream, WithStreams
  <2>2. Added(p.streams, r.ids) \in Contents
    BY <1>1, AddedType, Zenon
  <2>3. Respond(p, r, valid) = addStream(p, r.ids)
    BY <1>8, Zenon DEF Respond
  <2> QED
    BY <2>1, <2>2, <2>3, PortStreams
<1>9. CASE r.op = "ModifyStreams"
  <2>1. PICK b \in BOOLEAN :
          modifyStream(p, r.contents).port =
            WithStreams(p, Modified(p.streams, r.contents), b)
    BY Zenon DEF modifyStream, WithStreams
  <2>2. Modified(p.streams, r.contents) \in Contents
    BY <1>1, <1>2, ModifiedType, Zenon
  <2>3. Respond(p, r, valid) = modifyStream(p, r.contents)
    BY <1>9, Zenon DEF Respond
  <2> QED
    BY <2>1, <2>2, <2>3, PortStreams
<1>10. CASE r.op = "ResolveNeighbors"
  <2>1. Respond(p, r, valid).port = [p EXCEPT !.dirty = TRUE]
    BY <1>10, Zenon DEF Respond, resolveDeviceNeighbors
  <2>2. [p EXCEPT !.dirty = TRUE] \in Ports
    BY Zenon DEF Ports
  <2> QED
    BY <2>1, <2>2, Zenon
<1>11. CASE r.op = "Build"
  <2>1. Respond(p, r, valid) = build(p, valid)
    BY <1>11, Zenon DEF Respond
  <2> QED
    BY <2>1, PortBuilt DEF build
<1> QED
  BY <1>1, <1>3, <1>4, <1>5, <1>6, <1>7, <1>8, <1>9, <1>10, <1>11, Zenon DEF Operations

-----------------------------------------------------------------------------
(* The plan and its requests                                               *)

\* The operations of a concatenation are those of its parts.
LEMMA ConcatFacts ==
  ASSUME NEW s \in Seq(Operations), NEW t \in Seq(Operations)
  PROVE  s \o t \in Seq(Operations) /\ Range(s) \union Range(t) \subseteq Range(s \o t)
<1>1. s \o t \in Seq(Operations)
  OBVIOUS
<1>2. ASSUME NEW i \in DOMAIN s PROVE s[i] \in Range(s \o t)
  <2>1. i \in DOMAIN (s \o t) /\ (s \o t)[i] = s[i]
    OBVIOUS
  <2> QED
    BY <2>1, Zenon DEF Range
<1>3. ASSUME NEW i \in DOMAIN t PROVE t[i] \in Range(s \o t)
  <2>1. Len(s) + i \in DOMAIN (s \o t) /\ (s \o t)[Len(s) + i] = t[i]
    OBVIOUS
  <2> QED
    BY <2>1, Zenon DEF Range
<1> QED
  BY <1>1, <1>2, <1>3, Zenon DEF Range

\* An operation that is needed is planned.
LEMMA WhenFacts ==
  ASSUME NEW needed, NEW op \in Operations
  PROVE  When(needed, op) \in Seq(Operations) /\ (needed => op \in Range(When(needed, op)))
<1>1. When(needed, op) \in Seq(Operations)
  BY DEF When
<1>2. ASSUME needed PROVE op \in Range(When(needed, op))
  <2>1. When(needed, op) = <<op>>
    BY <1>2, Zenon DEF When
  <2>2. 1 \in DOMAIN <<op>> /\ <<op>>[1] = op
    OBVIOUS
  <2> QED
    BY <2>1, <2>2, Zenon DEF Range
<1> QED
  BY <1>1, <1>2, Zenon

\* ApplyPlan::create: Build is always planned, and ModifyDeviceGroups if a group needs it.
LEMMA PlannedFacts ==
  ASSUME NEW c, NEW rs, NEW rg
  PROVE  /\ Planned(c, rs, rg) \in Seq(Operations) /\ Planned(c, rs, rg) # <<>>
         /\ "ModifyDeviceGroups" \notin Range(Planned(c, rs, rg)) =>
              sync[c].modified \intersect DOMAIN groups[c] = {}
<1> DEFINE deleted == rg \ DOMAIN groups[c]
           added == DOMAIN groups[c] \ rg
           modified == (sync[c].modified \union added) \intersect DOMAIN groups[c]
           a == When(deleted # {}, "DeleteDeviceGroups")
           b == When(added # {}, "AddDeviceGroups")
           m == When(modified # {}, "ModifyDeviceGroups")
           r == When(deleted \union added \union modified # {}, "RefreshDevices")
           d == When(rs \ DOMAIN streams[c] # {}, "DeleteStreams")
           e == When(DOMAIN streams[c] \ rs # {}, "AddStreams")
           f == When(DOMAIN streams[c] # {}, "ModifyStreams")
           z == <<"ResolveNeighbors", "Build">>
<1>1. Planned(c, rs, rg) = a \o b \o m \o r \o d \o e \o f \o z
  BY Zenon DEF Planned
<1>2. /\ a \in Seq(Operations) /\ b \in Seq(Operations) /\ m \in Seq(Operations)
      /\ r \in Seq(Operations) /\ d \in Seq(Operations) /\ e \in Seq(Operations)
      /\ f \in Seq(Operations)
  BY WhenFacts, Zenon DEF Operations
<1>3. z \in Seq(Operations) /\ "Build" \in Range(z)
  <2>1. z \in Seq(Operations) /\ 2 \in DOMAIN z /\ z[2] = "Build"
    BY DEF Operations
  <2> QED
    BY <2>1, Zenon DEF Range
<1>4. modified # {} => "ModifyDeviceGroups" \in Range(m)
  BY WhenFacts, Zenon DEF Operations
<1>5. sync[c].modified \intersect DOMAIN groups[c] \subseteq modified
  BY Zenon
<1> HIDE DEF a, b, m, r, d, e, f, z, modified
<1>6. a \o b \o m \in Seq(Operations) /\ Range(m) \subseteq Range(a \o b \o m)
  BY <1>2, ConcatFacts, Zenon
<1>7. /\ a \o b \o m \o r \in Seq(Operations)
      /\ Range(m) \subseteq Range(a \o b \o m \o r)
  BY <1>2, <1>6, ConcatFacts, Zenon
<1>8. /\ a \o b \o m \o r \o d \in Seq(Operations)
      /\ Range(m) \subseteq Range(a \o b \o m \o r \o d)
  BY <1>2, <1>7, ConcatFacts, Zenon
<1>9. /\ a \o b \o m \o r \o d \o e \in Seq(Operations)
      /\ Range(m) \subseteq Range(a \o b \o m \o r \o d \o e)
  BY <1>2, <1>8, ConcatFacts, Zenon
<1>10. /\ a \o b \o m \o r \o d \o e \o f \in Seq(Operations)
       /\ Range(m) \subseteq Range(a \o b \o m \o r \o d \o e \o f)
  BY <1>2, <1>9, ConcatFacts, Zenon
<1>11. /\ Planned(c, rs, rg) \in Seq(Operations)
       /\ Range(m) \union Range(z) \subseteq Range(Planned(c, rs, rg))
  BY <1>1, <1>3, <1>10, ConcatFacts, Zenon
<1>12. Range(<<>>) = {}
  BY DEF Range
<1>13. Planned(c, rs, rg) # <<>>
  BY <1>3, <1>11, <1>12, Zenon
<1> QED
  BY <1>4, <1>5, <1>11, <1>13, Zenon

\* The request of an operation of the plan
LEMMA RequestType ==
  ASSUME ApplyType, NEW c \in Clients, NEW op \in Operations
  PROVE  Request(c, op) \in Requests
<1>1. /\ streams[c] \in Contents /\ groups[c] \in Contents /\ sync[c] \in Syncs
  BY Zenon DEF ApplyType, StateType
<1>2. /\ sync[c].streams \in SUBSET Ids /\ sync[c].groups \in SUBSET Ids
  BY <1>1 DEF Syncs
<1>3. DOMAIN streams[c] \in SUBSET Ids /\ DOMAIN groups[c] \in SUBSET Ids
  BY <1>1, ContentsFacts, Zenon
<1>4. Request(c, op).ids \in SUBSET Ids
  BY <1>2, <1>3, Zenon DEF Request, deletedDeviceGroups, newDeviceGroups, deletedStreams, newStreams
<1>5. Empty \in Contents
  BY EmptyType
<1>6. Restrict(groups[c], modifiedDeviceGroups(c)) \in Contents
  BY <1>1, RestrictType, Zenon DEF modifiedDeviceGroups
<1>7. Request(c, op).contents \in Contents
  BY <1>1, <1>5, <1>6, Zenon DEF Request
<1>8. \E i, x : Request(c, op) = [op |-> op, ids |-> i, contents |-> x]
  BY Zenon DEF Request
<1> QED
  BY <1>4, <1>7, <1>8 DEF Requests

\* What the method that serves an operation makes of the streams and the groups
Effect(p, r, a) ==
  /\ r.op = "DeleteDeviceGroups" => a.port.groups = Deleted(p.groups, r.ids)
  /\ r.op = "AddDeviceGroups" => a.port.groups = Added(p.groups, r.ids)
  /\ r.op = "ModifyDeviceGroups" =>
       /\ a.port.groups = Modified(p.groups, [i \in DOMAIN r.contents |-> Canon(r.contents[i])])
       /\ a.ok = (DOMAIN r.contents \subseteq DOMAIN p.groups)
  /\ r.op \notin {"DeleteDeviceGroups", "AddDeviceGroups", "ModifyDeviceGroups"} =>
       a.port.groups = p.groups
  /\ r.op = "DeleteStreams" => a.port.streams = Deleted(p.streams, r.ids)
  /\ r.op = "AddStreams" => a.port.streams = Added(p.streams, r.ids)
  /\ r.op = "ModifyStreams" => a.port.streams = Modified(p.streams, r.contents)
  /\ r.op \notin {"DeleteStreams", "AddStreams", "ModifyStreams"} => a.port.streams = p.streams

\* Respond does that, whether the names are valid or not.
LEMMA RespondEffect ==
  ASSUME NEW p \in Ports, NEW r \in Requests, NEW valid
  PROVE  Effect(p, r, Respond(p, r, valid))
<1> USE DEF Effect
<1> DEFINE a == Respond(p, r, valid)
           canon == [i \in DOMAIN r.contents |-> Canon(r.contents[i])]
<1>1. r.op \in Operations
  BY DEF Requests
<1>2. \A f : [p EXCEPT !.groups = f].groups = f /\ [p EXCEPT !.groups = f].streams = p.streams
  BY DEF Ports
<1>3. \A f, b : WithStreams(p, f, b).streams = f /\ WithStreams(p, f, b).groups = p.groups
  BY DEF Ports, WithStreams
<1>4. CASE r.op = "DeleteDeviceGroups"
  <2>1. a.port = [p EXCEPT !.groups = Deleted(p.groups, r.ids)]
    BY <1>4, Zenon DEF Respond, deleteDeviceGroup
  <2> QED
    BY <1>2, <1>4, <2>1, Zenon
<1>5. CASE r.op = "AddDeviceGroups"
  <2>1. a.port = [p EXCEPT !.groups = Added(p.groups, r.ids)]
    BY <1>5, Zenon DEF Respond, addDeviceGroup
  <2> QED
    BY <1>2, <1>5, <2>1, Zenon
<1>6. CASE r.op = "ModifyDeviceGroups"
  <2>1. a.port = [p EXCEPT !.groups = Modified(p.groups, canon)]
    BY <1>6, Zenon DEF Respond, modifyDeviceGroup
  <2>2. a.ok = (DOMAIN r.contents \subseteq DOMAIN p.groups)
    BY <1>6, Zenon DEF Respond, modifyDeviceGroup
  <2> QED
    BY <1>2, <1>6, <2>1, <2>2, Zenon
<1>7. CASE r.op = "RefreshDevices"
  <2>1. a.port = p
    BY <1>7, Zenon DEF Respond
  <2> QED
    BY <1>7, <2>1, Zenon
<1>8. CASE r.op = "DeleteStreams"
  <2>1. a = deleteStream(p, r.ids)
    BY <1>8, Zenon DEF Respond
  <2>2. \E b \in BOOLEAN : deleteStream(p, r.ids).port = WithStreams(p, Deleted(p.streams, r.ids), b)
    BY Zenon DEF deleteStream, WithStreams
  <2> QED
    BY <1>3, <1>8, <2>1, <2>2
<1>9. CASE r.op = "AddStreams"
  <2>1. a = addStream(p, r.ids)
    BY <1>9, Zenon DEF Respond
  <2>2. \E b \in BOOLEAN : addStream(p, r.ids).port = WithStreams(p, Added(p.streams, r.ids), b)
    BY Zenon DEF addStream, WithStreams
  <2> QED
    BY <1>3, <1>9, <2>1, <2>2
<1>10. CASE r.op = "ModifyStreams"
  <2>1. a = modifyStream(p, r.contents)
    BY <1>10, Zenon DEF Respond
  <2>2. \E b \in BOOLEAN : modifyStream(p, r.contents).port = WithStreams(p, Modified(p.streams, r.contents), b)
    BY Zenon DEF modifyStream, WithStreams
  <2> QED
    BY <1>3, <1>10, <2>1, <2>2
<1>11. CASE r.op = "ResolveNeighbors"
  <2>1. a.port = [p EXCEPT !.dirty = TRUE]
    BY <1>11, Zenon DEF Respond, resolveDeviceNeighbors
  <2>2. [p EXCEPT !.dirty = TRUE].groups = p.groups /\ [p EXCEPT !.dirty = TRUE].streams = p.streams
    BY DEF Ports
  <2> QED
    BY <1>11, <2>1, <2>2, Zenon
<1>12. CASE r.op = "Build"
  <2>1. a.port = p \/ a.port = updatePacketList(p)
    BY <1>12, Zenon DEF Respond, build
  <2>2. updatePacketList(p).groups = p.groups /\ updatePacketList(p).streams = p.streams
    BY DEF Ports, updatePacketList
  <2> QED
    BY <1>12, <2>1, <2>2, Zenon
<1> QED
  BY <1>1, <1>4, <1>5, <1>6, <1>7, <1>8, <1>9, <1>10, <1>11, <1>12, Zenon DEF Operations

\* Deleting and adding nothing, and modifying to what is there, changes nothing.
LEMMA NoEffect ==
  ASSUME NEW f \in Contents
  PROVE  /\ Deleted(f, {}) = f /\ Added(f, {}) = f
         /\ \A g : (\A i \in DOMAIN g \intersect DOMAIN f : g[i] = f[i]) => Modified(f, g) = f
         /\ Restrict(f, DOMAIN f) = f
<1>1. f = [i \in DOMAIN f |-> f[i]]
  BY ContentsFacts, Zenon
<1>2. Restrict(f, DOMAIN f) = f /\ DOMAIN f \ {} = DOMAIN f /\ DOMAIN f \union {} = DOMAIN f
  BY <1>1, Zenon DEF Restrict
<1>3. Deleted(f, {}) = f
  BY <1>2, Zenon DEF Deleted
<1>4. Added(f, {}) = f
  <2>1. Added(f, {}) = [i \in DOMAIN f |-> IF i \in DOMAIN f THEN f[i] ELSE Blank]
    BY <1>2, Zenon DEF Added
  <2>2. \A i \in DOMAIN f : (IF i \in DOMAIN f THEN f[i] ELSE Blank) = f[i]
    BY Zenon
  <2> QED
    BY <1>1, <2>1, <2>2, Zenon
<1>5. ASSUME NEW g, \A i \in DOMAIN g \intersect DOMAIN f : g[i] = f[i]
      PROVE  Modified(f, g) = f
  <2>1. \A i \in DOMAIN f : (IF i \in DOMAIN g THEN g[i] ELSE f[i]) = f[i]
    BY <1>5, Zenon
  <2>2. Modified(f, g) = [i \in DOMAIN f |-> f[i]]
    BY <2>1, Zenon DEF Modified
  <2> QED
    BY <1>1, <2>2, Zenon
<1> QED
  BY <1>2, <1>3, <1>4, <1>5, Zenon

-----------------------------------------------------------------------------
(* The clients a step is not about                                         *)

Same(c) ==
  /\ pc'[c] = pc[c] /\ streams'[c] = streams[c] /\ groups'[c] = groups[c]
  /\ sync'[c] = sync[c] /\ edited'[c] = edited[c] /\ todo'[c] = todo[c] /\ seen'[c] = seen[c]

SamePort == port'.streams = port.streams /\ port'.groups = port.groups

\* A client that did not move is all right while the port has the same contents ...
LEMMA StillOK ==
  ASSUME NEW c \in Clients, ClientOK(c), Same(c), SamePort, noise'[c] = noise[c]
  PROVE  ClientOK(c)'
<1> USE DEF Same, SamePort
<1>1. MarksOK(c)'
  BY Zenon DEF ClientOK, MarksOK
<1>2. HydrationOK(c)'
  BY Zenon DEF ClientOK, HydrationOK
<1>3. CleanOK(c)'
  BY Zenon DEF ClientOK, CleanOK
<1>4. AttemptOK(c)'
  BY Zenon DEF ClientOK, AttemptOK
<1>5. SentOK(c)'
  BY Zenon DEF ClientOK, SentOK, Sent
<1> QED
  BY <1>1, <1>2, <1>3, <1>4, <1>5, Zenon DEF ClientOK

\* ... and, once others have changed the port, it claims nothing of the port any more.
LEMMA NoisyOK ==
  ASSUME NEW c \in Clients, ClientOK(c), Same(c), noise'[c] = Noisy
  PROVE  ClientOK(c)'
<1>1. noise'[c].old /\ noise'[c].new /\ noise'[c].back
  BY DEF Noisy
<1>2. MarksOK(c)'
  BY <1>1, Zenon DEF ClientOK, MarksOK, Same
<1>3. HydrationOK(c)' /\ CleanOK(c)'
  BY <1>1, Zenon DEF HydrationOK, CleanOK
<1>4. AttemptOK(c)' /\ SentOK(c)'
  BY <1>1, Zenon DEF AttemptOK, SentOK
<1> QED
  BY <1>2, <1>3, <1>4, Zenon DEF ClientOK

\* Serving a request of c leaves the others all right.
LEMMA ServeOthers ==
  ASSUME ApplyInv, NEW c, NEW p, Serve(c, p),
         NEW d \in Clients, d # c, Same(d)
  PROVE  ClientOK(d)'
<1>1. CASE <<p.streams, p.groups>> # <<port.streams, port.groups>>
  BY <1>1, NoisyOK, Zenon DEF Serve, Noisy, ApplyInv
<1>2. CASE <<p.streams, p.groups>> = <<port.streams, port.groups>>
  <2>1. p.streams = port.streams /\ p.groups = port.groups
    BY <1>2
  <2>2. SamePort /\ noise'[d] = noise[d]
    BY <1>2, <2>1, Zenon DEF Serve, SamePort
  <2> QED
    BY <2>2, StillOK, Zenon DEF ApplyInv
<1> QED
  BY <1>1, <1>2, Zenon

\* A step of c that leaves the contents of the port alone leaves the others all right.
LEMMA QuietOthers ==
  ASSUME ApplyInv, NEW c \in Clients, ClientOK(c)', UNCHANGED port,
         \A d \in Clients \ {c} : Same(d) /\ noise'[d] = noise[d]
  PROVE  \A d \in Clients : ClientOK(d)'
<1>1. SamePort
  BY Zenon DEF SamePort
<1> QED
  BY <1>1, StillOK, Zenon DEF ApplyInv

-----------------------------------------------------------------------------
(* The reads of connect and apply                                          *)

\* What the types say of a client and of the port
LEMMA TypeFacts ==
  ASSUME ApplyType, NEW c \in Clients
  PROVE  /\ port.streams \in Contents /\ port.groups \in Contents
         /\ DOMAIN port.streams \in SUBSET Ids /\ DOMAIN port.groups \in SUBSET Ids
         /\ streams[c] \in Contents /\ groups[c] \in Contents
         /\ DOMAIN streams[c] \in SUBSET Ids /\ DOMAIN groups[c] \in SUBSET Ids
         /\ sync[c] \in Syncs /\ seen[c] \in Seens /\ edited[c] \in SUBSET Ids
         /\ seen[c].streamIds \in SUBSET Ids /\ seen[c].groupIds \in SUBSET Ids
         /\ seen[c].streams \in Contents
<1>1. port.streams \in Contents /\ port.groups \in Contents
  BY DEF ApplyType, ServerType, Ports
<1>2. /\ streams[c] \in Contents /\ groups[c] \in Contents /\ edited[c] \in SUBSET Ids
      /\ sync[c] \in Syncs /\ seen[c] \in Seens
  BY Zenon DEF ApplyType, StateType, PlanType
<1>3. /\ seen[c].streamIds \in SUBSET Ids /\ seen[c].groupIds \in SUBSET Ids
      /\ seen[c].streams \in Contents
  BY <1>2 DEF Seens
<1>4. \A f \in Contents : DOMAIN f \in SUBSET Ids
  BY ContentsFacts, Zenon
<1> QED
  BY <1>1, <1>2, <1>3, <1>4, Zenon

\* A step that only reads into seen and moves on
Reads(c, l, s) ==
  /\ Goto(c, l) /\ seen' = [seen EXCEPT ![c] = s]
  /\ UNCHANGED <<port, late, stateVars, todo, checked, noise>>

\* Such a step keeps the types, and leaves everything else alone.
LEMMA ReadStep ==
  ASSUME ApplyInv, NEW c \in Clients, NEW l \in Locations, NEW s \in Seens, Reads(c, l, s)
  PROVE  /\ ApplyType' /\ pc'[c] = l /\ seen'[c] = s /\ port' = port
         /\ streams' = streams /\ groups' = groups /\ sync' = sync /\ edited' = edited
         /\ todo' = todo /\ noise' = noise
         /\ \A d \in Clients \ {c} : Same(d) /\ noise'[d] = noise[d]
<1> USE DEF ApplyInv
<1>1. ApplyType'
  BY Zenon DEF ApplyType, ServerType, StateType, PlanType, Reads, Goto, stateVars
<1>2. pc'[c] = l /\ seen'[c] = s
  BY Zenon DEF ApplyType, PlanType, Reads, Goto
<1>3. \A d \in Clients \ {c} : pc'[d] = pc[d] /\ seen'[d] = seen[d]
  BY Zenon DEF ApplyType, PlanType, Reads, Goto
<1> QED
  BY <1>1, <1>2, <1>3, Zenon DEF Reads, Same, stateVars

\* Replacing a field of what was read
LEMMA SeenWith ==
  ASSUME NEW s \in Seens
  PROVE  /\ \A i \in SUBSET Ids :
              /\ [s EXCEPT !["groupIds"] = i] \in Seens
              /\ [s EXCEPT !["groupIds"] = i].groupIds = i
              /\ [s EXCEPT !["groupIds"] = i].streamIds = s.streamIds
              /\ [s EXCEPT !["groupIds"] = i].streams = s.streams
         /\ \A i \in SUBSET Ids :
              /\ [s EXCEPT !["streamIds"] = i] \in Seens
              /\ [s EXCEPT !["streamIds"] = i].streamIds = i
              /\ [s EXCEPT !["streamIds"] = i].groupIds = s.groupIds
         /\ \A f \in Contents :
              /\ [s EXCEPT !["streams"] = f] \in Seens
              /\ [s EXCEPT !["streams"] = f].streams = f
<1>1. \A i \in SUBSET Ids :
        /\ [s EXCEPT !["groupIds"] = i] \in Seens
        /\ [s EXCEPT !["groupIds"] = i].groupIds = i
        /\ [s EXCEPT !["groupIds"] = i].streamIds = s.streamIds
        /\ [s EXCEPT !["groupIds"] = i].streams = s.streams
  BY DEF Seens
<1>2. \A i \in SUBSET Ids :
        /\ [s EXCEPT !["streamIds"] = i] \in Seens
        /\ [s EXCEPT !["streamIds"] = i].streamIds = i
        /\ [s EXCEPT !["streamIds"] = i].groupIds = s.groupIds
  BY DEF Seens
<1>3. \A f \in Contents :
        /\ [s EXCEPT !["streams"] = f] \in Seens
        /\ [s EXCEPT !["streams"] = f].streams = f
  BY DEF Seens
<1> QED
  BY <1>1, <1>2, <1>3, Zenon

\* connect reads the ids of the device groups.
LEMMA HydrateGroupIdsStep ==
  ASSUME ApplyInv, NEW c \in Clients, HydrateGroupIds(c)
  PROVE  ApplyInv'
<1> DEFINE v == DOMAIN port.groups
           s == [seen[c] EXCEPT !["groupIds"] = v]
<1>1. v \in SUBSET Ids /\ seen[c] \in Seens
  BY TypeFacts, Zenon DEF ApplyInv
<1>2. seen' = [seen EXCEPT ![c] = s] /\ pc[c] = "groupIds"
  BY Zenon DEF HydrateGroupIds, See
<1> HIDE DEF v
<1>3. s \in Seens /\ s.groupIds = v
  BY <1>1, SeenWith, Zenon
<1>4. s.streamIds = seen[c].streamIds /\ s.streams = seen[c].streams
  BY <1>1, SeenWith, Zenon
<1> HIDE DEF s
<1>5. Reads(c, "groups", s) /\ "groups" \in Locations
  BY <1>2, Zenon DEF HydrateGroupIds, Reads, Locations, Up, Confirming
<1>6. /\ ApplyType' /\ pc'[c] = "groups" /\ seen'[c] = s /\ port' = port
      /\ streams' = streams /\ groups' = groups /\ sync' = sync /\ edited' = edited
      /\ todo' = todo /\ noise' = noise
      /\ \A d \in Clients \ {c} : Same(d) /\ noise'[d] = noise[d]
  BY <1>3, <1>5, ReadStep, Zenon
<1>7. ClientOK(c)
  BY Zenon DEF ApplyInv
<1>8. MarksOK(c)'
  BY <1>2, <1>6, <1>7, Zenon DEF ClientOK, MarksOK, Up, Confirming
<1>9. HydrationOK(c)'
  BY <1>2, <1>3, <1>4, <1>6, <1>7, Zenon DEF ClientOK, HydrationOK, v
<1>10. CleanOK(c)'
  BY <1>2, <1>6, <1>7, Zenon DEF ClientOK, CleanOK, Up, Confirming
<1>11. AttemptOK(c)'
  BY <1>2, <1>3, <1>4, <1>6, <1>7, Zenon DEF ClientOK, AttemptOK, v
<1>12. SentOK(c)'
  BY <1>2, <1>6, <1>7, Zenon DEF ClientOK, SentOK, Sent, Confirming
<1>13. ClientOK(c)'
  BY <1>8, <1>9, <1>10, <1>11, <1>12, Zenon DEF ClientOK
<1> QED
  BY <1>6, <1>13, QuietOthers, Zenon DEF ApplyInv

\* connect reads the ids of the streams.
LEMMA HydrateStreamIdsStep ==
  ASSUME ApplyInv, NEW c \in Clients, HydrateStreamIds(c)
  PROVE  ApplyInv'
<1> DEFINE v == DOMAIN port.streams
           s == [seen[c] EXCEPT !["streamIds"] = v]
<1>1. v \in SUBSET Ids /\ seen[c] \in Seens
  BY TypeFacts, Zenon DEF ApplyInv
<1>2. seen' = [seen EXCEPT ![c] = s] /\ pc[c] = "streamIds"
  BY Zenon DEF HydrateStreamIds, See
<1> HIDE DEF v
<1>3. s \in Seens /\ s.streamIds = v
  BY <1>1, SeenWith, Zenon
<1>4. s.groupIds = seen[c].groupIds
  BY <1>1, SeenWith, Zenon
<1> HIDE DEF s
<1>5. Reads(c, "streams", s) /\ "streams" \in Locations
  BY <1>2, Zenon DEF HydrateStreamIds, Reads, Locations, Up, Confirming
<1>6. /\ ApplyType' /\ pc'[c] = "streams" /\ seen'[c] = s /\ port' = port
      /\ streams' = streams /\ groups' = groups /\ sync' = sync /\ edited' = edited
      /\ todo' = todo /\ noise' = noise
      /\ \A d \in Clients \ {c} : Same(d) /\ noise'[d] = noise[d]
  BY <1>3, <1>5, ReadStep, Zenon
<1>7. ClientOK(c)
  BY Zenon DEF ApplyInv
<1>8. MarksOK(c)'
  BY <1>2, <1>6, <1>7, Zenon DEF ClientOK, MarksOK, Up, Confirming
<1>9. HydrationOK(c)'
  BY <1>2, <1>3, <1>4, <1>6, <1>7, Zenon DEF ClientOK, HydrationOK, v
<1>10. CleanOK(c)'
  BY <1>2, <1>6, <1>7, Zenon DEF ClientOK, CleanOK, Up, Confirming
<1>11. AttemptOK(c)'
  BY <1>2, <1>3, <1>4, <1>6, <1>7, Zenon DEF ClientOK, AttemptOK, v
<1>12. SentOK(c)'
  BY <1>2, <1>6, <1>7, Zenon DEF ClientOK, SentOK, Sent, Confirming
<1>13. ClientOK(c)'
  BY <1>8, <1>9, <1>10, <1>11, <1>12, Zenon DEF ClientOK
<1> QED
  BY <1>6, <1>13, QuietOthers, Zenon DEF ApplyInv

\* refreshRemoteBaseline reads the ids of the streams.
LEMMA BaseStreamsStep ==
  ASSUME ApplyInv, NEW c \in Clients, BaseStreams(c)
  PROVE  ApplyInv'
<1> DEFINE v == DOMAIN port.streams
           s == [seen[c] EXCEPT !["streamIds"] = v]
<1>1. v \in SUBSET Ids /\ seen[c] \in Seens
  BY TypeFacts, Zenon DEF ApplyInv
<1>2. seen' = [seen EXCEPT ![c] = s] /\ pc[c] = "baseStreams"
  BY Zenon DEF BaseStreams, See
<1> HIDE DEF v
<1>3. s \in Seens /\ s.streamIds = v
  BY <1>1, SeenWith, Zenon
<1>4. s.groupIds = seen[c].groupIds
  BY <1>1, SeenWith, Zenon
<1> HIDE DEF s
<1>5. Reads(c, "baseGroups", s) /\ "baseGroups" \in Locations
  BY <1>2, Zenon DEF BaseStreams, Reads, Locations, Up, Confirming
<1>6. /\ ApplyType' /\ pc'[c] = "baseGroups" /\ seen'[c] = s /\ port' = port
      /\ streams' = streams /\ groups' = groups /\ sync' = sync /\ edited' = edited
      /\ todo' = todo /\ noise' = noise
      /\ \A d \in Clients \ {c} : Same(d) /\ noise'[d] = noise[d]
  BY <1>3, <1>5, ReadStep, Zenon
<1>7. ClientOK(c)
  BY Zenon DEF ApplyInv
<1>8. MarksOK(c)'
  BY <1>2, <1>6, <1>7, Zenon DEF ClientOK, MarksOK, Up, Confirming
<1>9. HydrationOK(c)'
  BY <1>2, <1>3, <1>4, <1>6, <1>7, Zenon DEF ClientOK, HydrationOK, v
<1>10. CleanOK(c)'
  BY <1>2, <1>6, <1>7, Zenon DEF ClientOK, CleanOK, Up, Confirming
<1>11. AttemptOK(c)'
  BY <1>2, <1>3, <1>4, <1>6, <1>7, Zenon DEF ClientOK, AttemptOK, v
<1>12. SentOK(c)'
  BY <1>2, <1>6, <1>7, Zenon DEF ClientOK, SentOK, Sent, Confirming
<1>13. ClientOK(c)'
  BY <1>8, <1>9, <1>10, <1>11, <1>12, Zenon DEF ClientOK
<1> QED
  BY <1>6, <1>13, QuietOthers, Zenon DEF ApplyInv

\* The read-back of the ids of the streams
LEMMA ConfirmStreamIdsStep ==
  ASSUME ApplyInv, NEW c \in Clients, ConfirmStreamIds(c)
  PROVE  ApplyInv'
<1> DEFINE v == DOMAIN port.streams
           s == [seen[c] EXCEPT !["streamIds"] = v]
<1>1. v \in SUBSET Ids /\ seen[c] \in Seens
  BY TypeFacts, Zenon DEF ApplyInv
<1>2. seen' = [seen EXCEPT ![c] = s] /\ pc[c] = "confirmStreamIds"
  BY Zenon DEF ConfirmStreamIds, See
<1> HIDE DEF v
<1>3. s \in Seens /\ s.streamIds = v
  BY <1>1, SeenWith, Zenon
<1>4. s.groupIds = seen[c].groupIds
  BY <1>1, SeenWith, Zenon
<1> HIDE DEF s
<1> DEFINE n == [noise[c] EXCEPT !.back = FALSE]
<1>5. /\ noise' = [noise EXCEPT ![c] = n] /\ pc' = [pc EXCEPT ![c] = "confirmStreams"]
      /\ UNCHANGED <<port, late, streams, groups, sync, edited, todo, checked>>
  BY Zenon DEF ConfirmStreamIds, Goto, stateVars
<1>6. noise[c] \in Flags
  BY Zenon DEF ApplyInv, ApplyType, PlanType
<1>7. n \in Flags /\ n.old = noise[c].old /\ n.new = noise[c].new
  BY <1>6 DEF Flags
<1> HIDE DEF n
<1>8. "confirmStreams" \in Locations
  BY Zenon DEF Locations, Up, Confirming
<1>9. ApplyType'
  BY <1>2, <1>3, <1>5, <1>7, <1>8, Zenon DEF ApplyInv, ApplyType, ServerType, StateType, PlanType
<1>10. pc'[c] = "confirmStreams" /\ seen'[c] = s /\ noise'[c] = n
  BY <1>2, <1>5, Zenon DEF ApplyInv, ApplyType, PlanType
<1>11. \A d \in Clients \ {c} : Same(d) /\ noise'[d] = noise[d]
  BY <1>2, <1>5, Zenon DEF ApplyInv, ApplyType, PlanType, Same
<1>12. ClientOK(c)
  BY Zenon DEF ApplyInv
<1>13. MarksOK(c)'
  BY <1>2, <1>5, <1>10, <1>12, <1>7, Zenon DEF ClientOK, MarksOK, Up, Confirming
<1>14. HydrationOK(c)'
  BY <1>2, <1>3, <1>4, <1>5, <1>10, <1>12, <1>7, Zenon DEF ClientOK, HydrationOK, v
<1>15. CleanOK(c)'
  BY <1>2, <1>5, <1>10, <1>12, <1>7, Zenon DEF ClientOK, CleanOK, Up, Confirming
<1>16. AttemptOK(c)'
  BY <1>2, <1>3, <1>4, <1>5, <1>10, <1>12, <1>7, Zenon DEF ClientOK, AttemptOK, v
<1>17. SentOK(c)'
  BY <1>2, <1>5, <1>10, <1>12, <1>7, Zenon DEF ClientOK, SentOK, Sent, Confirming
<1>18. ClientOK(c)'
  BY <1>13, <1>14, <1>15, <1>16, <1>17, Zenon DEF ClientOK
<1> QED
  BY <1>5, <1>18, <1>9, <1>11, QuietOthers, Zenon DEF ApplyInv

\* The read-back of the streams
LEMMA ConfirmStreamsStep ==
  ASSUME ApplyInv, NEW c \in Clients, ConfirmStreams(c)
  PROVE  ApplyInv'
<1> DEFINE v == Restrict(port.streams, seen[c].streamIds \intersect DOMAIN port.streams)
           s == [seen[c] EXCEPT !["streams"] = v]
<1>1. v \in Contents /\ seen[c] \in Seens
  BY TypeFacts, RestrictType, Zenon DEF ApplyInv
<1>2. seen' = [seen EXCEPT ![c] = s] /\ pc[c] = "confirmStreams"
  BY Zenon DEF ConfirmStreams, See
<1> HIDE DEF v
<1>3. s \in Seens /\ s.streams = v
  BY <1>1, SeenWith, Zenon
<1>4. ~noise[c].back => v = port.streams
  <2>1. ~noise[c].back => seen[c].streamIds \intersect DOMAIN port.streams = DOMAIN port.streams
    BY <1>2, Zenon DEF ApplyInv, ClientOK, AttemptOK
  <2> QED
    BY <2>1, TypeFacts, NoEffect, Zenon DEF v, ApplyInv
<1> HIDE DEF s
<1>5. Reads(c, "confirmGroupIds", s) /\ "confirmGroupIds" \in Locations
  BY <1>2, Zenon DEF ConfirmStreams, Reads, Locations, Up, Confirming
<1>6. /\ ApplyType' /\ pc'[c] = "confirmGroupIds" /\ seen'[c] = s /\ port' = port
      /\ streams' = streams /\ groups' = groups /\ sync' = sync /\ edited' = edited
      /\ todo' = todo /\ noise' = noise
      /\ \A d \in Clients \ {c} : Same(d) /\ noise'[d] = noise[d]
  BY <1>3, <1>5, ReadStep, Zenon
<1>7. ClientOK(c)
  BY Zenon DEF ApplyInv
<1>8. MarksOK(c)'
  BY <1>2, <1>6, <1>7, Zenon DEF ClientOK, MarksOK, Up, Confirming
<1>9. HydrationOK(c)'
  BY <1>2, <1>3, <1>4, <1>6, <1>7, Zenon DEF ClientOK, HydrationOK, v
<1>10. CleanOK(c)'
  BY <1>2, <1>6, <1>7, Zenon DEF ClientOK, CleanOK, Up, Confirming
<1>11. AttemptOK(c)'
  BY <1>2, <1>3, <1>4, <1>6, <1>7, Zenon DEF ClientOK, AttemptOK
<1>12. SentOK(c)'
  BY <1>2, <1>6, <1>7, Zenon DEF ClientOK, SentOK, Sent, Confirming
<1>13. ClientOK(c)'
  BY <1>8, <1>9, <1>10, <1>11, <1>12, Zenon DEF ClientOK
<1> QED
  BY <1>6, <1>13, QuietOthers, Zenon DEF ApplyInv

\* The read-back of the ids of the device groups
LEMMA ConfirmGroupIdsStep ==
  ASSUME ApplyInv, NEW c \in Clients, ConfirmGroupIds(c)
  PROVE  ApplyInv'
<1> DEFINE v == DOMAIN port.groups
           s == [seen[c] EXCEPT !["groupIds"] = v]
<1>1. v \in SUBSET Ids /\ seen[c] \in Seens
  BY TypeFacts, Zenon DEF ApplyInv
<1>2. seen' = [seen EXCEPT ![c] = s] /\ pc[c] = "confirmGroupIds"
  BY Zenon DEF ConfirmGroupIds, See
<1> HIDE DEF v
<1>3. s \in Seens /\ s.groupIds = v
  BY <1>1, SeenWith, Zenon
<1>4. s.streamIds = seen[c].streamIds /\ s.streams = seen[c].streams
  BY <1>1, SeenWith, Zenon
<1> HIDE DEF s
<1>5. Reads(c, "confirmGroups", s) /\ "confirmGroups" \in Locations
  BY <1>2, Zenon DEF ConfirmGroupIds, Reads, Locations, Up, Confirming
<1>6. /\ ApplyType' /\ pc'[c] = "confirmGroups" /\ seen'[c] = s /\ port' = port
      /\ streams' = streams /\ groups' = groups /\ sync' = sync /\ edited' = edited
      /\ todo' = todo /\ noise' = noise
      /\ \A d \in Clients \ {c} : Same(d) /\ noise'[d] = noise[d]
  BY <1>3, <1>5, ReadStep, Zenon
<1>7. ClientOK(c)
  BY Zenon DEF ApplyInv
<1>8. MarksOK(c)'
  BY <1>2, <1>6, <1>7, Zenon DEF ClientOK, MarksOK, Up, Confirming
<1>9. HydrationOK(c)'
  BY <1>2, <1>3, <1>4, <1>6, <1>7, Zenon DEF ClientOK, HydrationOK, v
<1>10. CleanOK(c)'
  BY <1>2, <1>6, <1>7, Zenon DEF ClientOK, CleanOK, Up, Confirming
<1>11. AttemptOK(c)'
  BY <1>2, <1>3, <1>4, <1>6, <1>7, Zenon DEF ClientOK, AttemptOK, v
<1>12. SentOK(c)'
  BY <1>2, <1>6, <1>7, Zenon DEF ClientOK, SentOK, Sent, Confirming
<1>13. ClientOK(c)'
  BY <1>8, <1>9, <1>10, <1>11, <1>12, Zenon DEF ClientOK
<1> QED
  BY <1>6, <1>13, QuietOthers, Zenon DEF ApplyInv

-----------------------------------------------------------------------------
(* The session comes and goes                                              *)

\* A connect that begins has not heard of the port.
LEMMA ConnectStep ==
  ASSUME ApplyInv, NEW c \in Clients, Connect(c)
  PROVE  ApplyInv'
<1>1. /\ pc[c] = "down" /\ pc' = [pc EXCEPT ![c] = "groupIds"]
      /\ noise' = [noise EXCEPT ![c] = Quiet]
      /\ UNCHANGED <<port, late, streams, groups, sync, edited, todo, checked, seen>>
  BY Zenon DEF Connect, Goto, stateVars, planVars
<1>2. Quiet \in Flags /\ ~Quiet.old /\ ~Quiet.new
  BY DEF Quiet, Flags
<1>3. "groupIds" \in Locations
  BY Zenon DEF Locations
<1>4. ApplyType'
  BY <1>1, <1>2, <1>3, Zenon DEF ApplyInv, ApplyType, ServerType, StateType, PlanType
<1>5. pc'[c] = "groupIds" /\ noise'[c] = Quiet
  BY <1>1, Zenon DEF ApplyInv, ApplyType, PlanType
<1>6. \A d \in Clients \ {c} : Same(d) /\ noise'[d] = noise[d]
  BY <1>1, Zenon DEF ApplyInv, ApplyType, PlanType, Same
<1>7. MarksOK(c)
  BY Zenon DEF ApplyInv, ClientOK
<1>8. MarksOK(c)'
  BY <1>1, <1>2, <1>5, <1>7, Zenon DEF MarksOK, Up, Confirming
<1>9. HydrationOK(c)' /\ AttemptOK(c)'
  BY <1>5, Zenon DEF HydrationOK, AttemptOK
<1>10. CleanOK(c)' /\ SentOK(c)'
  BY <1>5, Zenon DEF CleanOK, SentOK, Sent, Up, Confirming
<1>11. ClientOK(c)'
  BY <1>8, <1>9, <1>10, Zenon DEF ClientOK
<1> QED
  BY <1>1, <1>4, <1>6, <1>11, QuietOthers, Zenon DEF ApplyInv

\* The state of a session that is gone
LEMMA DownStep ==
  ASSUME ApplyInv, NEW c \in Clients, Goto(c, "down"), Forget(c), UNCHANGED <<port, noise>>,
         late' \subseteq [request : Requests, checked : BOOLEAN]
  PROVE  ApplyInv'
<1>1. /\ Clean({}, {}) \in Syncs /\ Clean({}, {}).modified = {}
      /\ NothingSeen \in Seens /\ <<>> \in Seq(Operations)
  BY EmptyType DEF Clean, Syncs, NothingSeen, Seens
<1>2. Empty \in Contents /\ "down" \in Locations /\ {} \in SUBSET Ids
  BY EmptyType, Zenon DEF Locations
<1>3. StateType'
  BY <1>1, <1>2, Zenon DEF ApplyInv, ApplyType, StateType, Forget
<1>4. PlanType'
  BY <1>1, <1>2, Zenon DEF ApplyInv, ApplyType, PlanType, Forget, Goto
<1>5. ApplyType'
  BY <1>3, <1>4, Zenon DEF ApplyInv, ApplyType, ServerType
<1>6. pc'[c] = "down" /\ sync'[c] = Clean({}, {}) /\ edited'[c] = {}
  BY Zenon DEF ApplyInv, ApplyType, StateType, PlanType, Forget, Goto
<1>7. \A d \in Clients \ {c} : Same(d) /\ noise'[d] = noise[d]
  BY Zenon DEF ApplyInv, ApplyType, StateType, PlanType, Forget, Goto, Same
<1>8. MarksOK(c)
  BY Zenon DEF ApplyInv, ClientOK
<1>9. MarksOK(c)'
  BY <1>1, <1>6, <1>8, Zenon DEF MarksOK
<1>10. HydrationOK(c)' /\ AttemptOK(c)'
  BY <1>6, Zenon DEF HydrationOK, AttemptOK
<1>11. CleanOK(c)' /\ SentOK(c)'
  BY <1>6, Zenon DEF CleanOK, SentOK, Sent, Up, Confirming
<1>12. ClientOK(c)'
  BY <1>9, <1>10, <1>11, Zenon DEF ClientOK
<1> QED
  BY <1>5, <1>7, <1>12, QuietOthers, Zenon DEF ApplyInv

\* hydratePort takes over the device groups.
LEMMA HydrateGroupsStep ==
  ASSUME ApplyInv, NEW c \in Clients, HydrateGroups(c)
  PROVE  ApplyInv'
<1>1. CASE seen[c].groupIds \subseteq DOMAIN port.groups
  <2> DEFINE g == Restrict(port.groups, seen[c].groupIds)
  <2>1. /\ pc[c] = "groups" /\ pc' = [pc EXCEPT ![c] = "streamIds"]
        /\ groups' = [groups EXCEPT ![c] = g]
        /\ UNCHANGED <<port, late, streams, sync, edited, todo, checked, seen, noise>>
    BY <1>1, Zenon DEF HydrateGroups, Goto, planVars
  <2>2. g \in Contents
    BY <1>1, TypeFacts, RestrictType, Zenon DEF ApplyInv
  <2>3. ~noise[c].old => seen[c].groupIds = DOMAIN port.groups
    BY <2>1, Zenon DEF ApplyInv, ClientOK, HydrationOK
  <2>4. ~noise[c].old => g = port.groups
    BY <2>3, TypeFacts, NoEffect, Zenon DEF ApplyInv
  <2> HIDE DEF g
  <2>5. "streamIds" \in Locations
    BY Zenon DEF Locations
  <2>6. ApplyType'
    BY <2>1, <2>2, <2>5, Zenon DEF ApplyInv, ApplyType, ServerType, StateType, PlanType
  <2>7. pc'[c] = "streamIds" /\ groups'[c] = g
    BY <2>1, Zenon DEF ApplyInv, ApplyType, StateType, PlanType
  <2>8. \A d \in Clients \ {c} : Same(d) /\ noise'[d] = noise[d]
    BY <2>1, Zenon DEF ApplyInv, ApplyType, StateType, PlanType, Same
  <2>9. MarksOK(c)
    BY Zenon DEF ApplyInv, ClientOK
  <2>10. edited[c] = {}
    BY <2>1, <2>9, Zenon DEF MarksOK, Up, Confirming
  <2>11. MarksOK(c)'
    BY <2>1, <2>7, <2>9, <2>10, Zenon DEF MarksOK
  <2>12. HydrationOK(c)'
    BY <2>1, <2>3, <2>4, <2>7, Zenon DEF HydrationOK
  <2>13. CleanOK(c)' /\ AttemptOK(c)' /\ SentOK(c)'
    BY <2>7, Zenon DEF CleanOK, AttemptOK, SentOK, Sent, Up, Confirming
  <2>14. ClientOK(c)'
    BY <2>11, <2>12, <2>13, Zenon DEF ClientOK
  <2> QED
    BY <2>1, <2>6, <2>8, <2>14, QuietOthers, Zenon DEF ApplyInv
<1>2. CASE ~(seen[c].groupIds \subseteq DOMAIN port.groups)
  <2>1. Goto(c, "down") /\ Forget(c) /\ UNCHANGED <<port, noise>> /\ late' = late
    BY <1>2, Zenon DEF HydrateGroups
  <2> QED
    BY <2>1, DownStep, Zenon DEF ApplyInv, ApplyType, ServerType
<1> QED
  BY <1>1, <1>2, Zenon

\* hydratePort takes over the streams: the client is in step with the port.
LEMMA HydrateStreamsStep ==
  ASSUME ApplyInv, NEW c \in Clients, HydrateStreams(c)
  PROVE  ApplyInv'
<1>1. CASE seen[c].streamIds \subseteq DOMAIN port.streams
  <2> DEFINE f == Restrict(port.streams, seen[c].streamIds)
             y == Clean(seen[c].streamIds, seen[c].groupIds)
  <2>1. /\ pc[c] = "streams" /\ pc' = [pc EXCEPT ![c] = "idle"]
        /\ streams' = [streams EXCEPT ![c] = f] /\ sync' = [sync EXCEPT ![c] = y]
        /\ seen' = [seen EXCEPT ![c] = NothingSeen]
        /\ UNCHANGED <<port, late, groups, edited, todo, checked, noise>>
    BY <1>1, Zenon DEF HydrateStreams, Goto
  <2>2. f \in Contents
    BY <1>1, TypeFacts, RestrictType, Zenon DEF ApplyInv
  <2>3. ~noise[c].old => seen[c].streamIds = DOMAIN port.streams /\ groups[c] = port.groups
    BY <2>1, Zenon DEF ApplyInv, ClientOK, HydrationOK
  <2>4. ~noise[c].old => f = port.streams
    BY <2>3, TypeFacts, NoEffect, Zenon DEF ApplyInv
  <2>5. seen[c].streamIds \in SUBSET Ids /\ seen[c].groupIds \in SUBSET Ids
    BY TypeFacts, Zenon DEF ApplyInv
  <2>6. y \in Syncs /\ y.modified = {} /\ NothingSeen \in Seens
    BY <2>5, EmptyType DEF Clean, Syncs, NothingSeen, Seens
  <2> HIDE DEF f, y
  <2>7. "idle" \in Locations
    BY Zenon DEF Locations, Up
  <2>8. ApplyType'
    BY <2>1, <2>2, <2>6, <2>7, Zenon DEF ApplyInv, ApplyType, ServerType, StateType, PlanType
  <2>9. pc'[c] = "idle" /\ streams'[c] = f /\ sync'[c] = y
    BY <2>1, Zenon DEF ApplyInv, ApplyType, StateType, PlanType
  <2>10. \A d \in Clients \ {c} : Same(d) /\ noise'[d] = noise[d]
    BY <2>1, Zenon DEF ApplyInv, ApplyType, StateType, PlanType, Same
  <2>11. MarksOK(c)
    BY Zenon DEF ApplyInv, ClientOK
  <2>12. edited[c] = {}
    BY <2>1, <2>11, Zenon DEF MarksOK, Up, Confirming
  <2>13. MarksOK(c)'
    BY <2>1, <2>6, <2>9, <2>11, <2>12, Zenon DEF MarksOK
  <2>14. CleanOK(c)'
    BY <2>1, <2>3, <2>4, <2>9, Zenon DEF CleanOK
  <2>15. HydrationOK(c)' /\ AttemptOK(c)' /\ SentOK(c)'
    BY <2>9, Zenon DEF HydrationOK, AttemptOK, SentOK, Sent, Confirming
  <2>16. ClientOK(c)'
    BY <2>13, <2>14, <2>15, Zenon DEF ClientOK
  <2> QED
    BY <2>1, <2>8, <2>10, <2>16, QuietOthers, Zenon DEF ApplyInv
<1>2. CASE ~(seen[c].streamIds \subseteq DOMAIN port.streams)
  <2>1. Goto(c, "down") /\ Forget(c) /\ UNCHANGED <<port, noise>> /\ late' = late
    BY <1>2, Zenon DEF HydrateStreams
  <2> QED
    BY <2>1, DownStep, Zenon DEF ApplyInv, ApplyType, ServerType
<1> QED
  BY <1>1, <1>2, Zenon

\* A plan has an operation to go on with.
LEMMA CurrentOperation ==
  ASSUME ApplyInv, NEW c \in Clients, pc[c] = "plan"
  PROVE  todo[c] \in Seq(Operations) /\ todo[c] # <<>> /\ Head(todo[c]) \in Operations
<1>1. todo[c] \in Seq(Operations) /\ todo[c] # <<>>
  BY Zenon DEF ApplyInv, ApplyType, PlanType, ClientOK, MarksOK
<1> QED
  BY <1>1

\* The session is lost; the server may still carry out its request.
LEMMA DropStep ==
  ASSUME ApplyInv, NEW c \in Clients, Drop(c)
  PROVE  ApplyInv'
<1>1. Goto(c, "down") /\ Forget(c) /\ UNCHANGED <<port, noise>>
  BY Zenon DEF Drop
<1>2. CASE late' = late
  BY <1>1, <1>2, DownStep, Zenon DEF ApplyInv, ApplyType, ServerType
<1>3. CASE late' # late
  <2> DEFINE q == Request(c, Head(todo[c]))
             b == checked[c] \/ Head(todo[c]) \in Unchecked
  <2>1. pc[c] = "plan" /\ late' = late \union {[request |-> q, checked |-> b]}
    BY <1>3, Zenon DEF Drop
  <2>2. q \in Requests /\ b \in BOOLEAN
    BY <2>1, CurrentOperation, RequestType, Zenon DEF ApplyInv
  <2> HIDE DEF q, b
  <2>3. [request |-> q, checked |-> b] \in [request : Requests, checked : BOOLEAN]
    BY <2>2
  <2>4. late' \subseteq [request : Requests, checked : BOOLEAN]
    BY <2>1, <2>3, Zenon DEF ApplyInv, ApplyType, ServerType
  <2> QED
    BY <1>1, <2>4, DownStep, Zenon
<1> QED
  BY <1>2, <1>3, Zenon

-----------------------------------------------------------------------------
(* Edits                                                                   *)

\* An edit marks the client dirty and the group it adds or changes modified.
LEMMA EditStep ==
  ASSUME ApplyInv, NEW c \in Clients, Edit(c),
         NEW f \in Contents, NEW g \in Contents, NEW y \in Syncs, NEW e \in SUBSET Ids,
         streams' = [streams EXCEPT ![c] = f], groups' = [groups EXCEPT ![c] = g],
         sync' = [sync EXCEPT ![c] = y], edited' = [edited EXCEPT ![c] = e],
         y.dirty = TRUE, e \intersect DOMAIN g \subseteq y.modified
  PROVE  ApplyInv'
<1>1. pc[c] = "idle" /\ UNCHANGED <<port, late, pc, todo, checked, seen, noise>>
  BY Zenon DEF Edit, planVars
<1>2. ApplyType'
  BY <1>1, Zenon DEF ApplyInv, ApplyType, ServerType, StateType, PlanType
<1>3. groups'[c] = g /\ sync'[c] = y /\ edited'[c] = e
  BY Zenon DEF ApplyInv, ApplyType, StateType
<1>4. \A d \in Clients \ {c} : Same(d) /\ noise'[d] = noise[d]
  BY <1>1, Zenon DEF ApplyInv, ApplyType, StateType, Same
<1>5. MarksOK(c)
  BY Zenon DEF ApplyInv, ClientOK
<1>6. MarksOK(c)'
  BY <1>1, <1>3, <1>5, Zenon DEF MarksOK, Up
<1>7. CleanOK(c)'
  BY <1>3, Zenon DEF CleanOK
<1>8. HydrationOK(c)' /\ AttemptOK(c)' /\ SentOK(c)'
  BY <1>1, Zenon DEF HydrationOK, AttemptOK, SentOK, Sent, Confirming
<1>9. ClientOK(c)'
  BY <1>6, <1>7, <1>8, Zenon DEF ClientOK
<1> QED
  BY <1>1, <1>2, <1>4, <1>9, QuietOthers, Zenon DEF ApplyInv

\* Setting the contents of one id
LEMMA SetType ==
  ASSUME NEW f \in Contents, NEW i \in DOMAIN f, NEW v \in Values
  PROVE  [f EXCEPT ![i] = v] \in Contents /\ DOMAIN [f EXCEPT ![i] = v] = DOMAIN f
<1>1. f \in [DOMAIN f -> Values] /\ DOMAIN f \in SUBSET Ids
  BY ContentsFacts, Zenon
<1>2. [f EXCEPT ![i] = v] \in [DOMAIN f -> Values] /\ DOMAIN [f EXCEPT ![i] = v] = DOMAIN f
  BY <1>1, Zenon
<1> QED
  BY <1>1, <1>2, ContentsFacts, Zenon

\* Marking a client dirty ...
LEMMA DirtySync ==
  ASSUME NEW y \in Syncs
  PROVE  /\ [y EXCEPT !.dirty = TRUE] \in Syncs /\ [y EXCEPT !.dirty = TRUE].dirty = TRUE
         /\ [y EXCEPT !.dirty = TRUE].modified = y.modified
  BY Zenon DEF Syncs

\* ... and a group of it modified
LEMMA ModifiedSync ==
  ASSUME NEW y \in Syncs, NEW i \in Ids
  PROVE  /\ [y EXCEPT !.modified = @ \union {i}, !.dirty = TRUE] \in Syncs
         /\ [y EXCEPT !.modified = @ \union {i}, !.dirty = TRUE].dirty = TRUE
         /\ [y EXCEPT !.modified = @ \union {i}, !.dirty = TRUE].modified = y.modified \union {i}
<1>1. y.modified \union {i} \in SUBSET Ids
  BY DEF Syncs
<1> QED
  BY Zenon, <1>1 DEF Syncs

\* Edits of the streams
LEMMA StreamEditStep ==
  ASSUME ApplyInv, NEW c \in Clients, Edit(c), NEW f \in Contents, SetStreams(c, f)
  PROVE  ApplyInv'
<1> DEFINE y == [sync[c] EXCEPT !.dirty = TRUE]
<1>1. sync[c] \in Syncs /\ groups[c] \in Contents /\ edited[c] \in SUBSET Ids
  BY TypeFacts, Zenon DEF ApplyInv
<1>2. y \in Syncs /\ y.dirty = TRUE /\ y.modified = sync[c].modified
  BY <1>1, DirtySync, Zenon
<1>3. sync' = [sync EXCEPT ![c] = y] /\ streams' = [streams EXCEPT ![c] = f]
  BY Zenon DEF SetStreams
<1>4. groups' = [groups EXCEPT ![c] = groups[c]] /\ edited' = [edited EXCEPT ![c] = edited[c]]
  BY Zenon DEF SetStreams, ApplyInv, ApplyType, StateType
<1>5. edited[c] \intersect DOMAIN groups[c] \subseteq y.modified
  BY <1>2, Zenon DEF ApplyInv, ClientOK, MarksOK
<1> HIDE DEF y
<1> QED
  BY <1>1, <1>2, <1>3, <1>4, <1>5, EditStep, Zenon

\* Additions and changes of a device group
LEMMA GroupEditStep ==
  ASSUME ApplyInv, NEW c \in Clients, Edit(c), NEW g \in Contents, NEW i \in Ids,
         DOMAIN g \subseteq DOMAIN groups[c] \union {i},
         groups' = [groups EXCEPT ![c] = g],
         sync' = [sync EXCEPT ![c].modified = @ \union {i}, ![c].dirty = TRUE],
         edited' = [edited EXCEPT ![c] = @ \union {i}], UNCHANGED streams
  PROVE  ApplyInv'
<1> DEFINE y == [sync[c] EXCEPT !.modified = @ \union {i}, !.dirty = TRUE]
           e == edited[c] \union {i}
<1>1. sync[c] \in Syncs /\ streams[c] \in Contents /\ edited[c] \in SUBSET Ids
  BY TypeFacts, Zenon DEF ApplyInv
<1>2. y \in Syncs /\ y.dirty = TRUE /\ y.modified = sync[c].modified \union {i}
  BY <1>1, ModifiedSync, Zenon
<1>3. sync' = [sync EXCEPT ![c] = y]
  BY Zenon DEF ApplyInv, ApplyType, StateType
<1>4. streams' = [streams EXCEPT ![c] = streams[c]] /\ edited' = [edited EXCEPT ![c] = e]
  BY Zenon DEF ApplyInv, ApplyType, StateType
<1>5. edited[c] \intersect DOMAIN groups[c] \subseteq sync[c].modified
  BY Zenon DEF ApplyInv, ClientOK, MarksOK
<1>6. e \in SUBSET Ids /\ e \intersect DOMAIN g \subseteq y.modified
  BY <1>1, <1>2, <1>5, Zenon
<1> HIDE DEF y, e
<1> QED
  BY <1>1, <1>2, <1>3, <1>4, <1>6, EditStep, Zenon

\* The edits of PortState
LEMMA EditSomeStep ==
  ASSUME ApplyInv, NEW c \in Clients, EditSome(c)
  PROVE  ApplyInv'
<1>1. streams[c] \in Contents /\ groups[c] \in Contents
  BY TypeFacts, Zenon DEF ApplyInv
<1>2. StreamIds \subseteq Ids /\ GroupIds \subseteq Ids
  BY Zenon DEF Ids
<1>3. ASSUME NEW i \in StreamIds, DeleteStream(c, i) PROVE ApplyInv'
  <2>1. Edit(c) /\ SetStreams(c, Deleted(streams[c], {i}))
    BY <1>3, Zenon DEF DeleteStream
  <2>2. Deleted(streams[c], {i}) \in Contents
    BY <1>1, DeletedType, Zenon
  <2> QED
    BY <1>2, <2>1, <2>2, StreamEditStep, Zenon
<1>4. ASSUME NEW i \in StreamIds, NEW v \in Values, AddStream(c, i, v) PROVE ApplyInv'
  <2> DEFINE f == Added(streams[c], {i})
  <2>1. Edit(c) /\ SetStreams(c, [f EXCEPT ![i] = v])
    BY <1>4, Zenon DEF AddStream
  <2>2. f \in Contents /\ i \in DOMAIN f
    BY <1>1, <1>2, AddedType, Zenon
  <2> HIDE DEF f
  <2>3. [f EXCEPT ![i] = v] \in Contents
    BY <2>2, SetType, Zenon
  <2> QED
    BY <1>2, <2>1, <2>3, StreamEditStep, Zenon
<1>5. ASSUME NEW i \in StreamIds, NEW v \in Values, UpdateStream(c, i, v) PROVE ApplyInv'
  <2>1. Edit(c) /\ SetStreams(c, [streams[c] EXCEPT ![i] = v]) /\ i \in DOMAIN streams[c]
    BY <1>5, Zenon DEF UpdateStream
  <2>2. [streams[c] EXCEPT ![i] = v] \in Contents
    BY <1>1, <2>1, SetType, Zenon
  <2> QED
    BY <1>2, <2>1, <2>2, StreamEditStep, Zenon
<1>6. ASSUME NEW i \in GroupIds, NEW v \in Values, AddDeviceGroup(c, i, v) PROVE ApplyInv'
  <2> DEFINE f == Added(groups[c], {i})
             g == [f EXCEPT ![i] = v]
  <2>1. f \in Contents /\ DOMAIN f = DOMAIN groups[c] \union {i}
    BY <1>1, <1>2, AddedType, Zenon
  <2>2. g \in Contents /\ DOMAIN g = DOMAIN f
    <3> HIDE DEF f
    <3> QED
      BY <2>1, SetType, Zenon
  <2>3. /\ Edit(c) /\ groups' = [groups EXCEPT ![c] = g]
        /\ sync' = [sync EXCEPT ![c].modified = @ \union {i}, ![c].dirty = TRUE]
        /\ edited' = [edited EXCEPT ![c] = @ \union {i}] /\ UNCHANGED streams
    BY <1>6, Zenon DEF AddDeviceGroup
  <2> HIDE DEF f, g
  <2> QED
    BY <1>2, <2>1, <2>2, <2>3, GroupEditStep, Zenon
<1>7. ASSUME NEW i \in GroupIds, NEW v \in Values, UpdateDeviceGroup(c, i, v) PROVE ApplyInv'
  <2> DEFINE g == [groups[c] EXCEPT ![i] = v]
  <2>1. g \in Contents /\ DOMAIN g = DOMAIN groups[c]
    BY <1>1, <1>7, SetType, Zenon DEF UpdateDeviceGroup
  <2>2. /\ Edit(c) /\ groups' = [groups EXCEPT ![c] = g]
        /\ sync' = [sync EXCEPT ![c].modified = @ \union {i}, ![c].dirty = TRUE]
        /\ edited' = [edited EXCEPT ![c] = @ \union {i}] /\ UNCHANGED streams
    BY <1>7, Zenon DEF UpdateDeviceGroup
  <2> HIDE DEF g
  <2> QED
    BY <1>2, <2>1, <2>2, GroupEditStep, Zenon
<1>8. ASSUME NEW i \in GroupIds, DeleteDeviceGroup(c, i) PROVE ApplyInv'
  <2> DEFINE g == Deleted(groups[c], {i})
             y == [sync[c] EXCEPT !.dirty = TRUE]
             e == edited[c] \union {i}
  <2>1. g \in Contents /\ DOMAIN g = DOMAIN groups[c] \ {i}
    BY <1>1, DeletedType, Zenon
  <2>2. /\ Edit(c) /\ groups' = [groups EXCEPT ![c] = g] /\ sync' = [sync EXCEPT ![c] = y]
        /\ edited' = [edited EXCEPT ![c] = e] /\ streams' = streams
    BY <1>8, Zenon DEF DeleteDeviceGroup
  <2>3. sync[c] \in Syncs /\ edited[c] \in SUBSET Ids /\ i \in Ids
    BY <1>2, TypeFacts, Zenon DEF ApplyInv
  <2>4. y \in Syncs /\ y.dirty = TRUE /\ y.modified = sync[c].modified
    BY <2>3, DirtySync, Zenon
  <2>5. streams' = [streams EXCEPT ![c] = streams[c]]
    BY <2>2, Zenon DEF ApplyInv, ApplyType, StateType
  <2>6. edited[c] \intersect DOMAIN groups[c] \subseteq sync[c].modified
    BY Zenon DEF ApplyInv, ClientOK, MarksOK
  <2>7. e \in SUBSET Ids /\ e \intersect DOMAIN g \subseteq y.modified
    BY <2>1, <2>3, <2>4, <2>6, Zenon
  <2> HIDE DEF g, y, e
  <2> QED
    BY <1>1, <2>1, <2>2, <2>4, <2>5, <2>7, EditStep, Zenon
<1> QED
  BY <1>3, <1>4, <1>5, <1>6, <1>7, <1>8, Zenon DEF EditSome

-----------------------------------------------------------------------------
(* ClientSession::apply                                                    *)

\* An attempt begins.
LEMMA ApplyStep ==
  ASSUME ApplyInv, NEW c \in Clients, Apply(c)
  PROVE  ApplyInv'
<1> DEFINE n == [noise[c] EXCEPT !.new = FALSE, !.back = FALSE]
<1>1. /\ pc[c] = "idle" /\ pc' = [pc EXCEPT ![c] = "baseStreams"]
      /\ noise' = [noise EXCEPT ![c] = n]
      /\ UNCHANGED <<port, late, streams, groups, sync, edited, todo, checked, seen>>
  BY Zenon DEF Apply, Goto, stateVars, planVars
<1>2. noise[c] \in Flags
  BY Zenon DEF ApplyInv, ApplyType, PlanType
<1>3. n \in Flags /\ ~n.new /\ n.old = noise[c].old
  BY <1>2 DEF Flags
<1> HIDE DEF n
<1>4. "baseStreams" \in Locations
  BY Zenon DEF Locations, Up
<1>5. ApplyType'
  BY <1>1, <1>3, <1>4, Zenon DEF ApplyInv, ApplyType, ServerType, StateType, PlanType
<1>6. pc'[c] = "baseStreams" /\ noise'[c] = n
  BY <1>1, Zenon DEF ApplyInv, ApplyType, PlanType
<1>7. \A d \in Clients \ {c} : Same(d) /\ noise'[d] = noise[d]
  BY <1>1, Zenon DEF ApplyInv, ApplyType, PlanType, Same
<1>8. MarksOK(c) /\ CleanOK(c)
  BY Zenon DEF ApplyInv, ClientOK
<1>9. MarksOK(c)'
  BY <1>1, <1>3, <1>6, <1>8, Zenon DEF MarksOK, Up
<1>10. CleanOK(c)'
  BY <1>1, <1>3, <1>6, <1>8, Zenon DEF CleanOK, Up
<1>11. HydrationOK(c)' /\ AttemptOK(c)' /\ SentOK(c)'
  BY <1>6, Zenon DEF HydrationOK, AttemptOK, SentOK, Sent, Confirming
<1>12. ClientOK(c)'
  BY <1>9, <1>10, <1>11, Zenon DEF ClientOK
<1> QED
  BY <1>1, <1>5, <1>7, <1>12, QuietOthers, Zenon DEF ApplyInv

\* refreshRemoteBaseline, then the plan
LEMMA BaseGroupsStep ==
  ASSUME ApplyInv, NEW c \in Clients, BaseGroups(c)
  PROVE  ApplyInv'
<1> DEFINE y == [sync[c] EXCEPT !.streams = seen[c].streamIds, !.groups = DOMAIN port.groups]
           p == Planned(c, seen[c].streamIds, DOMAIN port.groups)
<1>1. /\ pc[c] = "baseGroups" /\ pc' = [pc EXCEPT ![c] = "plan"] /\ todo' = [todo EXCEPT ![c] = p]
      /\ UNCHANGED <<port, late, streams, groups, edited, checked, seen, noise>>
  BY Zenon DEF BaseGroups, Goto
<1>2. /\ seen[c].streamIds \in SUBSET Ids /\ DOMAIN port.groups \in SUBSET Ids
      /\ sync[c] \in Syncs
  BY TypeFacts, Zenon DEF ApplyInv
<1>3. sync' = [sync EXCEPT ![c] = y]
  BY Zenon DEF BaseGroups, ApplyInv, ApplyType, StateType
<1>4. /\ y \in Syncs /\ y.streams = seen[c].streamIds /\ y.groups = DOMAIN port.groups
      /\ y.modified = sync[c].modified /\ y.dirty = sync[c].dirty
  BY Zenon, <1>2 DEF Syncs
<1>5. /\ p \in Seq(Operations) /\ p # <<>>
      /\ "ModifyDeviceGroups" \notin Range(p) => sync[c].modified \intersect DOMAIN groups[c] = {}
  BY PlannedFacts, Zenon
<1> HIDE DEF y, p
<1>6. "plan" \in Locations
  BY Zenon DEF Locations, Up
<1>7. ApplyType'
  BY <1>1, <1>3, <1>4, <1>5, <1>6, Zenon DEF ApplyInv, ApplyType, ServerType, StateType, PlanType
<1>8. pc'[c] = "plan" /\ sync'[c] = y /\ todo'[c] = p
  BY <1>1, <1>3, Zenon DEF ApplyInv, ApplyType, StateType, PlanType
<1>9. \A d \in Clients \ {c} : Same(d) /\ noise'[d] = noise[d]
  BY <1>1, <1>3, Zenon DEF ApplyInv, ApplyType, StateType, PlanType, Same
<1>10. MarksOK(c) /\ CleanOK(c) /\ AttemptOK(c)
  BY Zenon DEF ApplyInv, ClientOK
<1>11. MarksOK(c)'
  BY <1>1, <1>4, <1>5, <1>8, <1>10, Zenon DEF MarksOK, Up
<1>12. ~noise[c].new => seen[c].streamIds = DOMAIN port.streams
  BY <1>1, <1>10, Zenon DEF AttemptOK
<1>13. ~sync[c].dirty /\ ~noise[c].old => port.streams = streams[c] /\ port.groups = groups[c]
  BY <1>1, <1>10, Zenon DEF CleanOK, Up
<1>14. CleanOK(c)'
  BY <1>1, <1>4, <1>8, <1>10, <1>12, <1>13, Zenon DEF CleanOK, MarksOK
<1>15. SentOK(c)'
  BY <1>1, <1>5, <1>8, <1>10, Zenon DEF SentOK, Sent, MarksOK, Confirming
<1>16. HydrationOK(c)' /\ AttemptOK(c)'
  BY <1>8, Zenon DEF HydrationOK, AttemptOK
<1>17. ClientOK(c)'
  BY <1>11, <1>14, <1>15, <1>16, Zenon DEF ClientOK
<1> QED
  BY <1>1, <1>7, <1>9, <1>17, QuietOthers, Zenon DEF ApplyInv

\* An attempt that fails keeps the desired state and its marks.
LEMMA FailOK ==
  ASSUME ApplyInv, NEW c \in Clients, pc[c] \in Up, Fail(c), noise'[c] = noise[c],
         ~sync[c].dirty /\ ~noise[c].old => SamePort
  PROVE  /\ StateType' /\ (noise' \in [Clients -> Flags] => PlanType')
         /\ ClientOK(c)' /\ \A d \in Clients \ {c} : Same(d)
<1>1. /\ pc' = [pc EXCEPT ![c] = "idle"] /\ todo' = [todo EXCEPT ![c] = <<>>]
      /\ checked' = [checked EXCEPT ![c] = FALSE] /\ seen' = [seen EXCEPT ![c] = NothingSeen]
      /\ UNCHANGED <<streams, groups, sync, edited>>
  BY Zenon DEF Fail, Goto, stateVars
<1>2. NothingSeen \in Seens /\ <<>> \in Seq(Operations)
  BY EmptyType DEF NothingSeen, Seens
<1>3. "idle" \in Locations
  BY Zenon DEF Locations, Up
<1>4. StateType'
  BY <1>1, Zenon DEF ApplyInv, ApplyType, StateType
<1>5. noise' \in [Clients -> Flags] => PlanType'
  BY <1>1, <1>2, <1>3, Zenon DEF ApplyInv, ApplyType, PlanType
<1>6. pc'[c] = "idle"
  BY <1>1, Zenon DEF ApplyInv, ApplyType, PlanType
<1>7. \A d \in Clients \ {c} : Same(d)
  BY <1>1, Zenon DEF ApplyInv, ApplyType, PlanType, Same
<1>8. MarksOK(c) /\ CleanOK(c)
  BY Zenon DEF ApplyInv, ClientOK
<1>9. MarksOK(c)'
  BY <1>1, <1>6, <1>8, Zenon DEF MarksOK, Up
<1>10. CleanOK(c)'
  BY <1>1, <1>6, <1>8, Zenon DEF CleanOK, SamePort
<1>11. HydrationOK(c)' /\ AttemptOK(c)' /\ SentOK(c)'
  BY <1>6, Zenon DEF HydrationOK, AttemptOK, SentOK, Sent, Confirming
<1> QED
  BY <1>4, <1>5, <1>7, <1>9, <1>10, <1>11, Zenon DEF ClientOK

\* The server looks at isTransmitOn().
LEMMA PlanCheckStep ==
  ASSUME ApplyInv, NEW c \in Clients, PlanCheck(c)
  PROVE  ApplyInv'
<1>1. pc[c] = "plan" /\ UNCHANGED <<port, late, noise>>
  BY Zenon DEF PlanCheck
<1>2. SamePort /\ \A d \in Clients : noise'[d] = noise[d]
  BY <1>1, Zenon DEF SamePort
<1>3. CASE port.busy
  <2>1. Fail(c) /\ pc[c] \in Up
    BY <1>1, <1>3, Zenon DEF PlanCheck, Up
  <2>2. noise' \in [Clients -> Flags]
    BY <1>1, Zenon DEF ApplyInv, ApplyType, PlanType
  <2>3. StateType' /\ PlanType' /\ ClientOK(c)' /\ \A d \in Clients \ {c} : Same(d)
    BY <1>2, <2>1, <2>2, FailOK, Zenon
  <2>4. ApplyType'
    BY <1>1, <2>3, Zenon DEF ApplyInv, ApplyType, ServerType
  <2> QED
    BY <1>1, <1>2, <2>3, <2>4, QuietOthers, Zenon DEF ApplyInv
<1>4. CASE ~port.busy
  <2>1. checked' = [checked EXCEPT ![c] = TRUE] /\ UNCHANGED <<pc, streams, groups, sync, edited, todo, seen>>
    BY <1>4, Zenon DEF PlanCheck, stateVars
  <2>2. ApplyType'
    BY <1>1, <2>1, Zenon DEF ApplyInv, ApplyType, ServerType, StateType, PlanType
  <2>3. \A d \in Clients : Same(d)
    BY <2>1, Zenon DEF Same
  <2> QED
    BY <1>2, <2>2, <2>3, StillOK, Zenon DEF ApplyInv
<1> QED
  BY <1>3, <1>4, Zenon

\* The requests of a clean client change nothing.
LEMMA CleanRequest ==
  ASSUME ApplyInv, NEW c \in Clients, pc[c] = "plan", ~sync[c].dirty, ~noise[c].old,
         NEW op \in Operations, NEW valid \in BOOLEAN
  PROVE  /\ Respond(port, Request(c, op), valid).port.streams = port.streams
         /\ Respond(port, Request(c, op), valid).port.groups = port.groups
<1> DEFINE r == Request(c, op)
           canon == [i \in DOMAIN r.contents |-> Canon(r.contents[i])]
<1>1. /\ port \in Ports /\ port.streams \in Contents /\ port.groups \in Contents /\ r \in Requests
  BY TypeFacts, RequestType, Zenon DEF ApplyInv, ApplyType, ServerType
<1>2. /\ port.streams = streams[c] /\ port.groups = groups[c] /\ sync[c].modified = {}
      /\ sync[c].streams = DOMAIN streams[c] /\ sync[c].groups = DOMAIN groups[c]
  BY Zenon DEF ApplyInv, ClientOK, CleanOK, MarksOK, Up
<1>3. r.op = op
  BY Zenon DEF Request
<1>4. op \in {"DeleteDeviceGroups", "AddDeviceGroups", "DeleteStreams", "AddStreams"} => r.ids = {}
  BY <1>2, Zenon DEF Request, deletedDeviceGroups, newDeviceGroups, deletedStreams, newStreams
<1>5. op = "ModifyDeviceGroups" => DOMAIN r.contents = {}
  <2>1. modifiedDeviceGroups(c) = {}
    BY <1>2, Zenon DEF modifiedDeviceGroups, newDeviceGroups
  <2>2. op = "ModifyDeviceGroups" => r.contents = Restrict(groups[c], {})
    BY <2>1, Zenon DEF Request
  <2> QED
    BY <2>2, Zenon DEF Restrict
<1>6. op = "ModifyDeviceGroups" => DOMAIN canon = {}
  BY <1>5, Zenon
<1>7. op = "ModifyStreams" => r.contents = port.streams
  BY <1>2, Zenon DEF Request
<1>8. LET a == Respond(port, r, valid) IN
      /\ op = "DeleteDeviceGroups" => a.port.groups = Deleted(port.groups, {})
      /\ op = "AddDeviceGroups" => a.port.groups = Added(port.groups, {})
      /\ op = "ModifyDeviceGroups" => a.port.groups = Modified(port.groups, canon)
      /\ op \notin {"DeleteDeviceGroups", "AddDeviceGroups", "ModifyDeviceGroups"} =>
           a.port.groups = port.groups
      /\ op = "DeleteStreams" => a.port.streams = Deleted(port.streams, {})
      /\ op = "AddStreams" => a.port.streams = Added(port.streams, {})
      /\ op = "ModifyStreams" => a.port.streams = Modified(port.streams, port.streams)
      /\ op \notin {"DeleteStreams", "AddStreams", "ModifyStreams"} => a.port.streams = port.streams
  <2> HIDE DEF r
  <2>1. Effect(port, r, Respond(port, r, valid))
    BY <1>1, RespondEffect, Zenon
  <2> QED
    BY <1>3, <1>4, <1>7, <2>1, Zenon DEF Effect
<1> HIDE DEF r, canon
<1>9. /\ Deleted(port.groups, {}) = port.groups /\ Added(port.groups, {}) = port.groups
      /\ op = "ModifyDeviceGroups" => Modified(port.groups, canon) = port.groups
  BY <1>1, <1>6, NoEffect, Zenon
<1>10. /\ Deleted(port.streams, {}) = port.streams /\ Added(port.streams, {}) = port.streams
       /\ Modified(port.streams, port.streams) = port.streams
  BY <1>1, NoEffect, Zenon
<1> QED
  BY <1>8, <1>9, <1>10, Zenon DEF r

\* Once ModifyDeviceGroups was served, and nobody else interferes, the port has the groups
\* that were edited, whatever the plan does next.
LEMMA SentRequest ==
  ASSUME ApplyInv, NEW c \in Clients, pc[c] = "plan", NEW op \in Operations, NEW valid \in BOOLEAN,
         Respond(port, Request(c, op), valid).ok,
         op # "ModifyDeviceGroups" =>
           \A i \in edited[c] \intersect DOMAIN groups[c] :
             i \in DOMAIN port.groups /\ port.groups[i] = Canon(groups[c][i]),
         NEW i \in edited[c] \intersect DOMAIN groups[c]
  PROVE  LET g == Respond(port, Request(c, op), valid).port.groups IN
         i \in DOMAIN g /\ g[i] = Canon(groups[c][i])
<1> DEFINE r == Request(c, op)
           a == Respond(port, r, valid)
           canon == [j \in DOMAIN r.contents |-> Canon(r.contents[j])]
<1>1. /\ port \in Ports /\ port.groups \in Contents /\ r \in Requests /\ groups[c] \in Contents
  BY TypeFacts, RequestType, Zenon DEF ApplyInv, ApplyType, ServerType
<1>2. r.op = op
  BY Zenon DEF Request
<1>7. Effect(port, r, a)
  <2> HIDE DEF r
  <2> QED
    BY <1>1, RespondEffect, Zenon
<1>3. CASE op = "ModifyDeviceGroups"
  <2>1. r.contents = Restrict(groups[c], modifiedDeviceGroups(c))
    BY <1>3, Zenon DEF Request
  <2>2. i \in modifiedDeviceGroups(c)
    BY Zenon DEF modifiedDeviceGroups, ApplyInv, ClientOK, MarksOK
  <2>3. i \in DOMAIN r.contents /\ r.contents[i] = groups[c][i]
    BY <2>1, <2>2, Zenon DEF Restrict
  <2>4. i \in DOMAIN canon /\ canon[i] = Canon(groups[c][i])
    BY <2>3, Zenon
  <2>5. a.port.groups = Modified(port.groups, canon) /\ a.ok = (DOMAIN r.contents \subseteq DOMAIN port.groups)
    BY <1>2, <1>3, <1>7, Zenon DEF Effect
  <2>6. i \in DOMAIN port.groups
    BY <2>3, <2>5, Zenon
  <2> HIDE DEF r, canon
  <2>7. i \in DOMAIN Modified(port.groups, canon) /\ Modified(port.groups, canon)[i] = canon[i]
    BY <2>4, <2>6, Zenon DEF Modified
  <2> QED
    BY <2>4, <2>5, <2>7, Zenon DEF r
<1>4. CASE op = "DeleteDeviceGroups"
  <2>1. r.ids = deletedDeviceGroups(c)
    BY <1>4, Zenon DEF Request
  <2>2. i \notin r.ids
    BY <2>1, Zenon DEF deletedDeviceGroups
  <2>3. a.port.groups = Deleted(port.groups, r.ids)
    BY <1>2, <1>4, <1>7, Zenon DEF Effect
  <2>4. i \in DOMAIN port.groups /\ port.groups[i] = Canon(groups[c][i])
    BY <1>4, Zenon
  <2> HIDE DEF r
  <2>5. i \in DOMAIN Deleted(port.groups, r.ids) /\ Deleted(port.groups, r.ids)[i] = port.groups[i]
    BY <2>2, <2>4, Zenon DEF Deleted, Restrict
  <2> QED
    BY <2>3, <2>4, <2>5, Zenon DEF r
<1>5. CASE op = "AddDeviceGroups"
  <2>1. a.port.groups = Added(port.groups, r.ids)
    BY <1>2, <1>5, <1>7, Zenon DEF Effect
  <2>2. i \in DOMAIN port.groups /\ port.groups[i] = Canon(groups[c][i])
    BY <1>5, Zenon
  <2> HIDE DEF r
  <2>3. i \in DOMAIN Added(port.groups, r.ids) /\ Added(port.groups, r.ids)[i] = port.groups[i]
    BY <2>2, Zenon DEF Added
  <2> QED
    BY <2>1, <2>2, <2>3, Zenon DEF r
<1>6. CASE op \notin {"DeleteDeviceGroups", "AddDeviceGroups", "ModifyDeviceGroups"}
  <2>1. a.port.groups = port.groups
    BY <1>2, <1>6, <1>7, Zenon DEF Effect
  <2> QED
    BY <1>6, <2>1, Zenon
<1> QED
  BY <1>3, <1>4, <1>5, <1>6, Zenon

\* The port that serving a request leaves, and who hears of it
LEMMA ServeTypes ==
  ASSUME ApplyInv, NEW c, NEW p \in Ports, Serve(c, p)
  PROVE  /\ port' \in Ports /\ noise' \in [Clients -> Flags]
         /\ c \in Clients => noise'[c] = noise[c]
<1>1. Noisy \in Flags
  BY DEF Noisy, Flags
<1>2. \A d \in Clients : noise'[d] \in {Noisy, noise[d]}
  BY Zenon DEF Serve, Noisy
<1>3. \A d \in Clients : noise[d] \in Flags
  BY Zenon DEF ApplyInv, ApplyType, PlanType
<1>4. noise' \in [Clients -> Flags]
  BY <1>1, <1>2, <1>3, Zenon DEF Serve
<1> QED
  BY <1>4, Zenon DEF Serve

\* The rest of a plan
LEMMA RestOfPlan ==
  ASSUME NEW s \in Seq(Operations), s # <<>>
  PROVE  /\ Tail(s) \in Seq(Operations) /\ (Len(s) # 1 => Tail(s) # <<>>)
         /\ \A op \in Range(s) : op # Head(s) => op \in Range(Tail(s))
<1>1. Tail(s) \in Seq(Operations) /\ (Len(s) # 1 => Tail(s) # <<>>)
  <2>1. Tail(s) \in Seq(Operations) /\ Len(Tail(s)) = Len(s) - 1 /\ Len(s) \in Nat
    OBVIOUS
  <2>2. Len(s) # 1 => Len(Tail(s)) # 0
    BY <2>1
  <2>3. Len(<<>>) = 0
    OBVIOUS
  <2> QED
    BY <2>1, <2>2, <2>3, Zenon
<1>2. ASSUME NEW op \in Range(s), op # Head(s) PROVE op \in Range(Tail(s))
  <2>1. PICK k \in DOMAIN s : s[k] = op
    BY Zenon DEF Range
  <2>2. k - 1 \in DOMAIN Tail(s) /\ Tail(s)[k - 1] = op
    BY <1>2, <2>1
  <2> QED
    BY <2>2, Zenon DEF Range
<1> QED
  BY <1>1, <1>2, Zenon

\* The server carries out an operation of the plan.
LEMMA PlanActStep ==
  ASSUME ApplyInv, NEW c \in Clients, NEW valid \in BOOLEAN, PlanAct(c, valid)
  PROVE  ApplyInv'
<1> DEFINE op == Head(todo[c])
           a == Respond(port, Request(c, op), valid)
<1>1. pc[c] = "plan" /\ Serve(c, a.port) /\ UNCHANGED late
  BY Zenon DEF PlanAct
<1>2. todo[c] \in Seq(Operations) /\ todo[c] # <<>> /\ op \in Operations
  BY <1>1, CurrentOperation, Zenon
<1>3. a.port \in Ports
  BY <1>2, RequestType, RespondType, Zenon DEF ApplyInv, ApplyType, ServerType
<1>4. /\ port' \in Ports /\ noise' \in [Clients -> Flags]
      /\ noise'[c] = noise[c]
  BY <1>1, <1>3, ServeTypes, Zenon
<1>5. port' = a.port
  BY <1>1, Zenon DEF Serve
<1>6. ~sync[c].dirty /\ ~noise[c].old => SamePort
  <2> HIDE DEF op
  <2> QED
    BY <1>1, <1>2, <1>5, CleanRequest, Zenon DEF SamePort
<1>7. SUFFICES StateType' /\ PlanType' /\ ClientOK(c)' /\ \A d \in Clients \ {c} : Same(d)
  <2>1. ASSUME NEW d \in Clients, d # c, Same(d) PROVE ClientOK(d)'
    <3> HIDE DEF a
    <3> QED
      BY <1>1, <2>1, ServeOthers, Zenon
  <2>2. ServerType'
    BY <1>1, <1>4, Zenon DEF ApplyInv, ApplyType, ServerType
  <2> QED
    BY <1>7, <2>1, <2>2, Zenon DEF ApplyInv, ApplyType
<1>8. CASE ~a.ok
  <2>1. Fail(c) /\ pc[c] \in Up
    BY <1>1, <1>8, Zenon DEF PlanAct, Up
  <2> HIDE DEF a
  <2> QED
    BY <1>4, <1>6, <2>1, FailOK, Zenon
<1>9. CASE a.ok
  <2> DEFINE l == IF Len(todo[c]) = 1 THEN "confirmStreamIds" ELSE "plan"
  <2>1. /\ todo' = [todo EXCEPT ![c] = Tail(todo[c])] /\ checked' = [checked EXCEPT ![c] = FALSE]
        /\ pc' = [pc EXCEPT ![c] = l] /\ UNCHANGED <<streams, groups, sync, edited, seen>>
    BY <1>9, Zenon DEF PlanAct, Goto, stateVars
  <2>2. /\ Tail(todo[c]) \in Seq(Operations) /\ (Len(todo[c]) # 1 => Tail(todo[c]) # <<>>)
        /\ \A o \in Range(todo[c]) : o # op => o \in Range(Tail(todo[c]))
    BY <1>2, RestOfPlan, Zenon
  <2>3. l \in Locations /\ l \in Up /\ l \in {"confirmStreamIds", "plan"}
    BY Zenon DEF Locations, Up, Confirming
  <2>4. l = "plan" => Tail(todo[c]) # <<>>
    BY <2>2, Zenon
  <2> HIDE DEF l, op, a
  <2>5. StateType' /\ PlanType'
    BY <1>4, <2>1, <2>2, <2>3, Zenon DEF ApplyInv, ApplyType, StateType, PlanType
  <2>6. pc'[c] = l /\ todo'[c] = Tail(todo[c])
    BY <2>1, Zenon DEF ApplyInv, ApplyType, PlanType
  <2>7. \A d \in Clients \ {c} : Same(d)
    BY <2>1, Zenon DEF ApplyInv, ApplyType, PlanType, Same
  <2>8. MarksOK(c) /\ CleanOK(c) /\ SentOK(c)
    BY Zenon DEF ApplyInv, ClientOK
  <2>9. MarksOK(c)'
    BY <1>4, <2>1, <2>3, <2>4, <2>6, <2>8, Zenon DEF MarksOK
  <2>10. CleanOK(c)'
    <3>1. pc[c] \in Up
      BY <1>1, Zenon DEF Up
    <3> QED
      BY <1>1, <1>4, <1>6, <2>1, <2>6, <2>8, <3>1, Zenon DEF CleanOK, SamePort
  <2>11. HydrationOK(c)' /\ AttemptOK(c)'
    BY <2>3, <2>6, Zenon DEF HydrationOK, AttemptOK
  <2>12. SentOK(c)'
    <3>1. SUFFICES ASSUME ~noise[c].new, Sent(c)', NEW i \in edited[c] \intersect DOMAIN groups[c]
                   PROVE  i \in DOMAIN port'.groups /\ port'.groups[i] = Canon(groups[c][i])
      BY <1>4, <2>1, Zenon DEF SentOK
    <3>2. op # "ModifyDeviceGroups" => Sent(c)
      <4>1. CASE l = "plan"
        BY <1>1, <2>2, <2>6, <3>1, <4>1, Zenon DEF Sent, Confirming
      <4>2. CASE l = "confirmStreamIds"
        <5>1. Len(todo[c]) = 1
          BY <4>2, Zenon DEF l
        <5>2. \A o \in Range(todo[c]) : o = op
          BY <1>2, <5>1 DEF op, Range
        <5> QED
          BY <1>1, <5>2, Zenon DEF Sent
      <4> QED
        BY <2>3, <4>1, <4>2, Zenon
    <3>3. op # "ModifyDeviceGroups" =>
            \A j \in edited[c] \intersect DOMAIN groups[c] :
              j \in DOMAIN port.groups /\ port.groups[j] = Canon(groups[c][j])
      BY <2>8, <3>1, <3>2, Zenon DEF SentOK
    <3>4. i \in DOMAIN a.port.groups /\ a.port.groups[i] = Canon(groups[c][i])
      BY <1>1, <1>2, <1>9, <3>3, SentRequest, Zenon DEF a
    <3> QED
      BY <1>5, <3>4, Zenon
  <2>13. ClientOK(c)'
    BY <2>9, <2>10, <2>11, <2>12, Zenon DEF ClientOK
  <2> QED
    BY <2>5, <2>7, <2>13, Zenon
<1> QED
  BY <1>8, <1>9, Zenon

\* The last answer and the comparison: the client is in step with the port, or the attempt
\* has failed.
LEMMA ConfirmGroupsStep ==
  ASSUME ApplyInv, NEW c \in Clients, ConfirmGroups(c)
  PROVE  ApplyInv'
<1>1. pc[c] = "confirmGroups" /\ UNCHANGED <<port, late>>
  BY Zenon DEF ConfirmGroups
<1>2. SamePort
  BY <1>1, Zenon DEF SamePort
<1>3. CASE ~Confirmed(c)
  <2>1. Fail(c) /\ pc[c] \in Up /\ UNCHANGED noise
    BY <1>1, <1>3, Zenon DEF ConfirmGroups, Up, Confirming
  <2>2. noise' \in [Clients -> Flags]
    BY <2>1, Zenon DEF ApplyInv, ApplyType, PlanType
  <2>3. StateType' /\ PlanType' /\ ClientOK(c)' /\ \A d \in Clients \ {c} : Same(d)
    BY <1>2, <2>1, <2>2, FailOK, Zenon
  <2>4. ApplyType'
    BY <1>1, <2>3, Zenon DEF ApplyInv, ApplyType, ServerType
  <2> QED
    BY <1>1, <2>1, <2>3, <2>4, QuietOthers, Zenon DEF ApplyInv
<1>4. CASE Confirmed(c)
  <2> DEFINE g == Restrict(port.groups, seen[c].groupIds)
             y == Clean(seen[c].streamIds, seen[c].groupIds)
             n == [noise[c] EXCEPT !.old = noise[c].back, !.new = noise[c].back]
  <2>1. /\ pc' = [pc EXCEPT ![c] = "idle"] /\ streams' = [streams EXCEPT ![c] = seen[c].streams]
        /\ groups' = [groups EXCEPT ![c] = g] /\ sync' = [sync EXCEPT ![c] = y]
        /\ edited' = [edited EXCEPT ![c] = {}] /\ noise' = [noise EXCEPT ![c] = n]
        /\ seen' = [seen EXCEPT ![c] = NothingSeen] /\ UNCHANGED <<todo, checked>>
    BY <1>4, Zenon DEF ConfirmGroups, Goto
  <2>2. /\ seen[c].streams \in Contents /\ port.groups \in Contents
        /\ seen[c].streamIds \in SUBSET Ids /\ seen[c].groupIds \in SUBSET Ids
    BY TypeFacts, Zenon DEF ApplyInv
  <2>3. g \in Contents
    BY <1>4, <2>2, RestrictType, Zenon DEF Confirmed
  <2>4. y \in Syncs /\ y.modified = {} /\ NothingSeen \in Seens
    BY <2>2, EmptyType DEF Clean, Syncs, NothingSeen, Seens
  <2>5. noise[c] \in Flags
    BY Zenon DEF ApplyInv, ApplyType, PlanType
  <2>6. n \in Flags /\ n.new = noise[c].back /\ n.old = noise[c].back
    BY <2>5 DEF Flags
  <2>7. ~noise[c].back => seen[c].streams = port.streams /\ seen[c].groupIds = DOMAIN port.groups
    BY <1>1, Zenon DEF ApplyInv, ClientOK, AttemptOK
  <2>8. ~noise[c].back => g = port.groups
    BY <2>2, <2>7, NoEffect, Zenon
  <2> HIDE DEF g, y, n
  <2>9. "idle" \in Locations /\ {} \in SUBSET Ids
    BY Zenon DEF Locations, Up
  <2>10. ApplyType'
    BY <1>1, <2>1, <2>2, <2>3, <2>4, <2>6, <2>9, Zenon
       DEF ApplyInv, ApplyType, ServerType, StateType, PlanType
  <2>11. /\ pc'[c] = "idle" /\ streams'[c] = seen[c].streams /\ groups'[c] = g /\ sync'[c] = y
         /\ edited'[c] = {} /\ noise'[c] = n
    BY <2>1, Zenon DEF ApplyInv, ApplyType, StateType, PlanType
  <2>12. \A d \in Clients \ {c} : Same(d) /\ noise'[d] = noise[d]
    BY <2>1, Zenon DEF ApplyInv, ApplyType, StateType, PlanType, Same
  <2>13. MarksOK(c)'
    BY <2>4, <2>6, <2>11, Zenon DEF MarksOK
  <2>14. CleanOK(c)'
    BY <1>1, <2>6, <2>7, <2>8, <2>11, Zenon DEF CleanOK
  <2>15. HydrationOK(c)' /\ AttemptOK(c)' /\ SentOK(c)'
    BY <2>11, Zenon DEF HydrationOK, AttemptOK, SentOK, Sent, Confirming
  <2>16. ClientOK(c)'
    BY <2>13, <2>14, <2>15, Zenon DEF ClientOK
  <2> QED
    BY <1>1, <2>10, <2>12, <2>16, QuietOthers, Zenon DEF ApplyInv
<1> QED
  BY <1>3, <1>4, Zenon

-----------------------------------------------------------------------------
(* Transmission, and requests of sessions that are gone                    *)

\* startTransmit and stopTransmit leave the streams and the groups alone.
LEMMA TransmitFacts ==
  ASSUME NEW p \in Ports
  PROVE  /\ startTransmit(p).port \in Ports /\ stopTransmit(p).port \in Ports
         /\ startTransmit(p).port.streams = p.streams /\ startTransmit(p).port.groups = p.groups
         /\ stopTransmit(p).port.streams = p.streams /\ stopTransmit(p).port.groups = p.groups
<1>1. \A q \in Ports : \A b \in BOOLEAN :
        /\ [q EXCEPT !.busy = b] \in Ports
        /\ [q EXCEPT !.busy = b].streams = q.streams /\ [q EXCEPT !.busy = b].groups = q.groups
  BY DEF Ports
<1>2. /\ updatePacketList(p) \in Ports
      /\ updatePacketList(p).streams = p.streams /\ updatePacketList(p).groups = p.groups
  BY Zenon DEF Ports, updatePacketList
<1>3. PICK q \in Ports :
        /\ startTransmit(p).port = [q EXCEPT !.busy = TRUE]
        /\ q.streams = p.streams /\ q.groups = p.groups
  BY <1>2, Zenon DEF startTransmit
<1>4. stopTransmit(p).port = [p EXCEPT !.busy = FALSE]
  BY Zenon DEF stopTransmit
<1> QED
  BY Zenon, <1>1, <1>3, <1>4

\* The contents of the port, and the clients, stay as they are.
LEMMA QuietStep ==
  ASSUME ApplyInv, SamePort, port' \in Ports, late' \subseteq [request : Requests, checked : BOOLEAN],
         UNCHANGED <<pc, streams, groups, sync, edited, todo, checked, seen, noise>>
  PROVE  ApplyInv'
<1>1. ApplyType'
  BY Zenon DEF ApplyInv, ApplyType, ServerType, StateType, PlanType
<1>2. \A c \in Clients : Same(c) /\ noise'[c] = noise[c]
  BY Zenon DEF Same
<1> QED
  BY <1>1, <1>2, StillOK, Zenon DEF ApplyInv

\* A client starts or stops transmission; a transmission ends by itself.
LEMMA TransmitStep ==
  ASSUME ApplyInv, \/ \E c \in Clients : Transmit(c)
                   \/ TransmitEnds
  PROVE  ApplyInv'
<1>1. /\ startTransmit(port).port \in Ports /\ stopTransmit(port).port \in Ports
      /\ startTransmit(port).port.streams = port.streams /\ startTransmit(port).port.groups = port.groups
      /\ stopTransmit(port).port.streams = port.streams /\ stopTransmit(port).port.groups = port.groups
  BY TransmitFacts, Zenon DEF ApplyInv, ApplyType, ServerType
<1>2. ASSUME NEW c \in Clients, Transmit(c) PROVE ApplyInv'
  <2> DEFINE p == (IF port.busy THEN stopTransmit(port) ELSE startTransmit(port)).port
  <2>1. Serve(c, p) /\ UNCHANGED <<late, pc, streams, groups, sync, edited, todo, checked, seen>>
    BY <1>2, Zenon DEF Transmit, stateVars, planVars
  <2>2. p \in Ports /\ p.streams = port.streams /\ p.groups = port.groups
    BY <1>1, Zenon
  <2> HIDE DEF p
  <2>3. port' = p /\ SamePort
    BY <2>1, <2>2, Zenon DEF Serve, SamePort
  <2>4. \A d \in Clients : noise'[d] = noise[d]
    BY <2>1, <2>2, Zenon DEF Serve
  <2>5. noise' = noise
    BY <2>1, <2>4, Zenon DEF Serve, ApplyInv, ApplyType, PlanType
  <2> QED
    BY <2>1, <2>2, <2>3, <2>5, QuietStep, Zenon DEF ApplyInv, ApplyType, ServerType
<1>3. ASSUME TransmitEnds PROVE ApplyInv'
  <2>1. /\ port' = stopTransmit(port).port
        /\ UNCHANGED <<late, pc, streams, groups, sync, edited, todo, checked, seen, noise>>
    BY <1>3, Zenon DEF TransmitEnds, stateVars, planVars
  <2>2. SamePort /\ port' \in Ports
    BY <1>1, <2>1, Zenon DEF SamePort
  <2> QED
    BY <2>1, <2>2, QuietStep, Zenon DEF ApplyInv, ApplyType, ServerType
<1> QED
  BY <1>2, <1>3, Zenon

\* A request of a session that is gone is checked, lost or carried out.
LEMMA LateStep ==
  ASSUME ApplyInv, NEW r \in late,
         LateCheck(r) \/ LateLost(r) \/ \E valid \in BOOLEAN : LateAct(r, valid)
  PROVE  ApplyInv'
<1>1. r \in [request : Requests, checked : BOOLEAN] /\ port \in Ports
  BY Zenon DEF ApplyInv, ApplyType, ServerType
<1>2. ASSUME LateCheck(r) \/ LateLost(r) PROVE ApplyInv'
  <2>1. [r EXCEPT !.checked = TRUE] \in [request : Requests, checked : BOOLEAN]
    BY Zenon, <1>1
  <2>2. UNCHANGED <<port, pc, streams, groups, sync, edited, todo, checked, seen, noise>>
    BY <1>2, Zenon DEF LateCheck, LateLost, stateVars, planVars
  <2>3. late' \subseteq late \union {[r EXCEPT !.checked = TRUE]}
    BY <1>2, Zenon DEF LateCheck, LateLost
  <2>4. late' \subseteq [request : Requests, checked : BOOLEAN]
    BY <2>1, <2>3, Zenon DEF ApplyInv, ApplyType, ServerType
  <2>5. SamePort /\ port' \in Ports
    BY <1>1, <2>2, Zenon DEF SamePort
  <2> QED
    BY <2>2, <2>4, <2>5, QuietStep, Zenon
<1>3. ASSUME NEW valid \in BOOLEAN, LateAct(r, valid) PROVE ApplyInv'
  <2> DEFINE p == Respond(port, r.request, valid).port
  <2>1. /\ Serve("late", p) /\ late' = late \ {r}
        /\ UNCHANGED <<pc, streams, groups, sync, edited, todo, checked, seen>>
    BY <1>3, Zenon DEF LateAct, stateVars, planVars
  <2>2. r.request \in Requests
    BY <1>1
  <2>3. p \in Ports
    BY <1>1, <2>2, RespondType, Zenon
  <2> HIDE DEF p
  <2>4. port' \in Ports /\ noise' \in [Clients -> Flags]
    BY <2>1, <2>3, ServeTypes, Zenon
  <2>5. ApplyType'
    BY <2>1, <2>4, Zenon DEF ApplyInv, ApplyType, ServerType, StateType, PlanType
  <2>6. \A d \in Clients : Same(d) /\ d # "late"
    BY <2>1, ApplyAssumption, Zenon DEF Same
  <2>7. \A d \in Clients : ClientOK(d)'
    BY <2>1, <2>6, ServeOthers, Zenon
  <2> QED
    BY <2>5, <2>7, Zenon DEF ApplyInv
<1> QED
  BY <1>2, <1>3, Zenon

-----------------------------------------------------------------------------
(* The theorems                                                            *)

\* Every step keeps the invariant.
LEMMA NextStep ==
  ASSUME ApplyInv, [Next]_vars
  PROVE  ApplyInv'
<1>1. ASSUME NEW c \in Clients, ClientStep(c) PROVE ApplyInv'
  BY <1>1, ConnectStep, HydrateGroupIdsStep, HydrateGroupsStep, HydrateStreamIdsStep,
     HydrateStreamsStep, BaseStreamsStep, BaseGroupsStep, PlanCheckStep, PlanActStep,
     ConfirmStreamIdsStep, ConfirmStreamsStep, ConfirmGroupIdsStep, ConfirmGroupsStep, Zenon
     DEF ClientStep
<1>2. ASSUME NEW c \in Clients, EditSome(c) \/ Apply(c) \/ Transmit(c) \/ Drop(c) PROVE ApplyInv'
  BY <1>2, EditSomeStep, ApplyStep, TransmitStep, DropStep, Zenon
<1>3. ASSUME TransmitEnds PROVE ApplyInv'
  BY <1>3, TransmitStep, Zenon
<1>4. ASSUME UNCHANGED vars PROVE ApplyInv'
  <2>1. /\ port' = port /\ late' = late
        /\ UNCHANGED <<pc, streams, groups, sync, edited, todo, checked, seen, noise>>
    BY <1>4, Zenon DEF vars
  <2>2. SamePort /\ port' \in Ports /\ late' \subseteq [request : Requests, checked : BOOLEAN]
    BY <2>1, Zenon DEF SamePort, ApplyInv, ApplyType, ServerType
  <2> QED
    BY <2>1, <2>2, QuietStep, Zenon
<1> QED
  BY <1>1, <1>2, <1>3, <1>4, LateStep, Zenon DEF Next

\* A client that has just been started is down and knows nothing.
LEMMA InitOK == Init => ApplyInv
<1> SUFFICES ASSUME Init PROVE ApplyInv
  OBVIOUS
<1>1. NewPort \in Ports
  <2>1. [i \in {} |-> Blank] \in Contents
    BY EmptyType, Zenon DEF Empty
  <2> QED
    BY <2>1 DEF NewPort, Ports
<1>2. /\ Clean({}, {}) \in Syncs /\ Clean({}, {}).modified = {} /\ NothingSeen \in Seens
      /\ <<>> \in Seq(Operations)
  BY EmptyType DEF Clean, Syncs, NothingSeen, Seens
<1>3. Quiet \in Flags
  BY DEF Quiet, Flags
<1>4. Empty \in Contents /\ "down" \in Locations
  BY EmptyType, Zenon DEF Locations
<1>5. ServerType
  BY <1>1, Zenon DEF Init, ServerType
<1>6. StateType
  BY <1>2, <1>4, Zenon DEF Init, StateType
<1>7. PlanType
  BY <1>2, <1>3, <1>4, Zenon DEF Init, PlanType
<1>8. ASSUME NEW c \in Clients PROVE ClientOK(c)
  <2>1. /\ pc[c] = "down" /\ sync[c] = Clean({}, {}) /\ edited[c] = {}
        /\ noise[c] = Quiet
    BY Zenon DEF Init
  <2>2. ~noise[c].new
    BY <2>1 DEF Quiet
  <2>3. MarksOK(c)
    BY <1>2, <2>1, <2>2, Zenon DEF MarksOK
  <2>4. HydrationOK(c) /\ AttemptOK(c)
    BY <2>1, Zenon DEF HydrationOK, AttemptOK
  <2>5. CleanOK(c) /\ SentOK(c)
    BY <2>1, Zenon DEF CleanOK, SentOK, Sent, Up, Confirming
  <2> QED
    BY <2>3, <2>4, <2>5, Zenon DEF ClientOK
<1> QED
  BY <1>5, <1>6, <1>7, <1>8, Zenon DEF ApplyInv, ApplyType

\* The inductive invariant of connect and apply, for any number of clients, ids and values
THEOREM ApplyInvariant == Spec => []ApplyInv
<1>1. ApplyInv /\ [Next]_vars => ApplyInv'
  BY NextStep
<1> QED
  BY <1>1, InitOK, PTL DEF Spec

\* A client that is not dirty has the streams and the device groups of the port, unless others
\* have changed it since: what PortState::dirty() promises after connect, after an apply that
\* succeeded and after one that failed half way.
THEOREM CleanClientsAreApplied == Spec => []CleanIsApplied
<1>1. ApplyInv => CleanIsApplied
  BY Zenon DEF ApplyInv, ClientOK, CleanOK, CleanIsApplied, Up
<1> QED
  BY <1>1, ApplyInvariant, PTL

\* Only the step of c that compares the read-back takes c from there to idle.
LEMMA OnlyConfirm ==
  ASSUME ApplyInv, [Next]_vars, NEW c \in Clients, pc[c] = "confirmGroups", pc'[c] = "idle"
  PROVE  ConfirmGroups(c)
<1>1. pc \in [Clients -> Locations]
  BY Zenon DEF ApplyInv, ApplyType, PlanType
<1>2. pc' # pc
  BY Zenon
<1>3. \A d : \A l : pc' = [pc EXCEPT ![d] = l] => c = d
  BY <1>1, Zenon
<1>4. ASSUME NEW d \in Clients, ClientStep(d) PROVE ConfirmGroups(c)
  <2>1. d = c
    <3>1. \E l : pc' = [pc EXCEPT ![d] = l]
      BY <1>2, <1>4, Zenon
         DEF ClientStep, Connect, HydrateGroupIds, HydrateGroups, HydrateStreamIds, HydrateStreams,
             BaseStreams, BaseGroups, PlanCheck, PlanAct, ConfirmStreamIds, ConfirmStreams,
             ConfirmGroupIds, ConfirmGroups, Fail, Goto
    <3> QED
      BY <1>3, <3>1, Zenon
  <2> QED
    BY <1>4, <2>1, Zenon
       DEF ClientStep, Connect, HydrateGroupIds, HydrateGroups, HydrateStreamIds, HydrateStreams,
           BaseStreams, BaseGroups, PlanCheck, PlanAct, ConfirmStreamIds, ConfirmStreams, ConfirmGroupIds
<1>5. ASSUME NEW d \in Clients, EditSome(d) PROVE FALSE
  BY <1>2, <1>5, Zenon
     DEF EditSome, AddStream, UpdateStream, DeleteStream, AddDeviceGroup, UpdateDeviceGroup,
         DeleteDeviceGroup, Edit
<1>6. ASSUME NEW d \in Clients, Apply(d) PROVE FALSE
  BY <1>3, <1>6, Zenon DEF Apply, Goto
<1>7. ASSUME NEW d \in Clients, Transmit(d) PROVE FALSE
  BY <1>2, <1>7, Zenon DEF Transmit
<1>8. ASSUME NEW d \in Clients, Drop(d) PROVE FALSE
  <2>1. pc' = [pc EXCEPT ![d] = "down"]
    BY <1>8, Zenon DEF Drop, Goto
  <2> QED
    BY <1>1, <1>3, <2>1, Zenon
<1>9. ASSUME NEW r \in late, LateCheck(r) \/ LateLost(r) \/ \E valid \in BOOLEAN : LateAct(r, valid)
      PROVE  FALSE
  BY <1>2, <1>9, Zenon DEF LateCheck, LateLost, LateAct
<1>10. ASSUME TransmitEnds \/ UNCHANGED vars PROVE FALSE
  BY <1>2, <1>10, Zenon DEF TransmitEnds, vars
<1> QED
  BY <1>4, <1>5, <1>6, <1>7, <1>8, <1>9, <1>10, Zenon DEF Next

\* That step takes over the device groups of the port if the comparison is favourable.
LEMMA ConfirmOutcome ==
  ASSUME ApplyInv, NEW c \in Clients, ConfirmGroups(c), Confirmed(c)
  PROVE  port' = port /\ groups'[c] = Restrict(port.groups, seen[c].groupIds)
  BY Zenon DEF ConfirmGroups, ApplyInv, ApplyType, StateType

\* An apply that succeeds leaves the server with the desired streams and device groups, all of
\* them and no others, whatever other clients and late requests did to the port before the
\* read-back began: the read-back is what the port held ever since, and it was compared.
THEOREM SuccessfulApplyIsServed == Spec => SuccessIsServed
<1>1. ASSUME ApplyInv, [Next]_vars
      PROVE  \A c \in Clients :
               Succeeds(c) /\ ~noise[c].back =>
                 /\ port'.streams = streams[c]
                 /\ DOMAIN port'.groups = DOMAIN groups[c] /\ port'.groups = groups'[c]
  <2> SUFFICES ASSUME NEW c \in Clients, Succeeds(c), ~noise[c].back
               PROVE  /\ port'.streams = streams[c]
                      /\ DOMAIN port'.groups = DOMAIN groups[c] /\ port'.groups = groups'[c]
    BY Zenon
  <2>1. ConfirmGroups(c) /\ pc[c] = "confirmGroups" /\ Confirmed(c)
    BY <1>1, OnlyConfirm, Zenon DEF Succeeds
  <2>2. port' = port /\ groups'[c] = Restrict(port.groups, seen[c].groupIds)
    BY <1>1, <2>1, ConfirmOutcome, Zenon
  <2>3. seen[c].streams = port.streams /\ seen[c].groupIds = DOMAIN port.groups
    BY <1>1, <2>1, Zenon DEF ApplyInv, ClientOK, AttemptOK
  <2>4. Restrict(port.groups, DOMAIN port.groups) = port.groups
    BY <1>1, TypeFacts, NoEffect, Zenon DEF ApplyInv
  <2> QED
    BY <2>1, <2>2, <2>3, <2>4, Zenon DEF Confirmed
<1> QED
  BY <1>1, ApplyInvariant, PTL DEF Spec, SuccessIsServed

\* An apply that succeeds without interference has every device group as it was edited, in the
\* form the server gives it, however many attempts failed since: a group stays marked until a
\* read-back, and the plan sends the marked groups.
THEOREM EditsSurvive == Spec => NoEditLost
<1>1. ASSUME ApplyInv, [Next]_vars
      PROVE  \A c \in Clients :
               Succeeds(c) /\ ~noise[c].new =>
                 \A i \in edited[c] \intersect DOMAIN groups[c] : groups'[c][i] = Canon(groups[c][i])
  <2> SUFFICES ASSUME NEW c \in Clients, Succeeds(c), ~noise[c].new,
                      NEW i \in edited[c] \intersect DOMAIN groups[c]
               PROVE  groups'[c][i] = Canon(groups[c][i])
    BY Zenon
  <2>1. ConfirmGroups(c) /\ pc[c] = "confirmGroups" /\ Confirmed(c)
    BY <1>1, OnlyConfirm, Zenon DEF Succeeds
  <2>2. groups'[c] = Restrict(port.groups, seen[c].groupIds)
    BY <1>1, <2>1, ConfirmOutcome, Zenon
  <2>3. i \in DOMAIN port.groups /\ port.groups[i] = Canon(groups[c][i])
    BY <1>1, <2>1, Zenon DEF ApplyInv, ClientOK, SentOK, Sent, Confirming
  <2>4. i \in seen[c].groupIds
    BY <2>1, Zenon DEF Confirmed
  <2> QED
    BY <2>2, <2>3, <2>4, Zenon DEF Restrict
<1> QED
  BY <1>1, ApplyInvariant, PTL DEF Spec, NoEditLost
=============================================================================
