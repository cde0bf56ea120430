------------------------------ MODULE Devices ------------------------------
(***************************************************************************)
(* The emulated devices of a drone port: DeviceManager, Device, EmulDevice *)
(* and the host's own device (src/server/devicemanager.cpp, device.cpp,    *)
(* emuldevice.cpp, linuxhostdevice.cpp).  An RPC thread changes device     *)
(* groups and resolves neighbours; the transceiver thread receives frames  *)
(* at the same time.  The port's lock lets one RPC thread in at a time;    *)
(* listLock_ makes a received frame and an enumeration exclude each other, *)
(* but the resolution of neighbours does not take it.                      *)
(*                                                                         *)
(* IPv4 (ARP) and IPv6 (NDP) are the families 4 and 6.  An address is a    *)
(* number, its subnet the number divided by SubnetSize; 0 is no address,   *)
(* and from Mcast on the addresses are multicast.                          *)
(***************************************************************************)
EXTENDS Naturals, Sequences, FiniteSets, FiniteSetsExt, SequencesExt, Functions

CONSTANTS GroupIds,    \* device group ids a client uses
          Configs,     \* what modifyDeviceGroup() sets: vlans, mac, count, ip, gw and steps
          DefaultMac,  \* [GroupIds -> mac]: the random address of a new group
          HostLinks,   \* the interfaces the port may be on: {} or mac, routes and addresses
          Frames,      \* frames the network sends to the port
          Packets,     \* the frames of the port's streams that are to be resolved
          MaxOps,      \* bound: changes of device groups
          MaxRx,       \* bound: frames received
          MaxResolves  \* bound: resolutions

VARIABLES groups,    \* deviceGroupList_
          devs,      \* deviceList_: the devices, each with its key
          bcast,     \* bcastList_: <<broadcast key, device>>
          tpids,     \* tpidList_: how many vlan tags of groups use a TPID
          table,     \* arpTable_ and ndpTable_: [device -> [family -> [ip -> mac]]]
          gateways,  \* whose gateways a resolution has still to ask for: <<device, family>>
          lookups,   \* the stream frames it has still to look at
          pending,   \* the request just sent:  its table entry is set afterwards
          busy,      \* a resolution is under way
          emitted,   \* the frames sent by the last step
          heard,     \* what received frames said: <<vlan key, family, ip, mac>>
          shared,    \* devices of two groups, or of the host, met in one vlan
          born,      \* device group operations so far
          rx, resolves

deviceVars == <<groups, devs, bcast, tpids, table, gateways, lookups, pending, busy, emitted,
          heard, shared, born, rx, resolves>>

Families == {4, 6}
kMaxVlan == 4
BcastMac == 99
SubnetSize == 10
Mcast == 200

---------------------------------------------------------------------------
(* Enumeration *)

(* vlanCount[j]: the vlans of the tags from level j inwards. *)
vlanCount(vlans) ==
    LET below[j \in 1..(Len(vlans) + 1)] ==
            IF j > Len(vlans) THEN 1 ELSE vlans[j].count * below[j + 1]
    IN  below

(* Mutant: a tag repeats as often as its own level has vlans. *)
TagsLevel(vlans, i) ==
    [j \in 1..Len(vlans) |->
        <<vlans[j].tpid, vlans[j].tag + ((i \div vlanCount(vlans)[j]) % vlans[j].count) * vlans[j].step>>]

(* The tags of the i-th vlan. *)
Tags(vlans, i) ==
    [j \in 1..Len(vlans) |->
        <<vlans[j].tpid, vlans[j].tag + ((i \div vlanCount(vlans)[j + 1]) % vlans[j].count) * vlans[j].step>>]

(* The vlan part of a device key: the ids without priority, the unused levels zero. *)
VlanKey(tags) == [j \in 1..kMaxVlan |-> IF j <= Len(tags) THEN tags[j][2] % 4096 ELSE 0]

Key(d) == <<VlanKey(d.tags), d.mac>>

(* setIp4(), setIp6() of the k-th device; a group has addresses of a family or not. *)
AddressAt(g, f, k) == IF g.ip[f] = 0 THEN 0 ELSE g.ip[f] + k * g.ipStep[f]

(* The devices of a group, in the order in which enumerateDevices() makes them. *)
Enumerate(g) ==
    [n \in 1..(vlanCount(g.vlans)[1] * g.count) |->
        LET k == (n - 1) % g.count
        IN  [kind |-> <<"emul", 0, 0>>,
             tags |-> Tags(g.vlans, (n - 1) \div g.count),
             mac  |-> g.mac + k * g.macStep,
             ip   |-> [f \in Families |-> AddressAt(g, f, k)],
             gw   |-> g.gw]]

Enumerated(g) == Range(Enumerate(g))

(* populateInterfaceInfo(): the gateway of a family is that of the first default route  *)
(* of the main table whose first next hop is on the link and has a gateway.            *)
GatewayOf(link, f) ==
    LET usable == SelectSeq(link.routes, LAMBDA r : r.f = f /\ r.main /\ r.default /\ r.onLink /\ r.gw # 0)
    IN  IF usable = <<>> THEN 0 ELSE Head(usable).gw

isLinkLocal(ip) == ip < SubnetSize

(* createHostDevices(): the first address of a family, link local only if it is the one. *)
AddressOf(link, f) ==
    LET all == SelectSeq(link.addrs, LAMBDA a : a.f = f /\ a.onLink)
        usable == SelectSeq(all, LAMBDA a : ~isLinkLocal(a.ip) \/ Len(all) = 1)
    IN  IF usable = <<>> THEN 0 ELSE Head(usable).ip

createHostDevices(links) ==
    {[kind |-> <<"host", 0, 0>>, tags |-> <<>>, mac |-> link.mac,
      ip |-> [f \in Families |-> AddressOf(link, f)],
      gw |-> [f \in Families |-> IF AddressOf(link, f) = 0 THEN 0 ELSE GatewayOf(link, f)]] : link \in links}

isHost(d) == d.kind[1] = "host"

(* newDeviceGroup(): one device without vlan or address, of a random mac. *)
NewGroup(id) ==
    [vlans |-> <<>>, mac |-> DefaultMac[id], macStep |-> 1, count |-> 1,
     ip |-> [f \in Families |-> 0], ipStep |-> [f \in Families |-> 1], gw |-> [f \in Families |-> 0]]

TagsOf(g) == {<<g.vlans[j].tpid, j>> : j \in DOMAIN g.vlans}

UsesOf(g, t) == Cardinality({u \in TagsOf(g) : u[1] = t})

(* tpidList_ after an enumeration that adds or deletes a group; 0 is no entry. *)
tpidsAfter(old, gone, new) == [t \in DOMAIN old |-> old[t] + UsesOf(new, t) - UsesOf(gone, t)]

NoGroup == [NewGroup(CHOOSE id \in GroupIds : TRUE) EXCEPT !.count = 0]

NoTable == [f \in Families |-> <<>>]

(* deleteDevice() for every device of a group.  bcastList_.take() removes some device *)
(* of the same vlan, whichever comes first.                                          *)
DevicesOf(g) == {d \in devs : \E e \in Enumerated(g) : Key(d) = Key(e)}

InVlan(list, v) == {b \in list : b[1] = v}

TakenFrom(list, gone) ==
    {r \in SUBSET list :
        \A v \in {b[1] : b \in list} :
            LET n == Cardinality({d \in gone : VlanKey(d.tags) = v})
            IN  Cardinality(InVlan(r, v)) = IF n < Cardinality(InVlan(list, v)) THEN n
                                            ELSE Cardinality(InVlan(list, v))}

(* insertDevice() for every device of a group whose key is not taken. *)
Inserted(g, id, rest) ==
    {[d EXCEPT !.kind = <<"emul", id, born>>] :
        d \in {e \in Enumerated(g) : \A o \in rest : Key(o) # Key(e)}}

(* Devices of another origin in the vlan of a device that goes. *)
Mixed(gone) == \E d \in gone, o \in devs \ gone : VlanKey(d.tags) = VlanKey(o.tags)

(* enumerateDevices(kDelete) of the group as it was, then enumerateDevices(kAdd). *)
Replace(gone, new, id) ==
    LET dead == DevicesOf(gone)
        rest == devs \ dead
        made == Inserted(new, id, rest)
    IN  /\ devs' = rest \cup made
        /\ \E r \in TakenFrom(bcast, dead) :
              bcast' = (bcast \ r) \cup {<<VlanKey(d.tags), d>> : d \in made}
        /\ tpids' = tpidsAfter(tpids, gone, new)
        /\ table' = [d \in rest \cup made |-> IF d \in rest THEN table[d] ELSE NoTable]
        /\ shared' = (shared \/ Mixed(dead))

---------------------------------------------------------------------------
(* Device groups *)

Idle == ~busy /\ born < MaxOps /\ born' = born + 1 /\ emitted' = {}

GroupFrame == UNCHANGED <<gateways, lookups, pending, busy, heard, rx, resolves>>

addDeviceGroup(id) ==
    /\ Idle /\ id \notin DOMAIN groups
    /\ groups' = [i \in DOMAIN groups \cup {id} |-> IF i = id THEN NewGroup(id) ELSE groups[i]]
    /\ Replace(NoGroup, NewGroup(id), id)
    /\ GroupFrame

deleteDeviceGroup(id) ==
    /\ Idle /\ id \in DOMAIN groups
    /\ groups' = Restrict(groups, DOMAIN groups \ {id})
    /\ Replace(groups[id], NoGroup, id)
    /\ GroupFrame

(* A mac step of 0 becomes 1. *)
modifyDeviceGroup(id, g) ==
    /\ Idle /\ id \in DOMAIN groups
    /\ LET new == [g EXCEPT !.macStep = IF @ = 0 THEN 1 ELSE @]
       IN  groups' = [groups EXCEPT ![id] = new] /\ Replace(groups[id], new, id)
    /\ GroupFrame

---------------------------------------------------------------------------
(* Receiving *)

EmulLookup(d, f, ip) == IF ip \in DOMAIN table[d][f] THEN table[d][f][ip] ELSE 0

(* The first entry of the kernel for the address on this interface, if it has a mac. *)
HostLookup(d, f, ip) ==
    LET entries == {i \in DOMAIN table[d][f] : i = ip /\ table[d][f][i] # 0}
    IN  IF entries = {} THEN 0 ELSE table[d][f][ip]

Lookup(d, f, ip) == IF isHost(d) THEN HostLookup(d, f, ip) ELSE EmulLookup(d, f, ip)

isResolved(d, f, ip) == Lookup(d, f, ip) > 0

Learn(t, f, ip, mac) == [t EXCEPT ![f] = [i \in DOMAIN @ \cup {ip} |-> IF i = ip THEN mac ELSE @[i]]]

(* The address a packet for dst goes to: dst itself or the gateway. *)
NextHop(d, f, dst) ==
    IF dst \div SubnetSize = d.ip[f] \div SubnetSize THEN dst ELSE d.gw[f]

Reply(d, f, kind, to, tgt) ==
    [f |-> f, kind |-> kind, tags |-> d.tags, dst |-> to, src |-> d.ip[f], mac |-> d.mac, tgt |-> tgt]

(* What a device does with a packet: its table and the frames it sends. *)
receiveArp(d, p) ==
    IF p.tgt # d.ip[4] THEN [table |-> table[d], out |-> {}]
    ELSE [table |-> Learn(table[d], 4, p.src, p.mac),
          out   |-> IF p.kind = "request" THEN {Reply(d, 4, "reply", p.mac, p.src)} ELSE {}]

(* A solicitation: the sender is learnt if it has an address; the advertisement goes  *)
(* to it, or to all nodes when it has none.                                           *)
sendNeighborAdvertisement(d, p) ==
    LET learnt == IF p.src = 0 THEN table[d] ELSE Learn(table[d], 6, p.src, p.mac)
        hop    == NextHop(d, 6, p.src)
        to     == IF p.src = 0 THEN BcastMac
                  ELSE IF hop \in DOMAIN learnt[6] THEN learnt[6][hop] ELSE 0
    IN  IF p.tgt # d.ip[6] THEN [table |-> table[d], out |-> {}]
        ELSE [table |-> learnt, out |-> IF to = 0 THEN {} ELSE {Reply(d, 6, "reply", to, p.src)}]

(* An advertisement: only a solicited one, and only one that overrides or is needed. *)
receiveAdvertisement(d, p) ==
    [table |-> IF p.solicited /\ (p.override \/ ~isResolved(d, 6, p.src))
               THEN Learn(table[d], 6, p.src, p.mac) ELSE table[d],
     out   |-> {}]

receiveNdp(d, p) ==
    IF p.kind = "request" THEN sendNeighborAdvertisement(d, p) ELSE receiveAdvertisement(d, p)

(* An echo request is turned round in place if the next hop is in the table. *)
receiveEcho(d, p) ==
    [table |-> table[d],
     out   |-> IF p.tgt = d.ip[p.f] /\ NextHop(d, p.f, p.src) \in DOMAIN table[d][p.f]
               THEN {Reply(d, p.f, "echo", table[d][p.f][NextHop(d, p.f, p.src)], p.src)} ELSE {}]

receivePacket(d, p) ==
    IF isHost(d) \/ d.ip[p.f] = 0 THEN [table |-> table[d], out |-> {}]
    ELSE IF p.kind = "echo" THEN receiveEcho(d, p)
    ELSE IF p.f = 4 THEN receiveArp(d, p) ELSE receiveNdp(d, p)

(* Mutant: a solicitation for another device leaves the buffer behind the IPv6 header. *)
MovesAlways(d, p) ==
    /\ ~isHost(d) /\ d.ip[p.f] # 0
    /\ \/ p.kind = "echo" /\ receiveEcho(d, p).out # {}
       \/ p.f = 6 /\ p.kind \in {"request", "reply"}

(* The shared buffer does not point to the EthType any more when the device is done:  *)
(* after an echo it sent back, and after an advertisement.  A solicitation is put     *)
(* back, whether it was for this device or not.                                       *)
Moves(d, p) ==
    /\ ~isHost(d) /\ d.ip[p.f] # 0
    /\ \/ p.kind = "echo" /\ receiveEcho(d, p).out # {}
       \/ p.f = 6 /\ p.kind = "reply"

(* Mutant: the mask of the vlan id is one bit too short. *)
vlansMasked(p) == [j \in 1..kMaxVlan |-> VlanKey(p.tags)[j] - (VlanKey(p.tags)[j] % 2)]

(* The vlan ids in front of the frame; their TPIDs must be known. *)
vlansParsed(p) == VlanKey(p.tags)

Understood(p) == \A j \in DOMAIN p.tags : p.tags[j][1] \in DOMAIN tpids /\ tpids[p.tags[j][1]] > 0

(* Multicast is broadcast: every device of the vlan; else the one with the key. *)
Addressed(p) ==
    IF ~Understood(p) THEN {}
    ELSE IF p.dst = BcastMac
         THEN {b[2] : b \in {x \in bcast : x[1] = vlansParsed(p) /\ x[2] \in devs}}
         ELSE {d \in devs : Key(d) = <<vlansParsed(p), p.dst>>}

(* One buffer goes from device to device, in the list's order. *)
Handed(order, p) == {order[i] : i \in {n \in DOMAIN order : \A j \in 1..(n - 1) : ~Moves(order[j], p)}}

Receive(p) ==
    /\ rx < MaxRx /\ rx' = rx + 1
    /\ DOMAIN groups # {}
    /\ \E order \in SetToSeqs(Addressed(p)) :
         LET reached == Handed(order, p)
         IN  /\ table' = [d \in devs |-> IF d \in reached THEN receivePacket(d, p).table ELSE table[d]]
             /\ emitted' = UNION {receivePacket(d, p).out : d \in reached}
    /\ heard' = heard \cup {<<VlanKey(p.tags), p.f, p.src, p.mac>>}
    /\ UNCHANGED <<groups, devs, bcast, tpids, gateways, lookups, pending, busy, shared, born, resolves>>

---------------------------------------------------------------------------
(* Resolving *)

ResolveFrame == UNCHANGED <<groups, devs, bcast, tpids, heard, shared, born, rx>>

NoRequest == <<>>

(* Emulated devices forget all or the unresolved entries; the host forgets all its *)
(* kernel has learnt, or nothing.                                                    *)
EmulCleared(d, set) ==
    IF set = "kAllNeighbors" THEN NoTable
    ELSE [f \in Families |-> Restrict(table[d][f], {i \in DOMAIN table[d][f] : isResolved(d, f, i)})]

HostCleared(d, set) == IF set = "kAllNeighbors" THEN NoTable ELSE table[d]

clearNeighbors(set) ==
    table' = [d \in devs |-> IF isHost(d) THEN HostCleared(d, set) ELSE EmulCleared(d, set)]

(* resolveDeviceNeighbors(): unresolved entries go first. *)
ResolveBegin ==
    /\ ~busy /\ resolves < MaxResolves /\ resolves' = resolves + 1
    /\ busy' = TRUE
    /\ clearNeighbors("kUnresolvedNeighbors")
    /\ gateways' = SetToSeq({<<d, f>> \in devs \X Families : d.ip[f] # 0 /\ d.gw[f] # 0})
    /\ lookups' = Packets
    /\ emitted' = {}
    /\ UNCHANGED pending /\ ResolveFrame

(* sendArpRequest(), sendNeighborSolicit(): the request is sent ... *)
EmulRequest(d, f, tgt) == ~isHost(d) /\ pending' = <<d, f, tgt>> /\ UNCHANGED table

(* The kernel makes an entry and sends the request by itself. *)
HostRequest(d, f, tgt) ==
    isHost(d) /\ table' = [table EXCEPT ![d] = Learn(@, f, tgt, 0)] /\ UNCHANGED pending

Request(d, f, tgt) ==
    IF tgt = 0 \/ isResolved(d, f, tgt) THEN UNCHANGED <<pending, table>> /\ emitted' = {}
    ELSE /\ emitted' = {Reply(d, f, "request", BcastMac, tgt)}
         /\ EmulRequest(d, f, tgt) \/ HostRequest(d, f, tgt)

(* ... and only then is its entry made, as unresolved.  The kernel does both at once. *)
Unresolved ==
    /\ pending # NoRequest
    /\ pending' = NoRequest
    /\ table' = [table EXCEPT ![pending[1]] = Learn(@, pending[2], pending[3], 0)]
    /\ emitted' = {}
    /\ UNCHANGED <<gateways, lookups, busy, resolves>> /\ ResolveFrame

resolveGateway ==
    /\ pending = NoRequest /\ gateways # <<>>
    /\ gateways' = Tail(gateways)
    /\ LET d == Head(gateways)[1]
           f == Head(gateways)[2]
       IN  Request(d, f, d.gw[f])
    /\ UNCHANGED <<lookups, busy, resolves>> /\ ResolveFrame

isOrigin(d, p) == d.ip[p.f] # 0 /\ d.ip[p.f] = p.src

(* originDevice(): a device of the packet's vlan with its source address. *)
originDevice(p) ==
    {b[2] : b \in {x \in bcast : /\ x[1] = VlanKey(p.tags) /\ x[2] \in devs
                                 /\ Understood(p) /\ isOrigin(x[2], p)}}

resolveNeighbor ==
    /\ busy /\ pending = NoRequest /\ gateways = <<>> /\ lookups # <<>>
    /\ lookups' = Tail(lookups)
    /\ LET p == Head(lookups)
       IN  \/ originDevice(p) = {} /\ emitted' = {} /\ UNCHANGED <<pending, table>>
           \/ \E d \in originDevice(p) : Request(d, p.f, NextHop(d, p.f, p.dst))
    /\ UNCHANGED <<gateways, busy, resolves>> /\ ResolveFrame

ResolveEnd ==
    /\ busy /\ pending = NoRequest /\ gateways = <<>> /\ lookups = <<>>
    /\ busy' = FALSE
    /\ emitted' = {}
    /\ UNCHANGED <<table, gateways, lookups, pending, resolves>> /\ ResolveFrame

clearDeviceNeighbors ==
    /\ ~busy /\ resolves < MaxResolves /\ resolves' = resolves + 1
    /\ clearNeighbors("kAllNeighbors")
    /\ emitted' = {}
    /\ UNCHANGED <<gateways, lookups, pending, busy>> /\ ResolveFrame

(* The host's neighbour table is the kernel's, which learns by itself. *)
KernelLearns(p) ==
    /\ rx < MaxRx /\ rx' = rx + 1
    /\ p.tags = <<>> /\ \E d \in devs : isHost(d) /\ d.ip[p.f] = p.tgt
    /\ table' = [d \in devs |-> IF isHost(d) THEN Learn(table[d], p.f, p.src, p.mac) ELSE table[d]]
    /\ emitted' = {}
    /\ heard' = heard \cup {<<VlanKey(p.tags), p.f, p.src, p.mac>>}
    /\ UNCHANGED <<groups, devs, bcast, tpids, gateways, lookups, pending, busy, shared, born, resolves>>

---------------------------------------------------------------------------
(* What others ask of the devices *)

(* getDeviceNeighbors(): the entries of a device, unresolved ones with mac 0. *)
EmulNeighbors(d) == UNION {{<<f, ip, table[d][f][ip]>> : ip \in DOMAIN table[d][f]} : f \in Families}

HostNeighbors(d) == UNION {{<<f, ip, HostLookup(d, f, ip)>> : ip \in DOMAIN table[d][f]} : f \in Families}

getNeighbors(d) == IF isHost(d) THEN HostNeighbors(d) ELSE EmulNeighbors(d)

(* The addresses put in a stream's frame whose mac protocol is to resolve them; a     *)
(* multicast address has a mac of its own, and 0 is none.                             *)
McastMac(ip) == 1000 + ip

neighborMac(d, p) == IF p.dst >= Mcast THEN McastMac(p.dst) ELSE Lookup(d, p.f, NextHop(d, p.f, p.dst))

deviceMacAddress(p) == IF originDevice(p) = {} THEN {0} ELSE {d.mac : d \in originDevice(p)}

neighborMacAddress(p) == IF originDevice(p) = {} THEN {0} ELSE {neighborMac(d, p) : d \in originDevice(p)}

---------------------------------------------------------------------------
DevicesInit ==
    /\ groups = <<>>
    /\ \E links \in {{}} \cup {{link} : link \in HostLinks} : devs = createHostDevices(links)
    /\ bcast = {<<VlanKey(d.tags), d>> : d \in devs}
    /\ tpids = [t \in UNION {{u[1] : u \in TagsOf(g)} : g \in Configs} |-> 0]
    /\ table = [d \in devs |-> NoTable]
    /\ gateways = <<>> /\ lookups = <<>> /\ pending = NoRequest /\ busy = FALSE
    /\ emitted = {} /\ heard = {} /\ shared = FALSE
    /\ born = 0 /\ rx = 0 /\ resolves = 0

DevicesNext ==
    \/ \E id \in GroupIds :
         addDeviceGroup(id) \/ deleteDeviceGroup(id) \/ \E g \in Configs : modifyDeviceGroup(id, g)
    \/ \E p \in Frames : Receive(p) \/ KernelLearns(p)
    \/ ResolveBegin \/ Unresolved \/ resolveNeighbor \/ ResolveEnd \/ clearDeviceNeighbors \/ resolveGateway

DevicesSpec == DevicesInit /\ [][DevicesNext]_deviceVars

---------------------------------------------------------------------------
(* Properties *)

(* The vlans of a group are all combinations of its levels' tags, by the arithmetic   *)
(* of enumerateDevices(), with every device of the group in each exactly once; and    *)
(* tpidList_ counts the tags of the groups there are, so that a TPID is known exactly *)
(* as long as a group uses it, through every order of adding, changing and deleting.  *)
EnumerationIsProduct ==
    /\ \A g \in Range(groups) : \A made \in {Enumerate(g)} :
        LET steps == {n \in [DOMAIN g.vlans -> 0..3] : \A j \in DOMAIN g.vlans : n[j] < g.vlans[j].count}
            stacks == {[j \in DOMAIN g.vlans |->
                          <<g.vlans[j].tpid, g.vlans[j].tag + n[j] * g.vlans[j].step>>] : n \in steps}
        IN  /\ {<<d.tags, d.mac>> : d \in Range(made)}
                 = stacks \X {g.mac + k * g.macStep : k \in 0..(g.count - 1)}
            /\ IsInjective(made)
    /\ \A t \in DOMAIN tpids :
        tpids[t] = MapThenSumSet(LAMBDA id : UsesOf(groups[id], t), DOMAIN groups)

(* What getDeviceNeighbors() says of a device's neighbour was said in the device's own *)
(* vlan by a frame that was received: tables do not leak between vlans or families.    *)
(* And the destination put in a stream's frame is what such a frame said of its next   *)
(* hop, the gateway if the destination is in another subnet; its source is a device    *)
(* that the port has.                                                                  *)
TableIsHeard ==
    /\ \A d \in devs : \A n \in getNeighbors(d) :
         n[3] # 0 => <<VlanKey(d.tags), n[1], n[2], n[3]>> \in heard
    /\ \A p \in Range(Packets) :
         /\ deviceMacAddress(p) \subseteq {0} \cup {d.mac : d \in devs}
         /\ \A mac \in neighborMacAddress(p) \ {0, McastMac(p.dst)} : \E d \in originDevice(p) :
              <<VlanKey(p.tags), p.f, NextHop(d, p.f, p.dst), mac>> \in heard

(* As long as no vlan was shared by two groups, the owner of an address answers a     *)
(* broadcast request for it, wherever it is in the list of the vlan's devices that    *)
(* the one buffer is handed to: with its mac, in its vlan, to the asker.              *)
OwnerAnswers ==
    [][\A p \in Frames : Receive(p) /\ ~shared /\ p.kind = "request" /\ p.dst = BcastMac /\ Understood(p) =>
         \A d \in devs : ~isHost(d) /\ d.ip[p.f] = p.tgt /\ VlanKey(d.tags) = VlanKey(p.tags)
                         /\ (p.f = 6 /\ p.src # 0 => NextHop(d, 6, p.src) = p.src) =>
            \E a \in emitted' : a.kind = "reply" /\ a.mac = d.mac /\ a.tags = d.tags
                             /\ a.dst = IF p.src = 0 THEN BcastMac ELSE p.mac]_deviceVars
=============================================================================
