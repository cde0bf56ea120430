----------------------------- MODULE StreamBase ------------------------------
(* AbstractProtocol and StreamBase of common/: how the protocols of a stream *)
(* become the bytes of its frames.                                           *)
(*                                                                           *)
(* A stream has core (its name-free settings), control and protos, the       *)
(* sequence of its protocols.  A protocol is [leaves, vf]: the data of its   *)
(* class, or for a ComboProtocol of the classes it is made of in order, and  *)
(* its variable fields.  At most one protocol of a stream pads it (payload,  *)
(* or a last hexdump with pad_until_end): the sizes of two would be defined  *)
(* by each other.                                                            *)
EXTENDS Protocols, FiniteSets

kFcsSize == 4

SumRange(q, a, b) == Sum(SubSeq(q, a, b))

-----------------------------------------------------------------------------
(* Numeric helpers of AbstractProtocol                                       *)

\* Stein's binary gcd.
RECURSIVE SteinLoop(_, _)
SteinLoop(u, v) ==
  IF v = 0 THEN u
  ELSE IF v % 2 = 0 THEN SteinLoop(u, v \div 2)
  ELSE IF u < v THEN SteinLoop(u, (v - u) \div 2)
  ELSE SteinLoop(v, (u - v) \div 2)

RECURSIVE gcd(_, _)
gcd(u, v) ==
  IF u = 0 \/ v = 0 THEN u + v
  ELSE IF u % 2 = 0 /\ v % 2 = 0 THEN 2 * gcd(u \div 2, v \div 2)
  ELSE IF u % 2 = 0 THEN gcd(u \div 2, v)
  ELSE SteinLoop(u, v)

\* A zero is silently taken for 1.
lcm(u0, v0) ==
  LET u == IF u0 = 0 THEN 1 ELSE u0
      v == IF v0 = 0 THEN 1 ELSE v0
  IN (u * v) \div gcd(u, v)

LcmOf(S) == FoldSet(lcm, 1, S)

-----------------------------------------------------------------------------
(* Frame lengths and counts                                                  *)

frameCount(s) ==
  IF s.control.unit = "packets" THEN s.control.num_packets
  ELSE s.control.num_bursts * s.control.packets_per_burst

LenRange(s) == s.core.frame_len_max - s.core.frame_len_min + 1

frameLen(s, i) ==
  CASE s.core.len_mode = "fixed" -> s.core.frame_len
    [] s.core.len_mode = "inc" -> s.core.frame_len_min + (i % LenRange(s))
    [] s.core.len_mode = "dec" -> s.core.frame_len_max - (i % LenRange(s))
    [] s.core.len_mode = "imix" ->
         <<64, 594, 64, 594, 64, 1518, 64, 64, 594, 64, 594, 64>>[1 + (i % 12)]

frameLenAvg(s) ==
  CASE s.core.len_mode = "fixed" -> s.core.frame_len
    [] s.core.len_mode = "imix" -> (7 * 64 + 4 * 594 + 1518) \div 12
    [] OTHER -> (s.core.frame_len_min + s.core.frame_len_max) \div 2

frameSizeVariableCount(s) ==
  CASE s.core.len_mode = "fixed" -> 1
    [] s.core.len_mode = "imix" -> 12
    [] OTHER -> IF LenRange(s) < frameCount(s) THEN LenRange(s) ELSE frameCount(s)

\* protocolFrameVariableCount of the base class: the variable fields only.
VfCount(vf) == LcmOf({vf[j].count : j \in DOMAIN vf})

\* protocolFrameVariableCount of a protocol, combos included.  What dot3, udp
\* and tcp ask of their payload, protocolFramePayloadVariableCount, is
\* always 0, which lcm takes for 1.
protocolFrameVariableCount(s, k) ==
  LET leaves == s.protos[k].leaves
  IN LcmOf({VfCount(s.protos[k].vf)} \cup UNION {OwnCounts(leaves[j]) : j \in DOMAIN leaves}
           \cup IF leaves[1].p = "payload" THEN {frameSizeVariableCount(s)} ELSE {})

frameVariableCount(s) ==
  lcm(LcmOf({protocolFrameVariableCount(s, k) : k \in DOMAIN s.protos}),
      frameSizeVariableCount(s))

isProtocolFrameSizeVariable(s, k) ==
  \E d \in Range(s.protos[k].leaves) :
    \/ d.p = "payload" /\ s.core.len_mode # "fixed"
    \/ d.p = "userscript" /\ UserScriptSizeVariable(d)

isProtocolFrameValueVariable(s, k) ==
  protocolFrameVariableCount(s, k) > 1 \/ isProtocolFrameSizeVariable(s, k)

isFrameVariable(s) == \E k \in DOMAIN s.protos : isProtocolFrameValueVariable(s, k)
isFrameSizeVariable(s) == \E k \in DOMAIN s.protos : isProtocolFrameSizeVariable(s, k)

\* A combo has a number of its own: the protocols inside it are not found.
hasProtocol(s, p) ==
  \E k \in DOMAIN s.protos : Len(s.protos[k].leaves) = 1 /\ s.protos[k].leaves[1].p = p

-----------------------------------------------------------------------------
(* Sizes and offsets                                                         *)

NoContext == [id |-> [t \in {"Eth", "Llc", "Ip", "TcpUdp"} |-> 0], psize |-> 0, size |-> 0,
              opaque |-> FALSE, portId |-> 0, deviceMac |-> Fill(6, 0),
              neighborMac |-> Fill(6, 0)]

\* The size of a class that does not pad: its field bits, rounded up.  The
\* sizes of gmp, gre and text are computed anew each time and come to the same;
\* the others are computed once and kept, which is left out here.
LeafSize(d) ==
  IF d.p = "userscript" THEN UserScriptSize(d)
  ELSE CHOOSE n \in {(Sum([j \in DOMAIN f |-> f[j].b]) + 7) \div 8
                     : f \in {Fields(d, 0, NoContext)}} : TRUE

padUntilEnd(s, k) == k = Len(s.protos) /\ s.protos[k].leaves[1].pad_until_end

isPadding(s, k) ==
  LET d == s.protos[k].leaves[1]
  IN d.p = "payload" \/ (d.p = "hexdump" /\ padUntilEnd(s, k))

\* What a padding protocol holds itself: a hexdump's content.
ContentSize(s, k) ==
  LET leaves == s.protos[k].leaves
  IN CASE leaves[1].p = "payload" -> 0
       [] leaves[1].p = "hexdump" -> Len(leaves[1].content)
       [] OTHER -> CHOOSE n \in {Sum(q) : q \in {[j \in DOMAIN leaves |-> LeafSize(leaves[j])]}}
                     : TRUE

\* protocolFrameSize of every protocol of frame i.
PaddedSizes(s, content, pad) ==
  Strict([k \in DOMAIN content |->
            content[k] + IF isPadding(s, k) /\ pad > 0 THEN pad ELSE 0])

Sizes(s, i) ==
  CHOOSE sz \in {PaddedSizes(s, Strict(q), frameLen(s, i) - Sum(q) - kFcsSize)
                 : q \in {[k \in DOMAIN s.protos |-> ContentSize(s, k)]}} : TRUE

protocolFrameOffset(sz, k) == SumRange(sz, 1, k - 1)
protocolFramePayloadSize(sz, k) == SumRange(sz, k + 1, Len(sz))
frameProtocolLength(s, i) == Sum(Sizes(s, i))

-----------------------------------------------------------------------------
(* Packing the fields into bytes: protocolFrameValue                         *)

\* The bytes a field contributes, all zero when a checksum field is asked for
\* while checksumming.
FieldBytes(f, forCksum) ==
  IF forCksum /\ f.ck # "no" THEN Fill((f.b + 7) \div 8, 0) ELSE f.v

OrLastOverwrites(proto, x) == [proto EXCEPT ![Len(proto)] = x]
OrLast(proto, x) == [proto EXCEPT ![Len(proto)] = @ | x]

PackField(acc, f, v) ==
  LET n == Len(v)
      spare == 8 * n - f.b
      \* the j-th byte of the field moved to the left by the spare bits
      c(j) == (v[j] * 2 ^ spare + IF j < n THEN v[j + 1] \div 2 ^ (8 - spare) ELSE 0) % 256
      low(x) == (x * 2 ^ acc.pos) % 256
      high(x) == x \div 2 ^ acc.pos
      straddle(proto, j) ==
        LET q == OrLast(proto, high(c(j)))
        IN IF f.b > 8 * (j - 1) + 8 - spare
           THEN Append(q, (c(j) * 2 ^ (8 - acc.pos)) % 256) ELSE q
      pos == (acc.pos + f.b) % 8
  IN CASE f.b = 0 -> acc
       [] spare = 0 /\ acc.pos = 0 -> [acc EXCEPT !.proto = @ \o v]
       [] spare = 0 /\ acc.pos # 0 ->
            [acc EXCEPT !.proto =
               OrLast(@, high(v[1])) \o
               [j \in 1..n |-> low(v[j]) | IF j < n THEN high(v[j + 1]) ELSE 0]]
       [] spare > 0 /\ acc.pos = 0 ->
            [proto |-> acc.proto \o [j \in 1..n |-> c(j)], pos |-> pos]
       [] spare > 0 /\ acc.pos # 0 ->
            [proto |-> FoldOver(straddle, acc.proto, [j \in 1..n |-> j]), pos |-> pos]

Pack(fields, forCksum) ==
  FoldOver(LAMBDA acc, f : PackField(acc, f, FieldBytes(f, forCksum)),
           [proto |-> <<>>, pos |-> 0], fields).proto

\* varyCounter: the bits of the mask are replaced by a counter; a field that
\* would end beyond the protocol is skipped.
varyCounter(buf, i, vf) ==
  LET w == Len(vf.mask)
      x == (i % vf.count) * vf.step
      next == IF vf.mode = "inc" THEN AddBytes(vf.value, x) ELSE SubBytes(vf.value, x)
      new(j) == LET m == vf.mask[j - vf.offset]
                IN (buf[j] & (255 - m)) + (next[j - vf.offset] & m)
  IN IF vf.offset + w > Len(buf) THEN buf
     ELSE Strict([j \in 1..Len(buf) |->
                    IF j > vf.offset /\ j <= vf.offset + w THEN new(j) ELSE buf[j]])

Vary(buf, i, vfs) == FoldOver(LAMBDA b, vf : varyCounter(b, i, vf), buf, vfs)

-----------------------------------------------------------------------------
(* The protocols of a frame                                                  *)

\* What the fields of leaf j of protocol k ask of the rest of the stream:
\* payloadProtocolId, protocolFramePayloadSize, protocolFrameSize and the
\* addresses the server resolves.
Context(s, i, sz, k, j) ==
  LET leaves == s.protos[k].leaves
      next == IF j < Len(leaves) THEN <<leaves[j + 1]>>
              ELSE IF k < Len(s.protos) THEN <<Head(s.protos[k + 1].leaves)>> ELSE <<>>
      inner == Sum([m \in 1..(Len(leaves) - j) |-> LeafSize(leaves[j + m])])
  IN [id |-> [t \in {"Eth", "Llc", "Ip", "TcpUdp"} |->
                IF next = <<>> THEN -1 ELSE ProtocolId(next[1], t)],
      psize |-> inner + protocolFramePayloadSize(sz, k),
      size |-> sz[k],
      opaque |-> /\ k < Len(s.protos) /\ Len(leaves) = 1
                 /\ ProtocolIdType(Last(s.protos[k + 1].leaves)) = "None",
      portId |-> s.portId, deviceMac |-> s.deviceMac, neighborMac |-> s.neighborMac]

LeafFields(s, i, sz, k, j) ==
  CHOOSE q \in {Fields(s.protos[k].leaves[j], i, c) : c \in {Context(s, i, sz, k, j)}} : TRUE

\* The one's complement sum of 16-bit words; an odd last byte is a high byte.
Fold16(x) == IF x = 0 THEN 0 ELSE 1 + ((x - 1) % 65535)
WordSum(b) ==
  Fold16(Sum([w \in 1..((Len(b) + 1) \div 2) |->
                256 * b[2 * w - 1] + IF 2 * w <= Len(b) THEN b[2 * w] ELSE 0]))
Unswapped(x) == x
swap16(x) == (x % 256) * 256 + x \div 256

\* protocolFrameCksum of a protocol that follows: of its bytes, checksums
\* included, or what a script says.
SumOf(node, bytes) ==
  IF node.leaves[1].p = "userscript" /\ HasUserScriptCksum(node.leaves[1])
    THEN 65535 - UserScriptCksum(node.leaves[1]) ELSE WordSum(bytes)

\* protocolFramePayloadCksum: the bytes of the following protocols.  All but
\* the first are swapped when they start at an odd offset of the frame.
PayloadSum(s, sz, k, later) ==
  LET odd(m) == m > 1 /\ protocolFrameOffset(sz, k + m) % 2 = 1
      swapped(m) == CHOOSE r \in {IF odd(m) THEN swap16(w) ELSE w
                                  : w \in {SumOf(s.protos[k + m], later[m])}} : TRUE
  IN Sum([m \in DOMAIN later |-> swapped(m)])

\* protocolFrameValue(forCksum) of a leaf alone: a variable field belongs to
\* the protocol the leaf is part of.
OwnBytes(s, i, sz, k, j) ==
  CHOOSE b \in {Vary(Pack(q, TRUE), i, IF Len(s.protos[k].leaves) = 1 THEN s.protos[k].vf ELSE <<>>)
                : q \in {LeafFields(s, i, sz, k, j)}} : TRUE

\* protocolFrameHeaderCksum: the pseudo header of the nearest IP before k.
PseudoBytes(ip, bytes) == IF ip = "ip4" THEN Ip4PseudoBytes(bytes) ELSE Ip6PseudoBytes(bytes)

AddressSum(s, i, sz, m) ==
  CHOOSE w \in {WordSum(PseudoBytes(Last(s.protos[m].leaves).p, b))
                : b \in {OwnBytes(s, i, sz, m, Len(s.protos[m].leaves))}} : TRUE

PseudoSum(s, i, sz, k) ==
  LET ips == {m \in 1..(k - 1) : Last(s.protos[m].leaves).p \in {"ip4", "ip6"}}
  IN IF ips = {} THEN 0
     ELSE AddressSum(s, i, sz, Max(ips)) + sz[k] + protocolFramePayloadSize(sz, k)
          + ProtocolId(s.protos[k].leaves[1], "Ip")

\* protocolFrameCksum of leaf j of protocol k, by the kind of its field.
CksumOf(kind, sum) ==
  IF kind = "udp" /\ Fold16(sum) = 65535 THEN 65535 ELSE 65535 - Fold16(sum)

FieldCksum(s, i, sz, k, j, kind, later) ==
  CHOOSE ck \in {CksumOf(kind, WordSum(own) + payload + pseudo)
                 : own \in {OwnBytes(s, i, sz, k, j)},
                   payload \in {IF kind = "ip" THEN 0 ELSE PayloadSum(s, sz, k, later)},
                   pseudo \in {IF kind \in {"tcp", "udp"} THEN PseudoSum(s, i, sz, k) ELSE 0}}
    : TRUE

\* The frame fields of protocol k, checksums computed over the protocols
\* after it (later).
Filled(s, i, sz, k, j, f, later) ==
  IF f.ck \in {"no", "override"} THEN f
  ELSE CHOOSE g \in {[f EXCEPT !.v = BE(ck, 2)]
                     : ck \in {FieldCksum(s, i, sz, k, j, f.ck, later)}} : TRUE

FilledLeaf(s, i, sz, k, j, later) ==
  CHOOSE w \in {[m \in DOMAIN q |-> Filled(s, i, sz, k, j, q[m], later)]
                : q \in {LeafFields(s, i, sz, k, j)}} : TRUE

NodeFields(s, i, sz, k, later) ==
  CHOOSE w \in {FlattenSeq(q)
                : q \in {[j \in DOMAIN s.protos[k].leaves |-> FilledLeaf(s, i, sz, k, j, later)]}}
    : TRUE

\* protocolFrameValue of protocol k; MacProtocol has one of its own, which
\* knows nothing of variable fields.
protocolFrameValue(s, i, sz, k, later) ==
  LET vf == IF s.protos[k].leaves[1].p = "mac" THEN <<>> ELSE s.protos[k].vf
  IN CHOOSE b \in {Vary(Pack(q, FALSE), i, vf) : q \in {NodeFields(s, i, sz, k, later)}} : TRUE

\* The bytes of every protocol of frame i; a protocol's checksum needs those
\* after it, so the last is computed first.
BytesFrom(s, i, sz, k, later) == <<protocolFrameValue(s, i, sz, k, later)>> \o later

ProtocolBytes(s, i) ==
  LET f[k \in 1..(Len(s.protos) + 1), sz \in {Sizes(s, i)}] ==
        IF k > Len(s.protos) THEN <<>>
        ELSE CHOOSE q \in {BytesFrom(s, i, sz, k, later) : later \in {f[k + 1, sz]}} : TRUE
  IN CHOOSE q \in {f[1, sz] : sz \in {Sizes(s, i)}} : TRUE

\* StreamBase::frameValue: cut or padded to the length of the frame.
Cut(bytes, size) ==
  IF Len(bytes) >= size THEN SubSeq(bytes, 1, size)
  ELSE bytes \o Fill(size - Len(bytes), 0)

frameValue(s, bufMaxSize, i) ==
  LET pktLen == frameLen(s, i) - kFcsSize
  IN IF pktLen <= 0 THEN <<>>
     ELSE CHOOSE b \in {Cut(FlattenSeq(q), Min({pktLen, bufMaxSize}))
                        : q \in {ProtocolBytes(s, i)}} : TRUE

\* The error flags frameValue collects.
FrameErrors(s, i) ==
  LET sz == Sizes(s, i)
  IN UNION {IF s.protos[k].leaves[1].p = "mac"
            THEN MacFrameErrors(s.protos[k].leaves[1], i, Context(s, i, sz, k, 1)) ELSE {}
            : k \in DOMAIN s.protos}

-----------------------------------------------------------------------------
(* preflightCheck and protocolFieldReplace                                   *)

kMaxFrame == 1522

\* Neither longer nor shorter than its protocols and the FCS.
isPadded(s, i) == frameLen(s, i) > frameProtocolLength(s, i) + kFcsSize
isTruncated(s, i) == frameLen(s, i) < frameProtocolLength(s, i) + kFcsSize

PreflightErrors(s) ==
  LET checked == 0..((IF isFrameSizeVariable(s) THEN frameSizeVariableCount(s) ELSE 1) - 1)
      signed == hasProtocol(s, "sign")
      err(cond, e) == IF cond THEN {e} ELSE {}
  IN err(signed /\ \E i \in checked : isPadded(s, i), "short")
     \cup err(signed /\ hasProtocol(s, "icmp"), "signIcmp")
     \cup err(\E i \in checked : isTruncated(s, i), "truncated")
     \cup err(\E i \in checked : frameLen(s, i) > kMaxFrame, "jumbo")
     \cup err(\E k \in DOMAIN s.protos :
                 Len(s.protos[k].leaves) = 1 /\ HasErrors(s.protos[k].leaves[1]), "protocol")
     \cup err(isFrameVariable(s) /\ frameVariableCount(s) > frameCount(s), "count")

preflightCheck(s) == PreflightErrors(s) = {}

\* findReplace: the fields of the protocols of class p that hold find under
\* findMask have the bits of replaceMask replaced.
FindReplace(s, p, f, find, findMask, replace, replaceMask) ==
  LET found(k) == LET leaves == s.protos[k].leaves
                  IN Len(leaves) = 1 /\ leaves[1].p = p /\ (leaves[1][f] & findMask) = find
      new(d) == SetFieldData(d, f, (d[f] - (d[f] & replaceMask)) + (replace & replaceMask))
  IN [s EXCEPT !.protos =
        [k \in DOMAIN @ |-> IF found(k) THEN [@[k] EXCEPT !.leaves = <<new(@[1])>>] ELSE @[k]]]

=============================================================================
