----------------------------- MODULE PortService -----------------------------
(***************************************************************************)
(* The RPC methods of MyService that read and change the streams and the   *)
(* device groups of one port, as operators on the port's state.  A method  *)
(* works through the ids of its request under the port's write lock, skips *)
(* the ones it cannot serve and reports an error if there was one: a       *)
(* failed request may have done a part of its work.                        *)
(***************************************************************************)
EXTENDS Naturals, Functions

CONSTANTS
  Blank,      \* the contents of a stream or device group that was just added
  Canon(_)    \* what the server makes of the contents of a device group

\* streams, groups: contents by id.  dirty: isSendQueueDirty_.  packets: what
\* the packet list was last built from.  busy: isTransmitOn().
NewPort ==
  [streams |-> [i \in {} |-> Blank], groups |-> [i \in {} |-> Blank], dirty |-> FALSE,
   packets |-> [streams |-> [i \in {} |-> Blank], groups |-> [i \in {} |-> Blank]],
   busy |-> FALSE]

Added(f, ids) == [i \in DOMAIN f \union ids |-> IF i \in DOMAIN f THEN f[i] ELSE Blank]
Deleted(f, ids) == Restrict(f, DOMAIN f \ ids)
Modified(f, g) == [i \in DOMAIN f |-> IF i \in DOMAIN g THEN g[i] ELSE f[i]]

addStream(p, ids) ==
  [port |-> [p EXCEPT !.streams = Added(@, ids),
                      !.dirty = @ \/ ids \ DOMAIN p.streams # {}],
   ok |-> ids \intersect DOMAIN p.streams = {}]

deleteStream(p, ids) ==
  [port |-> [p EXCEPT !.streams = Deleted(@, ids),
                      !.dirty = @ \/ ids \intersect DOMAIN p.streams # {}],
   ok |-> ids \subseteq DOMAIN p.streams]

modifyStream(p, contents) ==
  [port |-> [p EXCEPT !.streams = Modified(@, contents),
                      !.dirty = @ \/ DOMAIN contents \intersect DOMAIN p.streams # {}],
   ok |-> DOMAIN contents \subseteq DOMAIN p.streams]

\* The packet list is not marked dirty by the methods on device groups.
addDeviceGroup(p, ids) ==
  [port |-> [p EXCEPT !.groups = Added(@, ids)],
   ok |-> ids \intersect DOMAIN p.groups = {}]

deleteDeviceGroup(p, ids) ==
  [port |-> [p EXCEPT !.groups = Deleted(@, ids)],
   ok |-> ids \subseteq DOMAIN p.groups]

modifyDeviceGroup(p, contents) ==
  [port |-> [p EXCEPT !.groups = Modified(@, [i \in DOMAIN contents |-> Canon(contents[i])])],
   ok |-> DOMAIN contents \subseteq DOMAIN p.groups]

resolveDeviceNeighbors(p) == [port |-> [p EXCEPT !.dirty = TRUE], ok |-> TRUE]

\* valid: the frames of the streams could be built
updatePacketList(p) ==
  [p EXCEPT !.packets = [streams |-> p.streams, groups |-> p.groups], !.dirty = FALSE]

build(p, valid) ==
  IF p.dirty THEN [port |-> updatePacketList(p), ok |-> valid] ELSE [port |-> p, ok |-> TRUE]

\* startTransmit builds a dirty list and starts even if that reports an error.
startTransmit(p) ==
  [port |-> [(IF p.dirty THEN updatePacketList(p) ELSE p) EXCEPT !.busy = TRUE], ok |-> TRUE]

stopTransmit(p) == [port |-> [p EXCEPT !.busy = FALSE], ok |-> TRUE]

=============================================================================
