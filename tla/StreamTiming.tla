---------------------------- MODULE StreamTiming ----------------------------
(***************************************************************************)
(* Latency of the tracked streams of a port (src/server/streamtiming.cpp   *)
(* and .h): the transmit thread writes the next tag number into a packet   *)
(* of each stream now and then, the time tag poller of the sending port    *)
(* and the statistics poller of the receiving port record when they see    *)
(* the packet, and StreamTiming pairs the records by stream and tag.  The  *)
(* tag numbers are few and all streams of the port share them.             *)
(***************************************************************************)
EXTENDS Integers, FiniteSets, FiniteSetsExt, Functions

CONSTANTS Guids,     \* the tracked streams
          TagCount,  \* tag numbers; the code has 256
          GcAge,     \* records older than this are stale; 30 s in the code
          GcPeriod,  \* the garbage collection timer; 30 s in the code
          MaxDelay,  \* bound: packets are seen within this time or not at all
          MaxTags,   \* bound: packets tagged
          MaxTime    \* bound: the time a behaviour takes

VARIABLES now,
          clock,         \* the time for which some port was tracked, so far
          tags,          \* packets tagged so far; ttagId_ is this modulo TagCount
          toTx,          \* packets whose own capture is to come
          toRx,          \* packets on their way to the receiver
          txHash,        \* [key -> packet]
          rxHash,        \* [key -> [packet, time received]]
          timing,        \* [sum, count] of the delays, by stream
          activePortSet,
          gcDue,         \* when the garbage collection timer fires next
          truth,         \* the delays that the packets behind timing really had
          wrapped        \* streams with a pair counted whose tag had come round too soon

timingVars == <<now, clock, tags, toTx, toRx, txHash, rxHash, timing, activePortSet, gcDue, truth, wrapped>>

(* The port that sends the streams and the one that receives them. *)
Ends == {"tx", "rx"}

NoTiming == [sum |-> 0, count |-> 0]

makeKey(p) == <<p.guid, p.n % TagCount>>

Without(h, ks) == Restrict(h, DOMAIN h \ ks)
With(h, k, v) == [i \in DOMAIN h \cup {k} |-> IF i = k THEN v ELSE h[i]]

TimingInit ==
    /\ now = 0 /\ clock = 0 /\ tags = 0 /\ gcDue = 0 /\ activePortSet = {}
    /\ toTx = {} /\ toRx = {} /\ txHash = <<>> /\ rxHash = <<>>
    /\ timing = [g \in Guids |-> NoTiming] /\ truth = timing /\ wrapped = {}

(* sendQueueTransmit() tags the packets of all streams from one counter, which goes  *)
(* on from one transmission to the next.  A transmission tags the first packet of a  *)
(* stream at once, so that nothing keeps two tags apart.  Nothing depends on whether *)
(* the port is tracked.                                                              *)
SendTagged(g) ==
    /\ tags < MaxTags /\ tags' = tags + 1
    /\ \E p \in {[guid |-> g, n |-> tags, at |-> now, clock |-> clock]} :
         toTx' = toTx \cup {p} /\ toRx' = toRx \cup {p}
    /\ UNCHANGED <<now, clock, txHash, rxHash, timing, activePortSet, gcDue, truth, wrapped>>

(* The pollers of a tracked port: a packet is recorded with the time of its capture. *)
recordTxTime(p) ==
    /\ "tx" \in activePortSet
    /\ txHash' = With(txHash, makeKey(p), p)
    /\ toTx' = toTx \ {p}
    /\ UNCHANGED <<now, clock, tags, toRx, rxHash, timing, activePortSet, gcDue, truth, wrapped>>

recordRxTime(p) ==
    /\ "rx" \in activePortSet
    /\ rxHash' = With(rxHash, makeKey(p), [p |-> p, at |-> now])
    /\ toRx' = toRx \ {p}
    /\ UNCHANGED <<now, clock, tags, toTx, txHash, timing, activePortSet, gcDue, truth, wrapped>>

(* processRecords() pairs each receive record with the transmit record of its key and *)
(* erases it, paired or not.                                                          *)
Pairs == DOMAIN rxHash \cap DOMAIN txHash

Counted(t, g, delay) ==
    LET own == {k \in Pairs : k[1] = g}
    IN [sum |-> t.sum + MapThenSumSet(LAMBDA k : delay[k], own), count |-> t.count + Cardinality(own)]

(* The time a record is kept, of the time that ports are tracked: until it is stale, *)
(* and from then to the next sweep.                                                  *)
Lifetime == GcAge + 1 + GcPeriod

CameRound(k) ==
    LET tx == txHash[k] rx == rxHash[k].p
    IN tx # rx /\ rx.clock - tx.clock \in -Lifetime..Lifetime

processRecords ==
    /\ rxHash' = <<>>
    /\ timing' = [g \in Guids |-> Counted(timing[g], g, [k \in Pairs |-> rxHash[k].at - txHash[k].at])]
    /\ truth' = [g \in Guids |-> Counted(truth[g], g, [k \in Pairs |-> rxHash[k].at - rxHash[k].p.at])]
    /\ wrapped' = wrapped \cup {k[1] : k \in {m \in Pairs : CameRound(m)}}

(* The 3 s timer, and stats() at any time. *)
Process ==
    /\ rxHash # <<>>
    /\ processRecords
    /\ txHash' = Without(txHash, Pairs)
    /\ UNCHANGED <<now, clock, tags, toTx, toRx, activePortSet, gcDue>>

(* Mutant: the age of a record is compared in the wrong unit. *)
StaleLater == {k \in DOMAIN txHash : now - txHash[k].at > GcAge + MaxTime}

Stale == {k \in DOMAIN txHash : now - txHash[k].at > GcAge}

deleteStaleRecords ==
    /\ activePortSet # {} /\ now = gcDue
    /\ gcDue' = now + GcPeriod
    /\ txHash' = Without(txHash, Stale)
    /\ UNCHANGED <<now, clock, tags, toTx, toRx, rxHash, timing, activePortSet, truth, wrapped>>

(* The first port starts the timers. *)
start(port) ==
    /\ port \notin activePortSet
    /\ activePortSet' = activePortSet \cup {port}
    /\ gcDue' = IF activePortSet = {} THEN now + GcPeriod ELSE gcDue
    /\ UNCHANGED <<now, clock, tags, toTx, toRx, txHash, rxHash, timing, truth, wrapped>>

(* The last port: the records there are processed, stale ones deleted, the timers stop. *)
stop(port) ==
    /\ port \in activePortSet
    /\ activePortSet' = activePortSet \ {port}
    /\ \/ activePortSet # {port} /\ UNCHANGED <<txHash, rxHash, timing, truth, wrapped>>
       \/ activePortSet = {port} /\ processRecords /\ txHash' = Without(txHash, Pairs \cup Stale)
    /\ UNCHANGED <<now, clock, tags, toTx, toRx, gcDue>>

(* clear() leaves the records alone. *)
clear(g) ==
    /\ timing[g].count > 0
    /\ timing' = [timing EXCEPT ![g] = NoTiming] /\ truth' = [truth EXCEPT ![g] = NoTiming]
    /\ wrapped' = wrapped \ {g}
    /\ UNCHANGED <<now, clock, tags, toTx, toRx, txHash, rxHash, activePortSet, gcDue>>

(* A unit of time is no less than the 3 s of the timer, which empties the receive    *)
(* records in it if a port is tracked.  A packet not recorded in time is one that    *)
(* the network lost, that a capture missed, or whose port was not tracked.           *)
TimePasses ==
    /\ now < MaxTime /\ now' = now + 1
    /\ clock' = IF activePortSet = {} THEN clock ELSE clock + 1
    /\ activePortSet # {} => rxHash = <<>> /\ now < gcDue
    /\ toTx' = {p \in toTx : now - p.at < MaxDelay} /\ toRx' = {p \in toRx : now - p.at < MaxDelay}
    /\ UNCHANGED <<tags, txHash, rxHash, timing, activePortSet, gcDue, truth, wrapped>>

TimingNext ==
    \/ \E g \in Guids : SendTagged(g) \/ clear(g)
    \/ \E p \in toTx : recordTxTime(p)
    \/ \E p \in toRx : recordRxTime(p)
    \/ Process \/ deleteStaleRecords \/ TimePasses
    \/ \E port \in Ends : start(port) \/ stop(port)

TimingSpec == TimingInit /\ [][TimingNext]_timingVars

---------------------------------------------------------------------------
(* The latency counted for a stream since it was cleared is that of its own packets,  *)
(* though captures are missed, streams share the tags, transmissions start over, and  *)
(* tracking stops with records left and starts again: a receive record meets the      *)
(* transmit record of another packet only if the tag came round to the stream within  *)
(* Lifetime, the time after which StreamTiming::deleteStaleRecords() has seen to it   *)
(* that the older record is gone, however long tracking was off in between.           *)
LatencyIsTrue == \A g \in Guids : g \notin wrapped => timing[g] = truth[g]
=============================================================================
