----------------------------- MODULE LinuxPort -----------------------------
(***************************************************************************)
(* The ports of a Linux drone and the one thread that reads the counters   *)
(* of all of them (src/server/linuxport.cpp, portmanager.cpp, and          *)
(* AbstractPort::stats()).  The kernel's interfaces count in 32 or in 64   *)
(* bits; Wide is the modulus of a 64 bit integer, Narrow of a 32 bit one.  *)
(* One counter stands for the eight of a port, which are treated alike.    *)
(***************************************************************************)
EXTENDS Integers, Sequences, SequencesExt, FiniteSets, Functions

CONSTANTS Interfaces, \* the sequence of interfaces pcap lists
          Begins,     \* <<a, b>>: the name of interface b begins with that of a
          IncludeList, ExcludeList, \* patterns of the settings, each the set of names it matches
          Narrow, Wide,
          MaxBurst,   \* bound: packets counted between two readings
          MaxCount    \* bound: packets an interface counts

(* A counter cannot turn twice between two readings. *)
ASSUME CountersTurnOnce == Narrow < Wide /\ MaxBurst < Narrow

VARIABLES todo,        \* interfaces the PortManager still has to construct, initialise or delete
          phase,       \* "construct", "init", "wait", "serve", "delete", "join"
          ports,       \* portList_, the ports constructed and not yet deleted
          allPorts,    \* LinuxPort::allPorts_
          promisc,     \* the kernel's flag of each interface
          original,    \* what it was before the drone
          isPromisc, clearPromisc, notes,
          monitor,     \* "idle", "netlink", "proc", "poll", "over"
          source,      \* where the monitor reads counters
          fills,       \* the port each interface's counters are stored in, or "none"
          stopped, setupDone,
          modulus,     \* what each interface counts to
          count,       \* packets counted by each interface, never wrapped
          stats, rate, epoch, maxStats,
          procRead,    \* a counter was read from /proc
          seen, base   \* the packets counted at the last reading, and at the last clear

managerVars == <<todo, phase, ports, allPorts>>
promiscVars == <<promisc, isPromisc, clearPromisc>>
monitorVars == <<monitor, source, fills, stopped, setupDone>>
counterVars == <<stats, rate, maxStats, procRead, seen>>
linuxVars == <<managerVars, promiscVars, original, notes, monitorVars, counterVars,
               modulus, count, epoch, base>>

Names == {Interfaces[i] : i \in DOMAIN Interfaces}
kMaxValue32 == Narrow - 1
kMaxValue64 == Wide - 1

(* The ports whose counters the monitor stores. *)
known == {fills[i] : i \in DOMAIN fills} \ {"none"}

LinuxInit ==
    /\ todo = Interfaces /\ phase = "construct" /\ ports = <<>> /\ allPorts = {}
    /\ promisc \in [Names -> BOOLEAN] /\ original = promisc
    /\ isPromisc = [p \in Names |-> TRUE] /\ clearPromisc = [p \in Names |-> FALSE]
    /\ notes = {}
    /\ monitor = "idle" /\ source = "netlink" /\ fills = <<>>
    /\ stopped = FALSE /\ setupDone = FALSE
    /\ modulus \in [Names -> {Narrow, Wide}]
    /\ count = [p \in Names |-> 0]
    /\ stats = count /\ rate = count /\ epoch = count /\ maxStats = count
    /\ procRead = FALSE /\ seen = count /\ base = count

---------------------------------------------------------------------------
(* PortManager *)

(* An empty list, or one with the empty pattern alone, includes all. *)
filterAcceptsPort(p) ==
    /\ IncludeList \in {<<>>, <<{}>>} \/ \E pattern \in Range(IncludeList) : p \in pattern
    /\ \A pattern \in Range(ExcludeList) : p \notin pattern

(* A port is made of each interface the filter accepts, and dropped when not usable. *)
Construct ==
    /\ phase = "construct" /\ todo # <<>>
    /\ todo' = Tail(todo)
    /\ \/ /\ filterAcceptsPort(Head(todo))
          /\ ports' = Append(ports, Head(todo)) /\ allPorts' = allPorts \cup {Head(todo)}
       \/ UNCHANGED <<ports, allPorts>>
    /\ UNCHANGED <<phase, promiscVars, original, notes, monitorVars, counterVars, modulus, count,
                   epoch, base>>

Constructed ==
    /\ phase = "construct" /\ todo = <<>>
    /\ phase' = "init" /\ todo' = ports
    /\ UNCHANGED <<ports, allPorts, promiscVars, original, notes, monitorVars, counterVars, modulus,
                   count, epoch, base>>

(* LinuxPort::init(): the first port starts the monitor, and a later one starts it      *)
(* again if it has ended.                                                               *)
StartMonitor ==
    /\ phase = "init" /\ todo # <<>>
    /\ phase' = "wait"
    /\ \/ monitor \in {"idle", "over"} /\ monitor' = "netlink" /\ fills' = <<>>
       \/ monitor \notin {"idle", "over"} /\ UNCHANGED <<monitor, fills>>
    /\ UNCHANGED <<todo, ports, allPorts, promiscVars, original, notes, source, stopped, setupDone,
                   counterVars, modulus, count, epoch, base>>

(* It waits for the setup, or for ten seconds, and only then reads isPromisc_. *)
init ==
    /\ phase = "wait"
    /\ phase' = "init" /\ todo' = Tail(todo)
    /\ notes' = IF isPromisc[Head(todo)] THEN notes ELSE notes \cup {Head(todo)}
    /\ UNCHANGED <<ports, allPorts, promiscVars, original, monitorVars, counterVars, modulus,
                   count, epoch, base>>

Serve ==
    /\ phase = "init" /\ todo = <<>>
    /\ phase' = "serve"
    /\ UNCHANGED <<todo, ports, allPorts, promiscVars, original, notes, monitorVars, counterVars,
                   modulus, count, epoch, base>>

(* ~PortManager() takes the ports one by one.  ~LinuxPort() leaves allPorts_, then    *)
(* stops a running monitor, waits for it, and clears the flag it had set.             *)
Delete ==
    /\ \/ phase = "serve"
       \/ phase = "delete"
    /\ ports # <<>>
    /\ phase' = "join"
    /\ allPorts' = allPorts \ {Head(ports)}
    /\ stopped' = (stopped \/ monitor \notin {"idle", "over"})
    /\ UNCHANGED <<todo, ports, promiscVars, original, notes, monitor, source, fills, setupDone,
                   counterVars, modulus, count, epoch, base>>

(* Mutant: the destructor does not wait for the monitor. *)
DeletedAtOnce ==
    /\ phase = "join"
    /\ phase' = "delete" /\ ports' = Tail(ports)
    /\ promisc' = [promisc EXCEPT ![Head(ports)] = @ /\ ~clearPromisc[Head(ports)]]
    /\ UNCHANGED <<todo, allPorts, isPromisc, clearPromisc, original, notes, monitorVars, counterVars,
                   modulus, count, epoch, base>>

Deleted ==
    /\ phase = "join" /\ monitor \in {"idle", "over"}
    /\ phase' = "delete" /\ ports' = Tail(ports)
    /\ promisc' = [promisc EXCEPT ![Head(ports)] = @ /\ ~clearPromisc[Head(ports)]]
    /\ UNCHANGED <<todo, allPorts, isPromisc, clearPromisc, original, notes, monitorVars, counterVars,
                   modulus, count, epoch, base>>

---------------------------------------------------------------------------
(* StatsMonitor *)

(* setPromisc() and what its caller makes of the result: 1 only when the flag was set *)
(* by this call; 0 on an error, and also when it was set before.                      *)
setPromisc(p) ==
    \/ /\ ~promisc[p]
       /\ promisc' = [promisc EXCEPT ![p] = TRUE]
       /\ clearPromisc' = [clearPromisc EXCEPT ![p] = TRUE]
       /\ UNCHANGED isPromisc
    \/ /\ isPromisc' = [isPromisc EXCEPT ![p] = FALSE]
       /\ UNCHANGED <<promisc, clearPromisc>>

Stores(i, p) == fills' = [j \in DOMAIN fills \cup {i} |-> IF j = i THEN p ELSE fills[j]]

(* netlinkStats(): the reply of the kernel lists an interface that is a port. *)
Setup(p) ==
    /\ monitor = "netlink"
    /\ p \in allPorts \ known
    /\ Stores(p, p)
    /\ setPromisc(p)
    /\ UNCHANGED <<managerVars, original, notes, monitor, source, stopped, setupDone, counterVars,
                   modulus, count, epoch, base>>

(* procStats(): the lines of /proc/net/dev in order.  A line belongs to the first port  *)
(* whose name begins with the interface's, not to the one with its name.                *)
ProcSetup ==
    /\ monitor = "proc" /\ Cardinality(DOMAIN fills) < Len(Interfaces)
    /\ LET line == Interfaces[Cardinality(DOMAIN fills) + 1]
           matches == SelectSeq(Interfaces, LAMBDA p : p \in allPorts /\ <<line, p>> \in Begins)
       IN  IF matches = <<>> THEN Stores(line, "none") /\ UNCHANGED promiscVars
           ELSE Stores(line, Head(matches)) /\ setPromisc(Head(matches))
    /\ UNCHANGED <<managerVars, original, notes, monitor, source, stopped, setupDone, counterVars,
                   modulus, count, epoch, base>>

SetupDone ==
    /\ \/ monitor = "netlink" /\ known # {}
       \/ monitor = "proc" /\ DOMAIN fills = Names
    /\ source' = monitor /\ monitor' = "poll" /\ setupDone' = TRUE
    /\ UNCHANGED <<managerVars, promiscVars, original, notes, fills, stopped, counterVars, modulus,
                   count, epoch, base>>

(* Without netlink the monitor reads /proc/net/dev; without that it ends. *)
SetupFails ==
    /\ \/ monitor = "netlink" /\ monitor' = "proc"
       \/ monitor = "proc" /\ fills = <<>> /\ monitor' = "over"
    /\ fills' = <<>>
    /\ UNCHANGED <<managerVars, promiscVars, original, notes, source, stopped, setupDone, counterVars,
                   modulus, count, epoch, base>>

(* The wrap a reading shows is taken for that of a 32 bit counter, unless the value   *)
(* before it was too large for one.  /proc readings know 32 bits only.                *)
Guess(p) == IF stats[p] > kMaxValue32 THEN kMaxValue64 ELSE kMaxValue32

(* Mutant: the first guess is not kept, and not made from the value before the wrap. *)
MaxAfterZero(p, now) == maxStats[p]

MaxAfter(p, now) ==
    IF now < stats[p] /\ maxStats[p] = 0 /\ source = "netlink" THEN Guess(p) ELSE maxStats[p]

Turned(p, old, now) ==
    IF now >= old THEN now - old
    ELSE now + ((IF source = "netlink" THEN MaxAfter(p, now) ELSE kMaxValue32) - old)

(* What a port's counter was, and what the monitor stores in it one after the other. *)
Readings(p) ==
    LET lines == SelectSeq(Interfaces, LAMBDA i : i \in DOMAIN fills /\ fills[i] = p)
    IN  <<stats[p]>> \o [n \in DOMAIN lines |-> count[lines[n]] % modulus[lines[n]]]

Poll ==
    /\ monitor = "poll" /\ ~stopped
    /\ LET Old(p) == Readings(p)[Len(Readings(p)) - 1]
           Now(p) == Last(Readings(p))
       IN  /\ stats' = [p \in Names |-> Now(p)]
           /\ maxStats' = [p \in Names |-> MaxAfter(p, Now(p))]
           /\ rate' = [p \in Names |-> IF p \in known THEN Turned(p, Old(p), Now(p)) ELSE rate[p]]
           /\ procRead' = (procRead \/ source = "proc")
           /\ seen' = [p \in Names |-> IF p \in known THEN count[p] ELSE seen[p]]
    /\ UNCHANGED <<managerVars, promiscVars, original, notes, monitorVars, modulus, count, epoch, base>>

(* The loop ends at the flag, and on an error of the socket. *)
PollEnds ==
    /\ monitor = "poll"
    /\ monitor' = "over"
    /\ UNCHANGED <<managerVars, promiscVars, original, notes, source, fills, stopped, setupDone,
                   counterVars, modulus, count, epoch, base>>

---------------------------------------------------------------------------
Traffic(p, n) ==
    /\ phase \in {"init", "wait", "serve"}
    /\ count[p] + n <= MaxCount
    /\ count[p] + n <= seen[p] + MaxBurst
    /\ count' = [count EXCEPT ![p] = @ + n]
    /\ UNCHANGED <<managerVars, promiscVars, original, notes, monitorVars, counterVars, modulus, epoch,
                   base>>

(* MyService::clearStats() *)
resetStats(p) ==
    /\ phase = "serve" /\ p \in allPorts
    /\ epoch' = [epoch EXCEPT ![p] = stats[p]]
    /\ base' = [base EXCEPT ![p] = seen[p]]
    /\ UNCHANGED <<managerVars, promiscVars, original, notes, monitorVars, counterVars, modulus, count>>

(* AbstractPort::stats(), in 64 bit arithmetic. *)
reported(p) ==
    IF stats[p] >= epoch[p] THEN stats[p] - epoch[p]
    ELSE (stats[p] + (maxStats[p] - epoch[p])) % Wide

LinuxNext ==
    \/ Construct \/ Constructed \/ StartMonitor \/ init \/ Serve \/ Delete \/ Deleted
    \/ ProcSetup \/ SetupDone \/ SetupFails \/ Poll \/ PollEnds
    \/ \E p \in Names : Setup(p) \/ resetStats(p) \/ \E n \in {1, MaxBurst} : Traffic(p, n)

LinuxSpec == LinuxInit /\ [][LinuxNext]_linuxVars

---------------------------------------------------------------------------
(* Until a counter has turned completely since it was cleared, what getStats() says   *)
(* is what the interface counted since then, less the one that each turn costs, for   *)
(* 32 and for 64 bit counters, whichever the monitor had to guess.  Counters read     *)
(* from /proc are not included: maxStatsValue_ is never set for them.                 *)
CountersExact ==
    \A p \in Names : (~procRead /\ seen[p] - base[p] < modulus[p]) =>
        reported(p) \in {seen[p] - base[p], seen[p] - base[p] - 1}

(* A port that is deleted is left alone: the monitor has ended before the first of    *)
(* the ports whose counters it writes goes, and when they are all gone the interfaces *)
(* are as promiscuous as they were before the drone.  ~LinuxPort() clears the flags   *)
(* the monitor set, whichever way it set them, and only those.                        *)
DeletedIsLeftAlone ==
    /\ monitor \in {"netlink", "proc", "poll"} => known \subseteq {ports[i] : i \in DOMAIN ports}
    /\ phase = "delete" /\ ports = <<>> => promisc = original
=============================================================================
