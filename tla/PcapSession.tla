---------------------------- MODULE PcapSession ----------------------------
(***************************************************************************)
(* The capture-library threads of a drone port and how the RPC threads     *)
(* start and stop them: PcapSession (src/server/pcapsession.cpp) and the   *)
(* four classes built on it, the capturer, the emulation transceiver       *)
(* (src/server/pcapport.cpp), the receive statistics poller                *)
(* (src/server/pcaprxstats.cpp) and the time tag poller                    *)
(* (src/server/pcaptxttagstats.cpp).  They share one control structure, so *)
(* one set of actions, indexed by the session, models all of them.         *)
(*                                                                         *)
(* An RPC thread c works through ops[c], a sequence of <<operation,        *)
(* session>> pairs, at[c] being where it is in the first one.              *)
(***************************************************************************)
EXTENDS Naturals, Sequences

CONSTANTS Clients,    \* the RPC threads, one per connection
          Sessions,   \* the sessions of the port: "capture", "emul", "rx", "ttag"
          MaxPackets  \* bound: packets a session handles between two starts

VARIABLES state,  \* state_: what start() and stop() spin on
          stop,   \* stop_
          seen,   \* signalSeen_
          open,   \* handle_ is an open capture
          got,    \* packets handled since the capture was opened
          spc,    \* where the thread is; "none" when there is none to join
          ops,    \* what an RPC thread has still to do to sessions
          at      \* where it is in the first of these

sessionVars == <<state, stop, seen, open, got, spc>>
callerVars == <<ops, at>>

(* A QThread that wait() returns for at once: never started, joined, or run() is over. *)
Joinable(p) == p \in {"none", "done"}

(* The sessions of "running" have been started and are in their loop. *)
SessionInit(running) ==
    /\ state = [s \in Sessions |-> IF s \in running THEN "kRunning" ELSE "kNotStarted"]
    /\ stop = [s \in Sessions |-> FALSE]
    /\ seen = [s \in Sessions |-> FALSE]
    /\ open = [s \in Sessions |-> s \in running]
    /\ got = [s \in Sessions |-> 0]
    /\ spc = [s \in Sessions |-> IF s \in running THEN "loop" ELSE "none"]
    /\ ops = [c \in Clients |-> <<>>]
    /\ at = [c \in Clients |-> "call"]

---------------------------------------------------------------------------
(* The caller's side *)

At(c, op, where) ==
    /\ ops[c] # <<>>
    /\ Head(ops[c])[1] = op
    /\ at[c] = where

Goto(c, where) == at' = [at EXCEPT ![c] = where] /\ UNCHANGED ops

Done(c) == ops' = [ops EXCEPT ![c] = Tail(@)] /\ at' = [at EXCEPT ![c] = "call"]

Target(c) == Head(ops[c])[2]

(* start(): nothing on a running session. *)
StartCall(c) ==
    /\ At(c, "start", "call")
    /\ \/ state[Target(c)] = "kRunning" /\ Done(c) /\ UNCHANGED state
       \/ /\ state[Target(c)] # "kRunning"
          /\ state' = [state EXCEPT ![Target(c)] = "kNotStarted"]
          /\ Goto(c, "join")
    /\ UNCHANGED <<stop, seen, open, got, spc>>

(* QThread::start() joins the previous thread before it makes the new one. *)
StartJoin(c) ==
    /\ At(c, "start", "join")
    /\ Joinable(spc[Target(c)])
    /\ spc' = [spc EXCEPT ![Target(c)] = "run"]
    /\ Goto(c, "spin")
    /\ UNCHANGED <<state, stop, seen, open, got>>

StartSpin(c) ==
    /\ At(c, "start", "spin")
    /\ state[Target(c)] # "kNotStarted"
    /\ Done(c)
    /\ UNCHANGED sessionVars

(* stop(): only a running session is asked to stop ... *)
StopCall(c) ==
    /\ At(c, "stop", "call")
    /\ \/ /\ state[Target(c)] = "kRunning"
          /\ stop' = [stop EXCEPT ![Target(c)] = TRUE]
          /\ Goto(c, "break")
       \/ state[Target(c)] # "kRunning" /\ Goto(c, "wait") /\ UNCHANGED stop
    /\ UNCHANGED <<state, seen, open, got, spc>>

(* ... pcap_breakloop() and pthread_kill(): the handler sets signalSeen_. *)
StopBreak(c) ==
    /\ At(c, "stop", "break")
    /\ seen' = [seen EXCEPT ![Target(c)] = TRUE]
    /\ Goto(c, "halt")
    /\ UNCHANGED <<state, stop, open, got, spc>>

StopHalt(c) ==
    /\ At(c, "stop", "halt")
    /\ state[Target(c)] # "kRunning"
    /\ Goto(c, "wait")
    /\ UNCHANGED sessionVars

StopWait(c) ==
    /\ At(c, "stop", "wait")
    /\ Joinable(spc[Target(c)])
    /\ spc' = [spc EXCEPT ![Target(c)] = "none"]
    /\ Done(c)
    /\ UNCHANGED <<state, stop, seen, open, got>>

---------------------------------------------------------------------------
(* The session's thread: run() *)

Thread(s, from, to) == spc[s] = from /\ spc' = [spc EXCEPT ![s] = to]

(* Mutant: the session says that it runs before preRun() has cleared signalSeen_. *)
RunOpenEarly(s) ==
    /\ Thread(s, "run", "ready")
    /\ open' = [open EXCEPT ![s] = TRUE]
    /\ got' = [got EXCEPT ![s] = 0]
    /\ state' = [state EXCEPT ![s] = "kRunning"]
    /\ UNCHANGED <<stop, seen>>

(* pcap_open_live() succeeds; the capturer's dump file starts empty. *)
RunOpen(s) ==
    /\ Thread(s, "run", "ready")
    /\ open' = [open EXCEPT ![s] = TRUE]
    /\ got' = [got EXCEPT ![s] = 0]
    /\ UNCHANGED <<state, stop, seen>>

(* It fails; or pcap_dump_open() does, which leaves the capturer's handle open. *)
RunFails(s) ==
    /\ Thread(s, "run", "done")
    /\ open' = [open EXCEPT ![s] = @ \/ s = "capture"]
    /\ state' = [state EXCEPT ![s] = "kFinished"]
    /\ UNCHANGED <<stop, seen, got>>

(* preRun() installs the handler and clears signalSeen_; then start() may return. *)
RunReady(s) ==
    /\ Thread(s, "ready", "loop")
    /\ seen' = [seen EXCEPT ![s] = FALSE]
    /\ state' = [state EXCEPT ![s] = "kRunning"]
    /\ UNCHANGED <<stop, open, got>>

(* pcap_next_ex() returns a packet, and stop_ is tested. *)
RunPacket(s) ==
    /\ got[s] < MaxPackets
    /\ Thread(s, "loop", IF stop[s] THEN "post" ELSE "loop")
    /\ got' = [got EXCEPT ![s] = @ + 1]
    /\ UNCHANGED <<state, stop, seen, open>>

(* It returns without one: a timeout, an error or the broken loop. *)
RunStopped(s) ==
    /\ stop[s]
    /\ Thread(s, "loop", "post")
    /\ UNCHANGED <<state, stop, seen, open, got>>

(* It returns a value the loop does not know. *)
RunOdd(s) ==
    /\ Thread(s, "loop", "post")
    /\ stop' = [stop EXCEPT ![s] = TRUE]
    /\ UNCHANGED <<state, seen, open, got>>

(* Mutant: the thread ends without waiting for the signal. *)
RunEndUnseen(s) ==
    /\ Thread(s, "post", "done")
    /\ open' = [open EXCEPT ![s] = FALSE]
    /\ stop' = [stop EXCEPT ![s] = FALSE]
    /\ state' = [state EXCEPT ![s] = "kFinished"]
    /\ UNCHANGED <<seen, got>>

(* postRun() waits for the signal; then the handle is closed. *)
RunEnd(s) ==
    /\ seen[s]
    /\ Thread(s, "post", "done")
    /\ open' = [open EXCEPT ![s] = FALSE]
    /\ stop' = [stop EXCEPT ![s] = FALSE]
    /\ state' = [state EXCEPT ![s] = "kFinished"]
    /\ UNCHANGED <<seen, got>>
=============================================================================
