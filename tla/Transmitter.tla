---------------------------- MODULE Transmitter ----------------------------
(***************************************************************************)
(* The transmitter of a drone port: PcapTransmitter, its transmit thread   *)
(* PcapTxThread and its statistics thread PcapTxStats (src/server/         *)
(* pcaptransmitter.cpp, pcaptxthread.cpp, pcaptxstats.cpp), and the        *)
(* per-stream counts on their way from the transmit thread to the port.    *)
(* Threads are those of the Qt-free build: QThread::start() first joins    *)
(* the thread it started before, isRunning() is a flag set by start() and  *)
(* cleared when run() and the finished callback are over.                  *)
(***************************************************************************)
EXTENDS PcapSession

CONSTANTS MaxSent  \* bound: packets told apart in a transmission that repeats

VARIABLES tstate,       \* PcapTxThread.state_
          tstop,        \* PcapTxThread.stop_
          tpc,          \* where the transmit thread is
          sent,         \* packets of this transmission
          track,        \* PcapTxThread.trackStreamStats_
          loops,        \* the list repeats (returnToQIdx_ is set)
          size,         \* packets in the packet list
          xstop,        \* PcapTxStats.stop_
          xpc,          \* where the statistics thread is
          xrunning,     \* PcapTxStats.isRunning()
          threadStats,  \* PcapTxThread.streamStats_
          xmitStats,    \* PcapTransmitter.streamStats_
          counted,      \* packets the transmit thread ever counted
          aborted       \* an assertion failed: the process is gone

txVars == <<tstate, tstop, tpc, sent, track, loops, size>>
pollVars == <<xstop, xpc, xrunning>>
countVars == <<threadStats, xmitStats, counted>>
transmitterVars == <<txVars, pollVars, countVars, aborted>>

TransmitterInit(tracked) ==
    /\ tstate = "kNotStarted" /\ tstop = FALSE /\ tpc = "none" /\ sent = 0
    /\ track = tracked /\ loops = FALSE /\ size = 0
    /\ xstop = FALSE /\ xpc = "none" /\ xrunning = FALSE
    /\ threadStats = 0 /\ xmitStats = 0 /\ counted = 0
    /\ aborted = FALSE

isTransmitOn == tstate = "kRunning"

---------------------------------------------------------------------------
(* PcapTransmitter::start(): the statistics thread first, then the transmit thread *)

(* PcapTxStats::start() joins the statistics thread it started before. *)
PollStart(c) ==
    /\ At(c, "transmit", "call")
    /\ Joinable(xpc)
    /\ xpc' = "run" /\ xrunning' = TRUE
    /\ Goto(c, "spin")
    /\ UNCHANGED <<xstop, txVars, countVars, aborted, sessionVars>>

PollSpin(c) ==
    /\ At(c, "transmit", "spin")
    /\ xrunning
    /\ Goto(c, "assert")
    /\ UNCHANGED <<transmitterVars, sessionVars>>

(* Q_ASSERT(txStats_.isRunning()); then PcapTxThread::start(), nothing on a running one. *)
TransmitCall(c) ==
    /\ At(c, "transmit", "assert")
    /\ \/ ~xrunning /\ aborted' = TRUE /\ UNCHANGED <<tstate, callerVars>>
       \/ xrunning /\ isTransmitOn /\ Done(c) /\ UNCHANGED <<tstate, aborted>>
       \/ /\ xrunning /\ ~isTransmitOn
          /\ tstate' = "kNotStarted"
          /\ Goto(c, "join")
          /\ UNCHANGED aborted
    /\ UNCHANGED <<tstop, tpc, sent, track, loops, size, pollVars, countVars, sessionVars>>

TransmitJoin(c) ==
    /\ At(c, "transmit", "join")
    /\ Joinable(tpc)
    /\ tpc' = "run"
    /\ Goto(c, "wait")
    /\ UNCHANGED <<tstate, tstop, sent, track, loops, size, pollVars, countVars, aborted, sessionVars>>

TransmitSpin(c) ==
    /\ At(c, "transmit", "wait")
    /\ tstate # "kNotStarted"
    /\ Done(c)
    /\ UNCHANGED <<transmitterVars, sessionVars>>

---------------------------------------------------------------------------
(* PcapTransmitter::stop(): the transmit thread first, then the statistics thread *)

HaltCall(c) ==
    /\ At(c, "halt", "call")
    /\ \/ isTransmitOn /\ tstop' = TRUE /\ Goto(c, "spin")
       \/ ~isTransmitOn /\ Goto(c, "join") /\ UNCHANGED tstop
    /\ UNCHANGED <<tstate, tpc, sent, track, loops, size, pollVars, countVars, aborted, sessionVars>>

HaltSpin(c) ==
    /\ At(c, "halt", "spin")
    /\ ~isTransmitOn
    /\ Goto(c, "join")
    /\ UNCHANGED <<transmitterVars, sessionVars>>

HaltJoin(c) ==
    /\ At(c, "halt", "join")
    /\ Joinable(tpc)
    /\ tpc' = "none"
    /\ Goto(c, "poll")
    /\ UNCHANGED <<tstate, tstop, sent, track, loops, size, pollVars, countVars, aborted, sessionVars>>

(* PcapTxStats::stop() does not ask whether its thread runs. *)
PollHalt(c) ==
    /\ At(c, "halt", "poll")
    /\ xstop' = TRUE
    /\ Goto(c, "wait")
    /\ UNCHANGED <<xpc, xrunning, txVars, countVars, aborted, sessionVars>>

PollJoin(c) ==
    /\ At(c, "halt", "wait")
    /\ ~xrunning /\ Joinable(xpc)
    /\ xpc' = "none"
    /\ Done(c)
    /\ UNCHANGED <<xstop, xrunning, txVars, countVars, aborted, sessionVars>>

---------------------------------------------------------------------------
(* PcapTxThread::run() *)

(* An empty list ends the thread before it ever says it runs. *)
TxBegin ==
    /\ tpc = "run"
    /\ \/ size = 0 /\ tpc' = "finish" /\ UNCHANGED <<tstate, sent>>
       \/ size # 0 /\ tpc' = "send" /\ tstate' = "kRunning" /\ sent' = 0
    /\ UNCHANGED <<tstop, track, loops, size, pollVars, countVars, aborted, sessionVars, callerVars>>

(* sendQueueTransmit(): one packet, then the test of stop_, which the run resets.  A   *)
(* repeating list goes round until then.                                               *)
TxSend ==
    /\ tpc = "send"
    /\ sent' = IF sent < MaxSent THEN sent + 1 ELSE sent
    /\ \/ tstop /\ tstop' = FALSE /\ tpc' = "count"
       \/ ~tstop /\ ~loops /\ sent' = size /\ tpc' = "count" /\ UNCHANGED tstop
       \/ ~tstop /\ (loops \/ sent' < size) /\ UNCHANGED <<tstop, tpc>>
    /\ UNCHANGED <<tstate, track, loops, size, pollVars, countVars, aborted, sessionVars, callerVars>>

(* updateTxStreamStats() adds the transmission to the thread's statistics. *)
TxCount ==
    /\ tpc = "count"
    /\ tpc' = "finish"
    /\ threadStats' = threadStats + (IF track THEN sent ELSE 0)
    /\ counted' = counted + (IF track THEN sent ELSE 0)
    /\ UNCHANGED <<tstate, tstop, sent, track, loops, size, xmitStats, pollVars, aborted, sessionVars, callerVars>>

TxFinish ==
    /\ tpc = "finish"
    /\ tpc' = "callback" /\ tstate' = "kFinished"
    /\ UNCHANGED <<tstop, sent, track, loops, size, pollVars, countVars, aborted, sessionVars, callerVars>>

(* PcapTxThread::streamStats() hands the counts over and clears them. *)
streamStats == threadStats' = 0

(* The finished callback: PcapTransmitter::updateTxThreadStreamStats(). *)
TxCallback ==
    /\ tpc = "callback"
    /\ tpc' = "done"
    /\ xmitStats' = xmitStats + threadStats
    /\ streamStats
    /\ UNCHANGED <<tstate, tstop, sent, track, loops, size, counted, pollVars, aborted, sessionVars, callerVars>>

---------------------------------------------------------------------------
(* PcapTxStats::run(): a round a second until stop_ *)

PollEnd ==
    /\ xpc = "run" /\ xstop
    /\ xpc' = "over" /\ xstop' = FALSE
    /\ UNCHANGED <<xrunning, txVars, countVars, aborted, sessionVars, callerVars>>

PollOver ==
    /\ xpc = "over"
    /\ xpc' = "done" /\ xrunning' = FALSE
    /\ UNCHANGED <<xstop, txVars, countVars, aborted, sessionVars, callerVars>>
=============================================================================
