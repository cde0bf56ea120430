------------------------------ MODULE Sidecar ------------------------------
(***************************************************************************)
(* The main process of the desktop application (desktop/electron/          *)
(* sidecar.ts, main.ts, snapshot.ts) with the controller it runs as a      *)
(* child.  Main is one event loop: an action is one callback together with *)
(* the promise continuations that run before the next callback.  Calls     *)
(* that are refused at once (busy, not running) change nothing and are no  *)
(* actions.  Stdout is handled frame by frame, which allows more orders    *)
(* than whole chunks.                                                      *)
(***************************************************************************)
EXTENDS Controller

VARIABLES
  child,       \* this.child: "none" before start(), "up", "gone" after settleTerminal()
  nextId,
  pending,     \* requests without a response
  fired,       \* ids whose deadline timer has fired
  lost,        \* ids of requests written to a process that was gone
  controlInFlight,
  failureReported,
  termination, \* terminate(): "no", "term", "kill" (waiting after each signal), "done"
  stop,        \* stop(): "no", "shutdown", "grace", "terminate" (what it awaits), "done"
  snapshot     \* of main.ts: what the window shows

mainVars == <<child, nextId, pending, fired, lost, controlInFlight, failureReported,
              termination, stop, snapshot>>
vars == <<ctlVars, mainVars>>

terminating == termination # "no"
stopping == stop # "no"

\* The controller is untouched, or only its pipes are touched.
CtlIdle == UNCHANGED ctlVars
CtlPipes == UNCHANGED <<life, killed, at, stopped, session, endpoint, work, todo>>

FailedSnapshot == [state |-> "error", ports |-> FALSE, stats |-> FALSE]

Init ==
  /\ CtlInit
  /\ child = "none" /\ nextId = 1 /\ pending = {} /\ fired = {} /\ lost = {}
  /\ controlInFlight = FALSE /\ failureReported = FALSE /\ termination = "no" /\ stop = "no"
  /\ snapshot = [state |-> "starting", ports |-> FALSE, stats |-> FALSE]

-----------------------------------------------------------------------------
(* What the callbacks have in common                                       *)

\* reportFailure()
ReportFailure ==
  IF failureReported \/ stopping
    THEN UNCHANGED <<failureReported, snapshot>>
    ELSE failureReported' = TRUE /\ snapshot' = FailedSnapshot

\* terminate() up to its first await: SIGTERM, whose handler sets stopped
Terminate ==
  IF terminating
    THEN UNCHANGED <<termination, stopped>>
    ELSE termination' = "term" /\ stopped' = (stopped \/ life = "running")

Fail ==
  /\ ReportFailure /\ Terminate
  /\ UNCHANGED <<life, killed, at, session, endpoint, work, todo, stdin>>

\* settleTerminal(): everything that is pending is rejected, and the waits of
\* terminate() and stop() are over.
SettleTerminal ==
  /\ child' = "gone" /\ pending' = {} /\ controlInFlight' = FALSE
  /\ termination' = IF terminating THEN "done" ELSE "no"
  /\ stop' = IF stopping THEN "done" ELSE "no"
  /\ snapshot' = IF stopping \/ terminating THEN snapshot ELSE FailedSnapshot
  /\ UNCHANGED <<nextId, fired, lost, failureReported>>

\* sendRequest(): a write to a process that has ended fails later.
SendRequest(cmd) ==
  LET request == [id |-> nextId, cmd |-> cmd]
  IN /\ nextId' = nextId + 1
     /\ pending' = pending \cup {request}
     /\ IF life = "running"
          THEN stdin' = Append(stdin, request) /\ UNCHANGED lost
          ELSE lost' = lost \cup {nextId} /\ UNCHANGED stdin

-----------------------------------------------------------------------------
(* The application                                                         *)

\* whenReady: the controller is spawned, or the spawn fails (error, then close).
Start ==
  /\ child = "none" /\ snapshot.state = "starting" /\ stop = "no"
  /\ child' = "up"
  /\ \/ life' = "running" /\ todo' = <<Status("disconnected")>>
     \/ life' = "exited" /\ UNCHANGED todo
  /\ UNCHANGED <<killed, at, stopped, session, endpoint, work, stdin, stdout>>
  /\ UNCHANGED <<nextId, pending, fired, lost, controlInFlight, failureReported,
                 termination, stop, snapshot>>

\* start() throws: the executable is missing.
StartThrows ==
  /\ child = "none" /\ snapshot.state = "starting" /\ stop = "no"
  /\ snapshot' = FailedSnapshot
  /\ CtlIdle
  /\ UNCHANGED <<child, nextId, pending, fired, lost, controlInFlight, failureReported,
                 termination, stop>>

\* command() from the window; the last id is left for the shutdown request.
Command(cmd) ==
  /\ child = "up" /\ ~terminating /\ ~controlInFlight /\ nextId < MaxIds
  /\ controlInFlight' = TRUE
  /\ SendRequest(cmd)
  /\ CtlPipes
  /\ UNCHANGED <<stdout, child, fired, failureReported, termination, stop, snapshot>>

\* before-quit: stop(), called once.  Its shutdown request is refused when termination has
\* begun, or when the end of the child has already closed stdin.
StopBegin ==
  /\ stop = "no" /\ (child # "none" \/ snapshot.state = "error")
  /\ \/ /\ child # "up" /\ stop' = "done" /\ UNCHANGED <<nextId, pending, lost, stdin>>
     \/ /\ child = "up" /\ ~terminating
        /\ stop' = "shutdown" /\ SendRequest("shutdown")
     \/ /\ child = "up" /\ (terminating \/ life = "exited")
        /\ stop' = "grace" /\ UNCHANGED <<nextId, pending, lost, stdin>>
  /\ CtlPipes
  /\ UNCHANGED <<stdout, child, fired, controlInFlight, failureReported, termination, snapshot>>

-----------------------------------------------------------------------------
(* Events                                                                  *)

\* controllerEvent()
ControllerEvent(f) ==
  snapshot' = CASE f.kind = "status" -> [snapshot EXCEPT !.state = f.state]
                [] f.kind = "ports" -> [snapshot EXCEPT !.ports = f.on]
                [] f.kind = "stats" -> [snapshot EXCEPT !.stats = f.on]
                [] OTHER -> FailedSnapshot

\* onResponse() to a pending request; stop() goes on when it was its own.
Resolve(r) ==
  /\ pending' = pending \ {r}
  /\ controlInFlight' = (controlInFlight /\ r.cmd = "shutdown")
  /\ stop' = IF r.cmd = "shutdown" THEN "grace" ELSE stop

\* onStdout(): a frame; dropped when terminating, a failure when its id is unknown.
OnStdout ==
  /\ child # "none" /\ stdout # <<>>
  /\ stdout' = Tail(stdout)
  /\ LET f == Head(stdout)
         known == {r \in pending : r.id = Head(stdout).id}
     IN IF terminating
          THEN UNCHANGED <<pending, controlInFlight, stop, snapshot, failureReported,
                           termination, stopped>>
        ELSE IF f.kind # "response"
          THEN /\ ControllerEvent(f)
               /\ UNCHANGED <<pending, controlInFlight, stop, failureReported, termination, stopped>>
        ELSE IF known = {}
          THEN ReportFailure /\ Terminate /\ UNCHANGED <<pending, controlInFlight, stop>>
          ELSE /\ \E r \in known : Resolve(r)
               /\ UNCHANGED <<snapshot, failureReported, termination, stopped>>
  /\ UNCHANGED <<life, killed, at, session, endpoint, work, todo, stdin>>
  /\ UNCHANGED <<child, nextId, fired, lost>>

\* The write callback reports that the process was gone.
WriteFails ==
  /\ \E r \in pending : r.id \in lost /\ ~terminating
  /\ Fail
  /\ UNCHANGED <<stdout, child, nextId, pending, fired, lost, controlInFlight, stop>>

\* close: the process has ended and stdout is drained.
OnClose ==
  /\ child = "up" /\ life = "exited" /\ stdout = <<>>
  /\ SettleTerminal
  /\ CtlIdle

-----------------------------------------------------------------------------
(* Timers                                                                  *)

\* Mutant of Deadline: the request is rejected, the child left alone.
DeadlineRejects ==
  /\ \E r \in pending :
       /\ r.id \notin fired /\ fired' = fired \cup {r.id}
       /\ Resolve(r)
  /\ ReportFailure
  /\ CtlIdle
  /\ UNCHANGED <<child, nextId, lost, termination>>

\* Mutant of Deadline: the failure is reported and nothing else.
DeadlineOnlyReports ==
  /\ \E r \in pending : r.id \notin fired /\ fired' = fired \cup {r.id}
  /\ ReportFailure
  /\ CtlIdle
  /\ UNCHANGED <<child, nextId, pending, lost, controlInFlight, termination, stop>>

\* The deadline of a request passes: it stays pending until the child is gone.
Deadline ==
  /\ \E r \in pending : r.id \notin fired /\ fired' = fired \cup {r.id}
  /\ Fail
  /\ UNCHANGED <<stdout, child, nextId, pending, lost, controlInFlight, stop>>

\* The wait after SIGTERM passes: SIGKILL.
TermGrace ==
  /\ termination = "term" /\ termination' = "kill"
  /\ killed' = (life = "running")
  /\ UNCHANGED <<life, at, stopped, session, endpoint, work, todo, stdin, stdout>>
  /\ UNCHANGED <<child, nextId, pending, fired, lost, controlInFlight, failureReported,
                 stop, snapshot>>

\* Mutant of KillGrace: only close ends the wait.
KillGraceWaits ==
  /\ termination = "kill" /\ life = "exited" /\ stdout = <<>>
  /\ SettleTerminal
  /\ CtlIdle

\* The wait after SIGKILL passes: settled without close.
KillGrace ==
  /\ termination = "kill"
  /\ SettleTerminal
  /\ CtlIdle

\* The wait of stop() passes: terminate(), which may have begun before.
StopGrace ==
  /\ stop = "grace" /\ stop' = "terminate"
  /\ Terminate
  /\ UNCHANGED <<life, killed, at, session, endpoint, work, todo, stdin, stdout>>
  /\ UNCHANGED <<child, nextId, pending, fired, lost, controlInFlight, failureReported, snapshot>>

-----------------------------------------------------------------------------
CtlAlone == (CtlStep \/ Die) /\ UNCHANGED mainVars

Next ==
  \/ Start \/ StartThrows \/ (\E cmd \in Controls : Command(cmd)) \/ StopBegin
  \/ OnStdout \/ WriteFails \/ OnClose
  \/ Deadline \/ TermGrace \/ KillGrace \/ StopGrace
  \/ CtlAlone

Spec == Init /\ [][Next]_vars

\* Timers fire.  Nothing is assumed of the child, nor of the platform's report of its end.
TimedSpec ==
  Spec /\ WF_vars(Deadline) /\ WF_vars(TermGrace) /\ WF_vars(KillGrace) /\ WF_vars(StopGrace)

\* The child runs, its RPCs end (every one has a timeout) and main reads its output.
ChildRuns == WF_vars(CtlStep /\ UNCHANGED mainVars) /\ WF_vars(OnStdout)

-----------------------------------------------------------------------------
(* Properties                                                              *)

\* The window never shows ports or statistics of a connection it shows as ended, as the
\* controller empties them before it says so, and so does every failure main reports
\* itself.  When the controller is idle and main has read all it wrote, the window shows
\* a connection exactly when the session has one.  Once the child is lost or being
\* terminated, without quitting, the window shows an error and keeps showing it, whatever
\* the child had still written.
WindowIsTrue ==
  /\ snapshot.state \in {"disconnected", "error"} => ~snapshot.ports /\ ~snapshot.stats
  /\ IsIdle /\ ~stopped /\ stdout = <<>> /\ ~terminating /\ snapshot.state # "starting"
       => (snapshot.state = "connected") = session
  /\ (terminating \/ child = "gone") /\ ~stopping => snapshot.state = "error"

\* A response never finds its request forgotten, however late it is: a request that has
\* passed its deadline stays pending until the child is gone.  For the same reason one
\* control request and one shutdown request at most are anywhere between main and the end
\* of the controller's handler; controlInFlight alone would not do, since a deadline frees
\* main before the child.
NoUnknownResponse ==
  /\ stdout # <<>> /\ ~terminating /\ child = "up" /\ Head(stdout).kind = "response"
       => \E r \in pending : r.id = Head(stdout).id
  /\ \A cmds \in {Controls, {"shutdown"}} :
       /\ \A r, q \in pending : r.cmd \in cmds /\ q.cmd \in cmds => r = q
       /\ child = "up" => \A i \in DOMAIN stdin : stdin[i].cmd \in cmds =>
            /\ work.cmd \notin cmds
            /\ \A j \in DOMAIN stdin : stdin[j].cmd \in cmds => i = j

\* Every command settles, even if the child hangs, ignores signals or is never reported dead.
CommandsSettle == \A id \in Ids : (\E r \in pending : r.id = id) ~> ~(\E r \in pending : r.id = id)

\* stop() returns, so that the application can quit, under the same conditions, and then
\* no controller is left behind: it has ended or has been sent SIGKILL.  A controller told
\* to stop, by a request, a signal or its own failure, ends by itself, if it runs and is
\* read from.
StopReturns ==
  /\ stopping ~> stop = "done" /\ (life # "running" \/ killed)
  /\ ChildRuns => (stopped ~> life = "exited")

=============================================================================
