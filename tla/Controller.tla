----------------------------- MODULE Controller -----------------------------
(***************************************************************************)
(* ostinato-controller, the child process that owns the ClientSession of   *)
(* the desktop application (controller/main.cpp).  One thread reads        *)
(* requests from stdin, talks to the server and writes events and          *)
(* responses to stdout.  A frame is written in one step; the frames a      *)
(* handler still has to write are in `todo`, since the reader at the other *)
(* end may run between two of them.  The session is only on or off: what   *)
(* it does inside is in ClientSession.  Both ends send well-formed frames. *)
(***************************************************************************)
EXTENDS Naturals, Sequences

CONSTANTS
  Room,      \* frames that fit in the pipe to the parent
  MaxIds     \* bound: requests of the parent

ASSUME ControllerAssumption == Room \in Nat \ {0} /\ MaxIds \in Nat \ {0}

Ids == 1..MaxIds
Controls == {"connect", "disconnect", "reconnect"}
Commands == Controls \cup {"shutdown"}

VARIABLES
  life,      \* of the process: "new", "running", "exited"
  killed,    \* SIGKILL is pending
  at,        \* in the loop of main(): "head", "read", "tail" (a frame was handled)
  stopped,   \* the flag of that name, set by signals too
  session,   \* session_.connected()
  endpoint,  \* host_ is not empty
  work,      \* the request whose RPCs are being made, Idle if none
  todo,      \* frames the current handler still has to write
  stdin,     \* requests not read yet
  stdout     \* frames not read yet by the parent

ctlVars == <<life, killed, at, stopped, session, endpoint, work, todo, stdin, stdout>>

Status(s) == [kind |-> "status", state |-> s]
Response(r, ok) == [kind |-> "response", id |-> r.id, ok |-> ok]
ProtocolError == [kind |-> "protocolError"]

\* ports(): two events, empty unless the session is connected
Ports(on) == <<[kind |-> "ports", on |-> on], [kind |-> "stats", on |-> on]>>

States == {"connecting", "connected", "disconnected", "error"}
Requests == [id : Ids, cmd : Commands]
Outputs ==
  [kind : {"status"}, state : States] \cup [kind : {"ports", "stats"}, on : BOOLEAN]
    \cup [kind : {"response"}, id : Ids, ok : BOOLEAN] \cup {ProtocolError}
Idle == [id |-> 0, cmd |-> "none"]
Poll == [id |-> 0, cmd |-> "poll"]

CtlInit ==
  /\ life = "new" /\ at = "head"
  /\ killed = FALSE /\ stopped = FALSE /\ session = FALSE /\ endpoint = FALSE
  /\ work = Idle /\ todo = <<>> /\ stdin = <<>> /\ stdout = <<>>

IsIdle == life = "running" /\ work = Idle /\ todo = <<>>

\* A frame of the last read is next.  The loop over the frames ends once stopped is set,
\* but the first one is handled even if a signal came during the read.
CanHandle == IsIdle /\ stdin # <<>> /\ (at = "read" \/ (at = "tail" /\ ~stopped))

-----------------------------------------------------------------------------
(* Handlers                                                                *)

\* connect, or reconnect with a previous endpoint: the status goes out, then the RPCs
HandleConnect ==
  /\ CanHandle
  /\ Head(stdin).cmd \in {"connect", "reconnect"}
  /\ Head(stdin).cmd = "connect" \/ endpoint
  /\ endpoint' = TRUE /\ work' = Head(stdin) /\ stdin' = Tail(stdin) /\ at' = "tail"
  /\ todo' = <<Status("connecting")>>
  /\ UNCHANGED <<life, killed, stopped, session, stdout>>

HandleReconnectUnknown ==
  /\ CanHandle /\ Head(stdin).cmd = "reconnect" /\ ~endpoint
  /\ todo' = <<Response(Head(stdin), FALSE)>> /\ stdin' = Tail(stdin) /\ at' = "tail"
  /\ UNCHANGED <<life, killed, stopped, session, endpoint, work, stdout>>

HandleDisconnect ==
  /\ CanHandle /\ Head(stdin).cmd = "disconnect"
  /\ session' = FALSE /\ stdin' = Tail(stdin) /\ at' = "tail"
  /\ todo' = Ports(FALSE) \o <<Status("disconnected"), Response(Head(stdin), TRUE)>>
  /\ UNCHANGED <<life, killed, stopped, endpoint, work, stdout>>

\* stopped is set after the response is written, but nothing is done in between.
HandleShutdown ==
  /\ CanHandle /\ Head(stdin).cmd = "shutdown"
  /\ session' = FALSE /\ stopped' = TRUE /\ stdin' = Tail(stdin) /\ at' = "tail"
  /\ todo' = <<Response(Head(stdin), TRUE)>>
  /\ UNCHANGED <<life, killed, endpoint, work, stdout>>

\* finishConnection(): the session is set up and the statistics have been read.
Connected ==
  /\ life = "running" /\ todo = <<>> /\ work.cmd \in {"connect", "reconnect"}
  /\ session' = TRUE /\ work' = Idle
  /\ todo' = <<Status("connected")>> \o Ports(TRUE) \o <<Response(work, TRUE)>>
  /\ UNCHANGED <<life, killed, at, stopped, endpoint, stdin, stdout>>

\* finishConnection(): the session or the statistics failed; both leave it disconnected.
ConnectFails ==
  /\ life = "running" /\ todo = <<>> /\ work.cmd \in {"connect", "reconnect"}
  /\ session' = FALSE /\ work' = Idle
  /\ todo' = Ports(FALSE) \o <<Status("error"), Response(work, FALSE)>>
  /\ UNCHANGED <<life, killed, at, stopped, endpoint, stdin, stdout>>

\* The two ends of the loop body; pollStats() is due every 500 ms.
LoopHead ==
  /\ IsIdle /\ at = "head" /\ ~stopped /\ at' = "read"
  /\ UNCHANGED <<life, killed, stopped, session, endpoint, work, todo, stdin, stdout>>

LoopEnd ==
  /\ IsIdle /\ at \in {"read", "tail"} /\ at' = "head"
  /\ UNCHANGED <<life, killed, stopped, session, endpoint, work, todo, stdin, stdout>>

PollBegin ==
  /\ IsIdle /\ at \in {"read", "tail"} /\ session
  /\ at' = "head" /\ work' = Poll
  /\ UNCHANGED <<life, killed, stopped, session, endpoint, todo, stdin, stdout>>

PollDone ==
  /\ life = "running" /\ work = Poll
  /\ work' = Idle /\ todo' = Ports(TRUE)
  /\ UNCHANGED <<life, killed, at, stopped, session, endpoint, stdin, stdout>>

\* Mutant of PollFails: the status goes out before the ports.
PollFailsStatusFirst ==
  /\ life = "running" /\ work = Poll
  /\ work' = Idle /\ session' = FALSE /\ todo' = <<Status("error")>> \o Ports(FALSE)
  /\ UNCHANGED <<life, killed, at, stopped, endpoint, stdin, stdout>>

PollFails ==
  /\ life = "running" /\ work = Poll
  /\ work' = Idle /\ session' = FALSE /\ todo' = Ports(FALSE) \o <<Status("error")>>
  /\ UNCHANGED <<life, killed, at, stopped, endpoint, stdin, stdout>>

-----------------------------------------------------------------------------
(* Output                                                                  *)

\* send(): the next frame goes to the pipe when there is room.
Write ==
  /\ life = "running" /\ todo # <<>> /\ Len(stdout) < Room
  /\ stdout' = Append(stdout, Head(todo)) /\ todo' = Tail(todo)
  /\ UNCHANGED <<life, killed, at, stopped, session, endpoint, work, stdin>>

\* abortOutput(): a snapshot of the ports exceeds the limit of a frame.  The rest of the
\* handler is skipped, the error is sent in its place, and the process ends.
WriteOversize ==
  /\ life = "running" /\ todo # <<>>
  /\ Head(todo).kind \in {"ports", "stats"} /\ Head(todo).on
  /\ todo' = <<ProtocolError>> /\ session' = FALSE /\ stopped' = TRUE
  /\ UNCHANGED <<life, killed, at, endpoint, work, stdin, stdout>>

-----------------------------------------------------------------------------
(* The process                                                             *)

\* The loop ends.
Exit ==
  /\ IsIdle /\ at = "head" /\ stopped /\ life' = "exited"
  /\ UNCHANGED <<killed, at, stopped, session, endpoint, work, todo, stdin, stdout>>

\* SIGKILL takes effect, or the process crashes.
Die ==
  /\ life = "running" /\ life' = "exited"
  /\ UNCHANGED <<killed, at, stopped, session, endpoint, work, todo, stdin, stdout>>

CtlStep ==
  \/ HandleConnect \/ HandleReconnectUnknown \/ HandleDisconnect \/ HandleShutdown
  \/ Connected \/ ConnectFails \/ LoopHead \/ LoopEnd \/ PollBegin \/ PollDone \/ PollFails
  \/ Write \/ WriteOversize \/ Exit

=============================================================================
