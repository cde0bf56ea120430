------------------------------ MODULE QtChannel ------------------------------
(***************************************************************************)
(* PbRpcChannel, the channel of the Qt client: one call is on the wire,    *)
(* the ones made meanwhile wait in pendingCallList; and RpcConnection, the *)
(* Qt server's side of the connection, which answers one request after the *)
(* other and sends notifications once the versions were compared.          *)
(*                                                                         *)
(* A call is made with a completion (done), which the channel runs when it *)
(* has read the answer.  The channel is still pending while it does: what  *)
(* a completion calls is always queued.  A completion may show a dialog;   *)
(* its event loop delivers timers and the loss of the connection, and not  *)
(* readyRead, which Qt does not emit from within its own slot.             *)
(***************************************************************************)
EXTENDS Naturals, Sequences

VARIABLES
  sock,      \* the state of mpSocket
  pending,   \* the call that was sent: isPending, pendingMethodId, done, ...
  queue,     \* pendingCallList
  wire,      \* answers and notifications under way to the client
  request,   \* the request the server has not answered
  compared,  \* isCompatCheckDone
  dialog     \* a completion has not returned: it shows a dialog
channelVars == <<sock, pending, queue, wire, request, compared, dialog>>

\* done: the completion; port: the index of the port it is bound to; arg:
\* contents by id, what the request carries.
Call(m, done, port, arg) == [m |-> m, done |-> done, port |-> port, arg |-> arg]
NoCall == Call("none", "none", 0, [i \in {} |-> ""])
Message(kind, m, ok, data) == [kind |-> kind, m |-> m, ok |-> ok, data |-> data]

ChannelInit ==
  /\ sock = "unconnected" /\ pending = NoCall /\ queue = <<>> /\ wire = <<>>
  /\ request = NoCall /\ compared = FALSE /\ dialog = FALSE

-----------------------------------------------------------------------------
(* The client's side.                                                      *)

\* establish: a socket that is not idle ignores it.
establish == sock' = IF sock = "unconnected" THEN "connecting" ELSE sock

Send(calls) ==
  /\ pending' = IF calls = <<>> THEN NoCall ELSE Head(calls)
  /\ request' = IF calls = <<>> THEN NoCall ELSE Head(calls)
  /\ queue' = IF calls = <<>> THEN <<>> ELSE Tail(calls)

\* CallMethod, for the calls that one handler makes one after the other
CallMethod(calls) ==
  IF pending = NoCall THEN Send(calls)
  ELSE queue' = queue \o calls /\ UNCHANGED <<pending, request>>

\* on_mpSocket_readyRead has read the answer to the pending call.
Answered(done) ==
  /\ ~dialog /\ wire # <<>> /\ Head(wire).kind = "answer"
  /\ pending # NoCall /\ Head(wire).m = pending.m /\ pending.done = done

\* The completion has made calls and returned; the next call is sent.
Complete(calls) ==
  /\ wire' = Tail(wire) /\ Send(queue \o calls)
  /\ UNCHANGED <<sock, compared, dialog>>

\* The completion has made calls and shows a dialog.
Ask(calls) ==
  /\ wire' = Tail(wire) /\ queue' = queue \o calls /\ dialog' = TRUE
  /\ UNCHANGED <<sock, pending, request, compared>>

\* The dialog was closed.  What is pending now counts as answered, be it the
\* call of the completion or one that was made on a new connection since.
Closed ==
  /\ dialog /\ dialog' = FALSE /\ Send(queue)
  /\ UNCHANGED <<sock, wire, compared>>

\* "not waiting for response"
Unexpected ==
  /\ ~dialog /\ wire # <<>> /\ Head(wire).kind = "answer"
  /\ pending = NoCall \/ Head(wire).m # pending.m
  /\ wire' = Tail(wire)
  /\ UNCHANGED <<sock, pending, queue, request, compared, dialog>>

\* A notification: its handler makes calls.
Notified(calls) ==
  /\ ~dialog /\ wire # <<>> /\ Head(wire).kind = "notify"
  /\ wire' = Tail(wire) /\ CallMethod(calls)
  /\ UNCHANGED <<sock, compared, dialog>>

\* Mutant: the calls that wait survive the connection.
on_mpSocket_disconnectedQueued ==
  /\ sock' = "unconnected" /\ pending' = NoCall /\ UNCHANGED <<queue, dialog>>
  /\ wire' = <<>> /\ request' = NoCall /\ compared' = FALSE

\* The calls that were not answered are forgotten; their completions never run.
on_mpSocket_disconnected ==
  /\ sock' = "unconnected" /\ pending' = NoCall /\ queue' = <<>>
  /\ wire' = <<>> /\ request' = NoCall /\ compared' = FALSE
  /\ UNCHANGED dialog

-----------------------------------------------------------------------------
(* The server's side.                                                      *)

\* on_clientSock_dataAvail: the request is the service's only when the versions
\* were compared.
Serves(m) == sock = "connected" /\ request # NoCall /\ request.m = m /\ (compared \/ m = "checkVersion")

\* sendRpcReply, and the notifications sent before and after it.  A version that
\* does not fit counts as not compared: that answer is the last the server sends.
sendRpcReply(ok, data, before, after) ==
  /\ wire' = wire \o before \o <<Message("answer", request.m, ok, data)>> \o after
  /\ compared' = (compared \/ (request.m = "checkVersion" /\ ok))
  /\ request' = NoCall
  /\ UNCHANGED <<sock, pending, queue, dialog>>

sendNotification(data) ==
  /\ sock = "connected" /\ compared
  /\ wire' = Append(wire, Message("notify", "portConfigChanged", TRUE, data))
  /\ UNCHANGED <<sock, pending, queue, request, compared, dialog>>
=============================================================================
