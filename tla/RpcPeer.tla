------------------------------- MODULE RpcPeer -------------------------------
(***************************************************************************)
(* What a client may expect of the server at the other end of one RPC      *)
(* connection: requests are answered in order, each with one terminal      *)
(* frame; an answer that breaks off is the last one, and so is the one     *)
(* that says that the version is incompatible; notifications come at any   *)
(* time after the answer to checkVersion.  TcpRpcServer implements this on *)
(* every connection.  The peer of TcpRpcClient may do all of this and send *)
(* malformed frames besides.                                               *)
(***************************************************************************)
EXTENDS Naturals, Sequences

VARIABLES
  life,    \* of the connection
  torn,    \* an answer broke off
  asked,   \* requests not answered yet
  greeted, \* what checkVersion has been answered
  out      \* frames sent by the server, not received yet

Terminal == {"Response", "Error", "Blob"}

Init == life = "new" /\ ~torn /\ asked = <<>> /\ greeted = "no" /\ out = <<>>

Open == life = "new" /\ life' = "up" /\ UNCHANGED <<torn, asked, greeted, out>>

Ask ==
  /\ life = "up" /\ Len(asked') = Len(asked) + 1
  /\ asked' = Append(asked, asked'[Len(asked')])
  /\ UNCHANGED <<life, torn, greeted, out>>

Reply ==
  /\ life = "up" /\ ~torn /\ greeted # "refused" /\ asked # <<>>
  /\ \E kind \in Terminal : out' = Append(out, [kind |-> kind, id |-> Head(asked)])
  /\ asked' = Tail(asked)
  /\ greeted' \in {greeted, "yes", "refused"}
  /\ UNCHANGED <<life, torn>>

\* The answer breaks off; the server is about to close the connection.
Tear ==
  /\ life = "up" /\ ~torn /\ greeted # "refused" /\ asked # <<>>
  /\ torn' = TRUE /\ asked' = Tail(asked)
  /\ UNCHANGED <<life, greeted, out>>

\* A broadcast asks neither whether the answer was a refusal nor whether one
\* broke off: until the connection is closed both kinds of client may get a
\* notification, the latter inside the frame that is incomplete.
Notify ==
  /\ life = "up" /\ greeted # "no" /\ Len(out') = Len(out) + 1
  /\ out' = Append(out, out'[Len(out')]) /\ out'[Len(out')].kind = "Notification"
  /\ UNCHANGED <<life, torn, asked, greeted>>

\* The client receives some of the frames.
Receive ==
  /\ \E n \in 1..Len(out) : out' = SubSeq(out, n + 1, Len(out))
  /\ UNCHANGED <<life, torn, asked, greeted>>

\* Either end closes; what was not received yet may be lost.
Close ==
  /\ life = "up" /\ life' = "down"
  /\ asked' = <<>> /\ greeted' = "no"
  /\ \E n \in 0..Len(out) : out' = SubSeq(out, 1, n)
  /\ UNCHANGED torn

Next == Open \/ Ask \/ Reply \/ Tear \/ Notify \/ Receive \/ Close

peerVars == <<life, torn, asked, greeted, out>>
Step == Next \/ UNCHANGED peerVars

Spec == Init /\ [][Next]_peerVars

=============================================================================
