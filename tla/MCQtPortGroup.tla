---------------------------- MODULE MCQtPortGroup ----------------------------
(* Instances of QtPortGroup for TLC: a scenario says what happens. *)
EXTENDS QtPortGroup, TLC

VARIABLE scenario

MCCanon(v) == IF v = "b" THEN "c" ELSE v
\* The second port was left with a stream and a device group.
MCOnServer ==
  <<[conf |-> "free", port |-> NewPort],
    [conf |-> "free", port |-> [NewPort EXCEPT !.streams = (1 :> "a"), !.groups = (2 :> "c")]]>>
MCSession == (2 :> [conf |-> "mine", streams |-> (3 :> "b"), groups |-> (1 :> "b")])

\* open: the session is opened, the connection is lost, another client reserves
\* a port, statistics are polled.  apply: the user edits port 1 and applies it,
\* twice; the port transmits, it is modified, or the connection is lost.
\* buttons: the user presses the other buttons.
Scenarios == {"open", "apply", "buttons"}
Within(u) ==
  CASE scenario = "open" -> u.edits + u.applies + u.commands = 0
    [] scenario = "apply" -> u.polls + u.changes = 0 /\ u.commands + u.drops <= 1
    [] scenario = "buttons" -> u.edits + u.applies + u.changes = 0 /\ u.drops <= u.commands

\* In "apply" and "buttons" nothing happens before the ports have been read, and
\* the user edits when no answer is awaited.
Ready == Len(ports) = NumPorts /\ \A p \in DOMAIN ports : ~Hydrating(p)
Acts == scenario = "open" \/ used' = used \/ Ready
Edited == used'.edits # used.edits => pending = NoCall /\ ports'[2] = ports[2]
Presses ==
  scenario = "apply" /\ used'.commands > used.commands =>
    \E c \in {pending'} \union Range(queue') :
      c.done \in {"processStartTxAck", "processModifyPortBuildAck(true)"} /\ c.port = 1
Bounds == Within(used') /\ Acts /\ Edited /\ Presses

MCQtInit == PortGroupInit /\ scenario \in Scenarios /\ (compatible \/ scenario = "open")
MCQtNext ==
  /\ Connection \/ Serve \/ readyRead \/ Surroundings \/ (scenario # "open" /\ Ready /\ Users)
  /\ UNCHANGED scenario
MCQtSpec ==
  /\ MCQtInit /\ [][MCQtNext]_<<qtVars, scenario>>
  /\ WF_qtVars(Serve) /\ WF_qtVars(readyRead) /\ WF_qtVars(CloseDialog)
  /\ WF_qtVars(on_reconnectTimer_timeout) /\ SF_qtVars(on_rpcChannel_connected)
=============================================================================
