--------------------------- MODULE MCClientSession ---------------------------
(* Instances of ClientSession for TLC. *)
EXTENDS ClientSession

\* Servers with two ports, one and none.
FewerPorts == [s \in Servers |-> CASE s = "a" -> Ids [] s = "b" -> {1} [] OTHER -> {}]

=============================================================================
