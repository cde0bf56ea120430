--------------------------- MODULE MCStreamDialog ---------------------------
(* Instances of StreamDialog for TLC. *)
EXTENDS StreamDialog

Protos(s) == [n \in DOMAIN s |-> [id |-> s[n], val |-> 0]]
Meta(n, u, r) == [len |-> n, unit |-> u, mode |-> "fixed", rate |-> [x \in {"packets", "bursts"} |-> r]]
\* A new stream and one of a trace: a protocol of the simple page after another.
MCOpened ==
  {<<[protos |-> Protos(<<"mac", "eth2", "ip4", "udp", "payload">>), meta |-> Meta(64, "packets", 5000)],
     [protos |-> Protos(<<"mac", "vlan", "eth2", "user">>), meta |-> Meta(128, "bursts", 5004)]>>,
   <<[protos |-> <<>>, meta |-> Meta(64, "packets", 5000)]>>}
=============================================================================
