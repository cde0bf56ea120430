--------------------------- MODULE MCTcpRpcClient ---------------------------
(* TcpRpcClient for TLC.  The threads are interchangeable.                  *)
EXTENDS TcpRpcClient, TLC

Symmetry == Permutations(Threads)

\* One run asks two questions.  Two invocations are interrupted and the client destroyed
\* at every point, without notifications; or up to three invocations share one
\* connection that nobody interrupts.
InterruptsOrWire ==
  \/ ops <= 2 /\ noted = 0
  \/ intrs = 0 /\ conns <= 1 /\ dtor = "alive" /\ \A t \in Threads : addr[t] <= 1

=============================================================================
