--------------------------- MODULE MCTcpRpcServer ---------------------------
(* Instances of TcpRpcServer for TLC.  One run explores four scenarios, which *)
(* bound what the environment does and leave the server alone.               *)
EXTENDS TcpRpcServer, SequencesExt, TLC

VARIABLE scenario

MCInit == Init /\ scenario \in {"stream", "connections", "restart", "torn"}

\* One peer that pipelines frames of every kind, and a notifier
Stream == scenario = "stream" => peers' <= 1 /\ starts' <= 1 /\ sent'[1] <= 2

\* One peer that calls again behind a call whose answer may break off
Torn ==
  scenario = "torn" =>
    /\ peers' <= 1 /\ starts' <= 1 /\ casts' = 0
    /\ sent'[1] > sent[1] =>
         Last(inq'[1]).kind = (IF sent[1] = 0 THEN "version" ELSE "call")

\* A second start() behind a stop(), with one peer in between
Restart ==
  scenario = "restart" => peers' <= 1 /\ sent'[1] <= 1 /\ \A w \in Notifiers : pc'[w] = "idle"

\* Two peers and one start()/stop() cycle: every peer starts with checkVersion, only
\* the first one goes on, and only the service methods broadcast.
Connections ==
  scenario = "connections" =>
    /\ starts' <= 1
    /\ \A c \in Conns :
         /\ sent'[c] <= 2
         /\ sent'[c] > sent[c] =>
              Last(inq'[c]).kind = (IF sent[c] = 0 THEN "version" ELSE "call")
              /\ (c = 1 \/ sent[c] = 0)
         /\ reply'[c] # reply[c] => reply'[c].verdict # "off" /\ ~reply'[c].drop
                                    /\ reply'[c].kind = "Response"
    /\ \A w \in Notifiers : pc'[w] = "idle"

Scripted == Stream /\ Torn /\ Restart /\ Connections

MCVars == <<vars, scenario>>
MCNext == Next /\ UNCHANGED scenario
MCSpec == MCInit /\ [][MCNext]_MCVars /\ Progress

=============================================================================
