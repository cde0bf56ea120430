--------------------------- MODULE DronePortProofs ---------------------------
(***************************************************************************)
(* Theorems about DronePort: who may touch a session, a capture file and   *)
(* the statistics of a port.  The inductive invariant DroneInv says        *)
(*   - that only the holder of the port's lock has calls of sessions or of *)
(*     the transmitter to make,                                            *)
(*   - at which of these calls each state of a session's thread is found,  *)
(*   - that the capture is joined while its file is sent,                  *)
(*   - where the packets that were counted are.                            *)
(***************************************************************************)
EXTENDS DronePort, TLAPS

Op == ({"start", "stop"} \X Sessions) \cup ({"transmit", "halt"} \X {"tx"})
Holding == {"ops", "transmit", "blob"}
Place == {"call", "join", "spin", "assert", "wait", "break", "halt", "poll"}
Free == {"idle", "check", "canModify", "clear", "lock"}

SessionTypes ==
  /\ state \in [Sessions -> {"kNotStarted", "kRunning", "kFinished"}]
  /\ stop \in [Sessions -> BOOLEAN] /\ seen \in [Sessions -> BOOLEAN]
  /\ open \in [Sessions -> BOOLEAN] /\ got \in [Sessions -> Nat]
  /\ spc \in [Sessions -> {"none", "run", "ready", "loop", "post", "done"}]

CallTypes ==
  /\ ops \in [Clients -> Seq(Op)]
  /\ at \in [Clients -> Place]
  /\ pc \in [Clients -> Holding \cup Free] /\ lock \in Clients \cup {None}
  /\ rpc \in [Clients -> Rpcs \cup {[name |-> "none"]}] /\ blob \in [Clients -> Nat]

CountTypes ==
  /\ portStats \in Nat /\ xmitStats \in Nat /\ threadStats \in Nat
  /\ cleared \in Nat /\ counted \in Nat /\ sent \in Nat

\* The holder of the lock is the one that calls threads or sends the capture file.
HolderOK(c) ==
  /\ pc[c] \in Holding <=> lock = c
  /\ ops[c] # <<>> => pc[c] = "ops"
  /\ ops[c] = <<>> => at[c] = "call"
  /\ pc[c] = "transmit" => rpc[c].name = "startTransmit"

\* The holder of the lock is at a place of an operation on a session.
Works(op, where, s) == lock \in Clients /\ At(lock, op, where) /\ Target(lock) = s

\* A session is alive from preRun() to the signal that stop() sends it, and it begins
\* and ends under the eyes of the thread that starts or stops it.
SessionOK(s) ==
  /\ state[s] = "kRunning" <=> spc[s] \in {"loop", "post"}
  /\ spc[s] \in {"ready", "loop", "post"} => open[s]
  /\ spc[s] \in {"run", "ready"} => Works("start", "spin", s) /\ state[s] = "kNotStarted"
  /\ Works("start", "join", s) => state[s] = "kNotStarted"
  /\ Works("stop", "break", s) => spc[s] \in {"loop", "post"} /\ ~seen[s]
  /\ spc[s] \in {"loop", "post"} /\ seen[s] => Works("stop", "halt", s)

\* getCaptureBuffer() stops the capture first; then nobody starts it again.
BufferOK(c) ==
  /\ pc[c] = "ops" /\ rpc[c].name = "getCaptureBuffer" =>
       \/ ops[c] = <<<<"stop", "capture">>>>
       \/ ops[c] = <<>> /\ spc["capture"] = "none"
  /\ pc[c] = "blob" => spc["capture"] = "none" /\ got["capture"] = blob[c]

HoldersOK == \A c \in Clients : HolderOK(c)
SessionsOK == \A s \in Sessions : SessionOK(s)
BuffersOK == \A c \in Clients : BufferOK(c)

\* Every packet counted is in one place, and in the transmit thread only on its way out.
CountsOK ==
  /\ portStats + xmitStats + threadStats + cleared = counted
  /\ threadStats # 0 => tpc \in {"finish", "callback"}

ControlInv == SessionTypes /\ CallTypes /\ HoldersOK /\ SessionsOK /\ BuffersOK

DroneInv == ControlInv /\ CountTypes /\ CountsOK

-----------------------------------------------------------------------------
(* Where a thread may be, and what it may be given to do                   *)

\* The locations of the handlers, and the sessions
LEMMA PlaceFacts ==
  /\ None \notin Clients /\ "capture" \in Sessions /\ "emul" \in Sessions
  /\ "rx" \in Sessions /\ "ttag" \in Sessions
  /\ Holding \cap Free = {} /\ "lock" \in Free /\ "idle" \in Free /\ "clear" \in Free
  /\ "check" \in Free /\ "canModify" \in Free
  /\ "ops" \in Holding /\ "transmit" \in Holding /\ "blob" \in Holding
  /\ "call" \in Place /\ "join" \in Place /\ "spin" \in Place /\ "wait" \in Place
  /\ "break" \in Place /\ "halt" \in Place
  BY Zenon, DroneAssumption DEF Holding, Free, Place

\* One or two operations on sessions are a sequence of operations.
LEMMA OpFacts ==
  /\ \A s \in Sessions : <<"start", s>> \in Op /\ <<"stop", s>> \in Op
  /\ <<"transmit", "tx">> \in Op /\ <<"halt", "tx">> \in Op
  /\ <<>> \in Seq(Op) /\ \A o \in Op : <<o>> \in Seq(Op) /\ <<o>> # <<>>
  /\ \A o \in Op, p \in Op : <<o, p>> \in Seq(Op) /\ <<o, p>> # <<>>
  BY DEF Op

\* What is left of a sequence is another one.
LEMMA TailDiffers ==
  ASSUME NEW S, NEW q \in Seq(S), q # <<>>
  PROVE  Tail(q) # q
<1>1. Len(Tail(q)) = Len(q) - 1 /\ Len(q) \in Nat
  OBVIOUS
<1>2. \A m \in Nat : m # m - 1
  OBVIOUS
<1>3. SUFFICES ASSUME Tail(q) = q PROVE FALSE
  BY Zenon
<1>4. Len(q) = Len(q) - 1
  BY Zenon, <1>1, <1>3
<1> QED
  BY Zenon, <1>1, <1>2, <1>4

\* The operation a thread is at concerns a session or the transmitter.
LEMMA TargetFacts ==
  ASSUME CallTypes, NEW c \in Clients, ops[c] # <<>>
  PROVE  /\ Head(ops[c]) \in Op /\ Tail(ops[c]) \in Seq(Op)
         /\ Head(ops[c])[1] \in {"start", "stop"} => Target(c) \in Sessions
         /\ Head(ops[c])[1] \in {"start", "stop", "transmit", "halt"}
<1>1. ops[c] \in Seq(Op)
  BY Zenon DEF CallTypes
<1>2. Head(ops[c]) \in Op /\ Tail(ops[c]) \in Seq(Op)
  BY <1>1
<1> QED
  BY Zenon, <1>2 DEF Target, Op

\* What a thread that has something to do to sessions holds
LEMMA WorkerHolds ==
  ASSUME CallTypes, HoldersOK, NEW c \in Clients, ops[c] # <<>>
  PROVE  lock = c /\ pc[c] = "ops" /\ \A d \in Clients : d # c => ops[d] = <<>>
<1>1. HolderOK(c)
  BY Zenon DEF HoldersOK
<1>2. lock = c /\ pc[c] = "ops"
  BY Zenon, <1>1 DEF HolderOK, Holding
<1>3. ASSUME NEW d \in Clients, d # c PROVE ops[d] = <<>>
  <2>1. HolderOK(d)
    BY Zenon DEF HoldersOK
  <2> QED
    BY Zenon, <1>2, <1>3, <2>1 DEF HolderOK, Holding
<1> QED
  BY Zenon, <1>2, <1>3

-----------------------------------------------------------------------------
(* What keeps a part of the invariant                                      *)

\* The sessions do not depend on handlers that call none.
LEMMA SessionsFrame ==
  ASSUME SessionsOK, UNCHANGED sessionVars, UNCHANGED <<ops, at, lock>>
  PROVE  SessionsOK'
  BY Zenon DEF SessionsOK, SessionOK, Works, At, Target, sessionVars

\* A handler without the lock goes on without it: TransmitCheck(), the handlers that
\* have a short locked section, and a call that comes in.
LEMMA FreeMove ==
  ASSUME ControlInv, NEW c \in Clients, pc[c] \in Free, NEW l \in Free,
         NEW r \in Rpcs \cup {[name |-> "none"]}, pc' = [pc EXCEPT ![c] = l], rpc' = [rpc EXCEPT ![c] = r],
         UNCHANGED <<sessionVars, callerVars, lock, blob>>
  PROVE  ControlInv'
<1>1. UNCHANGED <<ops, at, lock, blob, spc, got>> /\ UNCHANGED sessionVars
  BY Zenon DEF callerVars, sessionVars
<1>2. ASSUME NEW d \in Clients PROVE HolderOK(d)' /\ BufferOK(d)'
  <2>1. HolderOK(d) /\ BufferOK(d)
    BY Zenon DEF ControlInv, HoldersOK, BuffersOK
  <2>2. CASE d # c
    <3>1. pc'[d] = pc[d] /\ rpc'[d] = rpc[d]
      BY Zenon, <2>2 DEF ControlInv, CallTypes
    <3> QED
      BY Zenon, <1>1, <2>1, <3>1 DEF HolderOK, BufferOK
  <2>3. CASE d = c
    <3>1. pc'[d] = l /\ l \notin Holding /\ pc[d] \notin Holding
      BY Zenon, <2>3, PlaceFacts DEF ControlInv, CallTypes
    <3>2. l # "ops" /\ l # "transmit" /\ l # "blob" /\ pc[d] # "ops"
      BY Zenon, <3>1 DEF Holding
    <3> QED
      BY Zenon, <1>1, <2>1, <3>1, <3>2 DEF HolderOK, BufferOK
  <2> QED
    BY Zenon, <2>2, <2>3
<1>3. SessionsOK'
  BY Zenon, <1>1, SessionsFrame DEF ControlInv
<1>4. SessionTypes' /\ CallTypes'
  BY Zenon, <1>1 DEF ControlInv, SessionTypes, CallTypes, sessionVars
<1> QED
  BY Zenon, <1>2, <1>3, <1>4 DEF ControlInv, HoldersOK, BuffersOK

\* A handler takes the port's lock, or has it, and begins with its calls of threads.
LEMMA BeginMove ==
  ASSUME ControlInv, NEW c \in Clients, NEW todo \in Seq(Op), Begin(c, todo),
         UNCHANGED sessionVars,
         (pc[c] \in Free /\ lock = None) \/ (pc[c] = "transmit" /\ lock = c),
         rpc[c].name = "getCaptureBuffer" => todo = <<<<"stop", "capture">>>>
  PROVE  ControlInv'
<1>1. /\ lock' = c /\ ops' = [ops EXCEPT ![c] = todo] /\ pc' = [pc EXCEPT ![c] = "ops"]
      /\ UNCHANGED <<at, rpc, blob>> /\ UNCHANGED <<state, seen, open, got, spc>>
  BY Zenon DEF Begin, Move, sessionVars
<1>2. /\ ops \in [Clients -> Seq(Op)] /\ pc \in [Clients -> Holding \cup Free]
      /\ lock \in Clients \cup {None}
  BY Zenon DEF ControlInv, CallTypes
<1>3. \A d \in Clients : HolderOK(d) /\ BufferOK(d)
  BY Zenon DEF ControlInv, HoldersOK, BuffersOK
<1>4. ops[c] = <<>> /\ at[c] = "call"
  BY Zenon, <1>3, PlaceFacts DEF HolderOK, Holding
<1>5. ASSUME NEW d \in Clients PROVE HolderOK(d)' /\ BufferOK(d)'
  <2>1. HolderOK(d) /\ BufferOK(d)
    BY Zenon, <1>3
  <2>2. CASE d # c
    <3>1. pc'[d] = pc[d] /\ ops'[d] = ops[d]
      BY Zenon, <1>1, <1>2, <2>2
    <3>2. lock # d
      BY Zenon, <2>2, PlaceFacts
    <3> QED
      BY Zenon, <1>1, <2>1, <2>2, <3>1, <3>2 DEF HolderOK, BufferOK
  <2>3. CASE d = c
    <3>1. pc'[d] = "ops" /\ ops'[d] = todo
      BY Zenon, <1>1, <1>2, <2>3
    <3> QED
      BY Zenon, <1>1, <1>4, <2>3, <3>1 DEF HolderOK, BufferOK, Holding
  <2> QED
    BY Zenon, <2>2, <2>3
<1>6. ASSUME NEW s \in Sessions PROVE SessionOK(s)'
  <2>1. SessionOK(s)
    BY Zenon DEF ControlInv, SessionsOK
  <2>2. ~At(c, "start", "spin") /\ ~At(c, "stop", "halt")
    BY Zenon, <1>4 DEF At
  <2>3. lock \in Clients => lock = c
    BY Zenon, PlaceFacts
  <2>4. spc[s] \notin {"run", "ready"} /\ ~(spc[s] \in {"loop", "post"} /\ seen[s])
    BY Zenon, <2>1, <2>2, <2>3 DEF SessionOK, Works
  <2>5. at'[c] = "call"
    BY Zenon, <1>1, <1>4
  <2>6. ~Works("start", "join", s)' /\ ~Works("stop", "break", s)'
    BY Zenon, <1>1, <2>5 DEF Works, At
  <2> QED
    BY Zenon, <1>1, <2>1, <2>4, <2>6 DEF SessionOK
<1>7. CallTypes'
  BY Zenon, <1>1, <1>2, PlaceFacts DEF ControlInv, CallTypes
<1>8. SessionTypes'
  BY Zenon DEF ControlInv, SessionTypes, sessionVars
<1> QED
  BY Zenon, <1>5, <1>6, <1>7, <1>8 DEF ControlInv, HoldersOK, SessionsOK, BuffersOK

\* The handler, or the thread that has sent the capture file, gives the lock back.
LEMMA ReleaseMove ==
  ASSUME ControlInv, NEW c \in Clients, pc[c] \in {"ops", "blob"}, ops[c] = <<>>,
         lock' = None, pc' = [pc EXCEPT ![c] = "idle"],
         UNCHANGED <<sessionVars, callerVars, rpc, blob>>
  PROVE  ControlInv'
<1>1. /\ UNCHANGED <<ops, at, rpc, blob>> /\ UNCHANGED <<state, seen, open, got, spc>>
  BY Zenon DEF callerVars, sessionVars
<1>2. pc \in [Clients -> Holding \cup Free] /\ \A d \in Clients : HolderOK(d) /\ BufferOK(d)
  BY Zenon DEF ControlInv, CallTypes, HoldersOK, BuffersOK
<1>3. lock = c
  BY Zenon, <1>2 DEF HolderOK, Holding
<1>4. ASSUME NEW d \in Clients PROVE HolderOK(d)' /\ BufferOK(d)'
  <2>1. HolderOK(d) /\ BufferOK(d)
    BY Zenon, <1>2
  <2>2. CASE d # c
    <3>1. pc'[d] = pc[d] /\ lock # d /\ lock' # d
      BY Zenon, <1>2, <1>3, <2>2, PlaceFacts
    <3> QED
      BY Zenon, <1>1, <2>1, <3>1 DEF HolderOK, BufferOK
  <2>3. CASE d = c
    <3>1. pc'[d] = "idle" /\ lock' # d /\ ops[d] = <<>>
      BY Zenon, <1>2, <2>3, PlaceFacts
    <3> QED
      BY Zenon, <1>1, <2>1, <3>1 DEF HolderOK, BufferOK, Holding
  <2> QED
    BY Zenon, <2>2, <2>3
<1>5. ASSUME NEW s \in Sessions PROVE SessionOK(s)'
  <2>1. SessionOK(s)
    BY Zenon DEF ControlInv, SessionsOK
  <2>2. \A op, where : ~Works(op, where, s)
    BY Zenon, <1>3 DEF Works, At
  <2>3. \A op, where : ~Works(op, where, s)'
    BY Zenon, PlaceFacts DEF Works
  <2> QED
    BY Zenon, <1>1, <2>1, <2>2, <2>3 DEF SessionOK
<1>6. SessionTypes' /\ CallTypes'
  BY ZenonT(30), <1>1 DEF ControlInv, SessionTypes, CallTypes, sessionVars, Free
<1> QED
  BY Zenon, <1>4, <1>5, <1>6 DEF ControlInv, HoldersOK, SessionsOK, BuffersOK

\* startTransmit() keeps the lock while it starts the transmitter.
LEMMA KeepMove ==
  ASSUME ControlInv, NEW c \in Clients, pc[c] \in Free, lock = None,
         rpc[c].name = "startTransmit",
         lock' = c, pc' = [pc EXCEPT ![c] = "transmit"],
         UNCHANGED <<sessionVars, callerVars, rpc, blob>>
  PROVE  ControlInv'
<1>1. /\ UNCHANGED <<ops, at, rpc, blob>> /\ UNCHANGED <<state, seen, open, got, spc>>
  BY Zenon DEF callerVars, sessionVars
<1>2. pc \in [Clients -> Holding \cup Free] /\ \A d \in Clients : HolderOK(d) /\ BufferOK(d)
  BY Zenon DEF ControlInv, CallTypes, HoldersOK, BuffersOK
<1>3. ops[c] = <<>> /\ pc[c] # "ops"
  BY Zenon, <1>2, PlaceFacts DEF HolderOK
<1>4. ASSUME NEW d \in Clients PROVE HolderOK(d)' /\ BufferOK(d)'
  <2>1. HolderOK(d) /\ BufferOK(d)
    BY Zenon, <1>2
  <2>2. CASE d # c
    <3>1. pc'[d] = pc[d] /\ lock # d /\ lock' # d
      BY Zenon, <1>2, <2>2, PlaceFacts
    <3> QED
      BY Zenon, <1>1, <2>1, <3>1 DEF HolderOK, BufferOK
  <2>3. CASE d = c
    <3>1. pc'[d] = "transmit" /\ lock' = d
      BY ZenonT(30), <1>2, <2>3
    <3> QED
      BY Zenon, <1>1, <1>3, <2>1, <2>3, <3>1 DEF HolderOK, BufferOK, Holding
  <2> QED
    BY Zenon, <2>2, <2>3
<1>5. ASSUME NEW s \in Sessions PROVE SessionOK(s)'
  <2>1. SessionOK(s)
    BY Zenon DEF ControlInv, SessionsOK
  <2>2. \A op, where : ~Works(op, where, s)
    BY ZenonT(30), PlaceFacts DEF Works
  <2>3. \A op, where : ~Works(op, where, s)'
    BY Zenon, <1>1, <1>3 DEF Works, At
  <2> QED
    BY Zenon, <1>1, <2>1, <2>2, <2>3 DEF SessionOK
<1>6. SessionTypes' /\ CallTypes'
  BY Zenon, <1>1 DEF ControlInv, SessionTypes, CallTypes, sessionVars, Holding
<1> QED
  BY Zenon, <1>4, <1>5, <1>6 DEF ControlInv, HoldersOK, SessionsOK, BuffersOK

\* getCaptureBuffer() keeps the lock for the file, of which it notes the packets.
LEMMA BlobMove ==
  ASSUME ControlInv, NEW c \in Clients, getCaptureBuffer(c)
  PROVE  ControlInv'
<1>1. /\ pc[c] = "ops" /\ ops[c] = <<>> /\ rpc[c].name = "getCaptureBuffer"
      /\ pc' = [pc EXCEPT ![c] = "blob"] /\ blob' = [blob EXCEPT ![c] = got["capture"]]
      /\ UNCHANGED <<ops, at, lock, rpc>> /\ UNCHANGED sessionVars
  BY Zenon DEF getCaptureBuffer, Move, Quiet, callerVars
<1>2. UNCHANGED <<state, stop, seen, open, got, spc>>
  BY Zenon, <1>1 DEF sessionVars
<1>3. /\ pc \in [Clients -> Holding \cup Free] /\ blob \in [Clients -> Nat]
      /\ \A d \in Clients : HolderOK(d) /\ BufferOK(d)
  BY Zenon DEF ControlInv, CallTypes, HoldersOK, BuffersOK
<1>4. lock = c /\ spc["capture"] = "none"
  <2>1. <<<<"stop", "capture">>>> # <<>>
    BY Zenon, OpFacts, PlaceFacts
  <2> QED
    BY ZenonT(30), <1>1, <1>3, <2>1, PlaceFacts DEF HolderOK, BufferOK
<1>5. ASSUME NEW d \in Clients PROVE HolderOK(d)' /\ BufferOK(d)'
  <2>1. HolderOK(d) /\ BufferOK(d)
    BY Zenon, <1>3
  <2>2. CASE d # c
    <3>1. pc'[d] = pc[d] /\ blob'[d] = blob[d]
      BY ZenonT(30), <1>1, <1>3, <2>2
    <3> QED
      BY Zenon, <1>1, <1>2, <2>1, <3>1 DEF HolderOK, BufferOK
  <2>3. CASE d = c
    <3>1. pc'[d] = "blob" /\ blob'[d] = got["capture"]
      BY ZenonT(30), <1>1, <1>3, <2>3
    <3> QED
      BY ZenonT(30), <1>1, <1>2, <1>4, <2>1, <2>3, <3>1 DEF HolderOK, BufferOK, Holding
  <2> QED
    BY Zenon, <2>2, <2>3
<1>6. SessionsOK'
  BY Zenon, <1>1, SessionsFrame DEF ControlInv
<1>7. got["capture"] \in Nat
  BY Zenon, PlaceFacts DEF ControlInv, SessionTypes
<1>8. SessionTypes' /\ CallTypes'
  BY Zenon, <1>1, <1>2, <1>7, PlaceFacts DEF ControlInv, SessionTypes, CallTypes
<1> QED
  BY Zenon, <1>5, <1>6, <1>8 DEF ControlInv, HoldersOK, BuffersOK

-----------------------------------------------------------------------------
(* Calls of sessions                                                       *)

\* A thread goes on within an operation, or to the next one: x is what it has left to
\* do and w where it is then.  Only a session it is at work on may change.
LEMMA CallerMove ==
  ASSUME ControlInv, NEW c \in Clients, ops[c] # <<>>,
         NEW x, NEW w \in Place, ops' = [ops EXCEPT ![c] = x], at' = [at EXCEPT ![c] = w],
         x = ops[c] \/ (x = Tail(ops[c]) /\ w = "call"),
         x # ops[c] /\ ops[c] = <<<<"stop", "capture">>>> => spc'["capture"] = "none",
         UNCHANGED <<lock, pc, rpc, blob>>
  PROVE  /\ CallTypes' /\ HoldersOK' /\ BuffersOK'
         /\ lock = c
         /\ \A op, where, s : Works(op, where, s) <=>
              Head(ops[c])[1] = op /\ at[c] = where /\ Target(c) = s
         /\ \A op, where, s : where # "call" =>
              (Works(op, where, s)' <=> x = ops[c] /\ Head(ops[c])[1] = op /\ w = where
                                        /\ Target(c) = s)
<1>1. /\ ops \in [Clients -> Seq(Op)] /\ at \in [Clients -> Place]
      /\ \A d \in Clients : HolderOK(d) /\ BufferOK(d)
  BY ZenonT(30) DEF ControlInv, CallTypes, HoldersOK, BuffersOK
<1>2. lock = c /\ pc[c] = "ops" /\ \A d \in Clients : d # c => ops[d] = <<>>
  BY Zenon, WorkerHolds DEF ControlInv
<1>3. x \in Seq(Op)
  BY Zenon, <1>1, TargetFacts DEF ControlInv
<1>4. ops'[c] = x /\ at'[c] = w
  BY Zenon, <1>1
<1>5. ASSUME NEW d \in Clients PROVE HolderOK(d)' /\ BufferOK(d)'
  <2>1. HolderOK(d) /\ BufferOK(d)
    BY Zenon, <1>1
  <2>2. CASE d # c
    <3>1. ops'[d] = ops[d] /\ at'[d] = at[d] /\ pc[d] \notin Holding
      BY Zenon, <1>1, <1>2, <2>1, <2>2 DEF HolderOK
    <3> QED
      BY Zenon, <2>1, <3>1 DEF HolderOK, BufferOK, Holding
  <2>3. CASE d = c
    <3>1. HolderOK(d)'
      BY Zenon, <1>2, <1>4, <2>1, <2>3 DEF HolderOK, Holding
    <3>2. BufferOK(d)'
      <4>1. CASE x = ops[c]
        BY Zenon, <1>2, <1>4, <2>1, <2>3, <4>1 DEF BufferOK
      <4>2. CASE x # ops[c]
        <5>1. ops[c] = <<<<"stop", "capture">>>> => x = <<>>
          BY <4>2
        <5> QED
          BY Zenon, <1>2, <1>4, <2>1, <2>3, <4>2, <5>1 DEF BufferOK
      <4> QED
        BY Zenon, <4>1, <4>2
    <3> QED
      BY Zenon, <3>1, <3>2
  <2> QED
    BY Zenon, <2>2, <2>3
<1>6. CallTypes'
  BY Zenon, <1>1, <1>3 DEF ControlInv, CallTypes
<1>7. \A op, where, s : Works(op, where, s) <=>
         Head(ops[c])[1] = op /\ at[c] = where /\ Target(c) = s
  BY Zenon, <1>2 DEF Works, At
<1>8. ASSUME NEW op, NEW where, NEW s, where # "call"
      PROVE  Works(op, where, s)' <=> x = ops[c] /\ Head(ops[c])[1] = op /\ w = where
                                      /\ Target(c) = s
  <2>1. Works(op, where, s)' <=> x # <<>> /\ Head(x)[1] = op /\ w = where /\ Head(x)[2] = s
    BY Zenon, <1>2, <1>4 DEF Works, At, Target
  <2>2. w = where => x = ops[c]
    BY Zenon, <1>8
  <2> QED
    BY Zenon, <2>1, <2>2 DEF Target
<1> QED
  BY Zenon, <1>2, <1>5, <1>6, <1>7, <1>8 DEF HoldersOK, BuffersOK

\* A thread goes on within an operation.
LEMMA GotoMove ==
  ASSUME ControlInv, NEW c \in Clients, ops[c] # <<>>, NEW w \in Place, Goto(c, w),
         UNCHANGED <<lock, pc, rpc, blob>>
  PROVE  /\ CallTypes' /\ HoldersOK' /\ BuffersOK'
         /\ \A op, where, s : Works(op, where, s) <=>
              Head(ops[c])[1] = op /\ at[c] = where /\ Target(c) = s
         /\ \A op, where, s : where # "call" =>
              (Works(op, where, s)' <=> Head(ops[c])[1] = op /\ w = where /\ Target(c) = s)
<1>1. ASSUME NEW x, ops' = [ops EXCEPT ![c] = x], at' = [at EXCEPT ![c] = w],
             x = ops[c] \/ (x = Tail(ops[c]) /\ w = "call"),
             x # ops[c] /\ ops[c] = <<<<"stop", "capture">>>> => spc'["capture"] = "none"
      PROVE  /\ CallTypes' /\ HoldersOK' /\ BuffersOK'
             /\ \A op, where, s : Works(op, where, s) <=>
                  Head(ops[c])[1] = op /\ at[c] = where /\ Target(c) = s
             /\ \A op, where, s : where # "call" =>
                  (Works(op, where, s)' <=> x = ops[c] /\ Head(ops[c])[1] = op /\ w = where
                                            /\ Target(c) = s)
  BY ZenonT(30), <1>1, CallerMove
<1>2. ops' = [ops EXCEPT ![c] = ops[c]] /\ at' = [at EXCEPT ![c] = w]
  BY Zenon DEF Goto, ControlInv, CallTypes
<1> QED
  BY ZenonT(30), <1>1, <1>2

\* A thread goes on to the next operation.
LEMMA DoneMove ==
  ASSUME ControlInv, NEW c \in Clients, ops[c] # <<>>, Done(c),
         ops[c] = <<<<"stop", "capture">>>> => spc'["capture"] = "none",
         UNCHANGED <<lock, pc, rpc, blob>>
  PROVE  /\ CallTypes' /\ HoldersOK' /\ BuffersOK'
         /\ \A op, where, s : Works(op, where, s) <=>
              Head(ops[c])[1] = op /\ at[c] = where /\ Target(c) = s
         /\ \A op, where, s : where # "call" => ~Works(op, where, s)'
<1> DEFINE x == Tail(ops[c])
           w == "call"
<1>1. /\ x = Tail(ops[c]) /\ ops' = [ops EXCEPT ![c] = x] /\ at' = [at EXCEPT ![c] = w]
      /\ w \in Place /\ w = "call"
  BY Zenon, PlaceFacts DEF Done
<1>2. ops[c] \in Seq(Op)
  BY Zenon DEF ControlInv, CallTypes
<1>3. x # ops[c]
  BY Zenon, <1>2, TailDiffers
<1> HIDE DEF x, w
<1> QED
  BY ZenonT(30), <1>1, <1>3, CallerMove

\* What a step of a caller leaves to prove: its own session.
LEMMA CallerRest ==
  ASSUME ControlInv, CallTypes', HoldersOK', BuffersOK', SessionTypes', NEW s \in Sessions,
         \A op, where, t : Works(op, where, t) => t = s,
         \A op, where, t : where # "call" /\ Works(op, where, t)' => t = s,
         \A t \in Sessions : t # s => /\ state'[t] = state[t] /\ open'[t] = open[t]
                                      /\ spc'[t] = spc[t] /\ seen'[t] = seen[t],
         SessionOK(s)'
  PROVE  ControlInv'
<1>1. ASSUME NEW t \in Sessions, t # s PROVE SessionOK(t)'
  <2>1. SessionOK(t)
    BY Zenon DEF ControlInv, SessionsOK
  <2>2. /\ ~Works("start", "spin", t) /\ ~Works("stop", "halt", t)
        /\ ~Works("start", "join", t)' /\ ~Works("stop", "break", t)'
    BY Zenon, <1>1
  <2> QED
    BY Zenon, <1>1, <2>1, <2>2 DEF SessionOK
<1> QED
  BY ZenonT(30), <1>1 DEF ControlInv, SessionsOK

\* start()
LEMMA StartKeeps ==
  ASSUME ControlInv, NEW c \in Clients, StartCall(c) \/ StartJoin(c) \/ StartSpin(c),
         UNCHANGED <<lock, pc, rpc, blob>>
  PROVE  ControlInv'
<1>1. ops[c] # <<>> /\ Head(ops[c])[1] = "start"
  BY Zenon DEF StartCall, StartJoin, StartSpin, At
<1>2. PICK s \in Sessions : s = Target(c)
  BY Zenon, <1>1, TargetFacts DEF ControlInv
<1>3. SessionTypes /\ SessionOK(s)
  BY Zenon, <1>2 DEF ControlInv, SessionsOK
<1>4. ops[c] # <<<<"stop", "capture">>>>
  BY <1>1
<1>5. CASE StartCall(c)
  <2>1. at[c] = "call" /\ UNCHANGED <<stop, seen, open, got, spc>>
    BY Zenon, <1>5 DEF StartCall, At
  <2>2. CASE state[s] = "kRunning" /\ Done(c) /\ UNCHANGED state
    <3>1. /\ CallTypes' /\ HoldersOK' /\ BuffersOK'
          /\ \A op, where, t : Works(op, where, t) => at[c] = where /\ Target(c) = t
          /\ \A op, where, t : where # "call" => ~Works(op, where, t)'
      BY ZenonT(30), <1>1, <1>4, <2>2, DoneMove
    <3>2. SessionOK(s)'
      <4>1. /\ ~Works("start", "spin", s) /\ ~Works("stop", "halt", s)
            /\ ~Works("start", "join", s)' /\ ~Works("stop", "break", s)'
        BY SMTT(30), <2>1, <3>1
      <4> QED
        BY Zenon, <1>3, <2>1, <2>2, <4>1 DEF SessionOK
    <3>3. SessionTypes'
      BY Zenon, <1>3, <2>1, <2>2 DEF SessionTypes
    <3> QED
      BY ZenonT(30), <1>2, <2>1, <2>2, <3>1, <3>2, <3>3, CallerRest
  <2>3. CASE /\ state[s] # "kRunning" /\ state' = [state EXCEPT ![s] = "kNotStarted"]
             /\ Goto(c, "join")
    <3>1. /\ CallTypes' /\ HoldersOK' /\ BuffersOK'
          /\ \A op, where, t : Works(op, where, t) => at[c] = where /\ Target(c) = t
          /\ \A op, where, t : where # "call" =>
               (Works(op, where, t)' => op = "start" /\ where = "join" /\ Target(c) = t)
      <4>1. "join" \in Place
        BY Zenon, PlaceFacts
      <4> QED
        BY SMTT(30), <1>1, <2>3, <4>1, GotoMove
    <3>2. state'[s] = "kNotStarted" /\ \A t \in Sessions : t # s => state'[t] = state[t]
      BY Zenon, <1>3, <2>3 DEF SessionTypes
    <3>3. SessionOK(s)'
      <4>1. ~Works("start", "spin", s) /\ ~Works("stop", "halt", s)
        BY <2>1, <3>1
      <4>2. ~Works("stop", "break", s)'
        BY <3>1
      <4> QED
        BY ZenonT(30), <1>3, <2>1, <2>3, <3>2, <4>1, <4>2 DEF SessionOK
    <3>4. SessionTypes'
      BY ZenonT(30), <1>3, <2>1, <2>3 DEF SessionTypes
    <3> QED
      BY ZenonT(30), <1>2, <2>1, <3>1, <3>2, <3>3, <3>4, CallerRest
  <2> QED
    BY ZenonT(30), <1>2, <1>5, <2>2, <2>3 DEF StartCall
<1>6. CASE StartJoin(c)
  <2>1. /\ at[c] = "join" /\ Joinable(spc[s]) /\ UNCHANGED <<state, stop, seen, open, got>>
        /\ spc' = [spc EXCEPT ![s] = "run"] /\ Goto(c, "spin")
    BY ZenonT(30), <1>2, <1>6 DEF StartJoin, At
  <2>2. /\ CallTypes' /\ HoldersOK' /\ BuffersOK'
        /\ \A op, where, t : Works(op, where, t) <=>
             op = "start" /\ where = "join" /\ Target(c) = t
        /\ \A op, where, t : where # "call" =>
             (Works(op, where, t)' <=> op = "start" /\ where = "spin" /\ Target(c) = t)
    <3>1. "spin" \in Place
      BY Zenon, PlaceFacts
    <3> QED
      BY SMTT(30), <1>1, <2>1, <3>1, GotoMove
  <2>3. spc'[s] = "run" /\ \A t \in Sessions : t # s => spc'[t] = spc[t]
    BY Zenon, <1>3, <2>1 DEF SessionTypes
  <2>4. SessionOK(s)'
    <3>1. Works("start", "join", s) /\ Works("start", "spin", s)'
      BY Zenon, <1>2, <2>2
    <3>2. ~Works("start", "join", s)' /\ ~Works("stop", "break", s)'
      BY <2>2
    <3> QED
      BY Zenon, <1>3, <2>1, <2>3, <3>1, <3>2 DEF SessionOK
  <2>5. SessionTypes'
    BY Zenon, <1>3, <2>1 DEF SessionTypes
  <2> QED
    BY Zenon, <1>2, <2>1, <2>2, <2>3, <2>4, <2>5, CallerRest
<1>7. CASE StartSpin(c)
  <2>1. /\ at[c] = "spin" /\ state[s] # "kNotStarted" /\ Done(c)
        /\ UNCHANGED <<state, stop, seen, open, got, spc>>
    BY Zenon, <1>2, <1>7 DEF StartSpin, At, sessionVars
  <2>2. /\ CallTypes' /\ HoldersOK' /\ BuffersOK'
        /\ \A op, where, t : Works(op, where, t) =>
             op = "start" /\ where = "spin" /\ Target(c) = t
        /\ \A op, where, t : where # "call" => ~Works(op, where, t)'
    BY ZenonT(30), <1>1, <1>4, <2>1, DoneMove
  <2>3. SessionOK(s)'
    BY Zenon, <1>3, <2>1, <2>2 DEF SessionOK
  <2>4. SessionTypes'
    BY Zenon, <1>3, <2>1 DEF SessionTypes
  <2> QED
    BY ZenonT(30), <1>2, <2>1, <2>2, <2>3, <2>4, CallerRest
<1> QED
  BY Zenon, <1>5, <1>6, <1>7

\* stop()
LEMMA StopKeeps ==
  ASSUME ControlInv, NEW c \in Clients,
         StopCall(c) \/ StopBreak(c) \/ StopHalt(c) \/ StopWait(c),
         UNCHANGED <<lock, pc, rpc, blob>>
  PROVE  ControlInv'
<1>1. ops[c] # <<>> /\ Head(ops[c])[1] = "stop"
  BY Zenon DEF StopCall, StopBreak, StopHalt, StopWait, At
<1>2. PICK s \in Sessions : s = Target(c)
  BY Zenon, <1>1, TargetFacts DEF ControlInv
<1>3. SessionTypes /\ SessionOK(s)
  BY ZenonT(30), <1>2 DEF ControlInv, SessionsOK
<1>4. ASSUME NEW w \in Place, Goto(c, w)
      PROVE  /\ CallTypes' /\ HoldersOK' /\ BuffersOK'
             /\ \A op, where, t : Works(op, where, t) <=>
                  op = "stop" /\ where = at[c] /\ t = s
             /\ \A op, where, t : where # "call" =>
                  (Works(op, where, t)' <=> op = "stop" /\ where = w /\ t = s)
  BY <1>1, <1>2, <1>4, GotoMove
<1>5. CASE StopCall(c)
  <2>1. at[c] = "call" /\ UNCHANGED <<state, seen, open, got, spc>>
    BY ZenonT(30), <1>5 DEF StopCall, At
  <2>2. SessionTypes'
    BY ZenonT(30), <1>2, <1>3, <1>5, <2>1 DEF StopCall, SessionTypes
  <2>3. CASE state[s] = "kRunning" /\ Goto(c, "break")
    <3>1. /\ CallTypes' /\ HoldersOK' /\ BuffersOK'
          /\ \A op, where, t : Works(op, where, t) => where = "call" /\ t = s
          /\ \A op, where, t : where # "call" =>
               (Works(op, where, t)' => op = "stop" /\ where = "break" /\ t = s)
      BY ZenonT(30), <1>4, <2>1, <2>3, PlaceFacts
    <3>2. SessionOK(s)'
      <4>1. /\ ~Works("start", "spin", s) /\ ~Works("stop", "halt", s)
            /\ ~Works("start", "join", s)'
        BY SMTT(30), <2>1, <3>1
      <4> QED
        BY Zenon, <1>3, <2>1, <2>3, <4>1 DEF SessionOK
    <3> QED
      BY ZenonT(30), <2>1, <2>2, <3>1, <3>2, CallerRest
  <2>4. CASE state[s] # "kRunning" /\ Goto(c, "wait")
    <3>1. /\ CallTypes' /\ HoldersOK' /\ BuffersOK'
          /\ \A op, where, t : Works(op, where, t) => where = "call" /\ t = s
          /\ \A op, where, t : where # "call" =>
               (Works(op, where, t)' => op = "stop" /\ where = "wait" /\ t = s)
      <4>1. "wait" \in Place
        BY Zenon, PlaceFacts
      <4> QED
        BY SMTT(30), <1>4, <2>1, <2>4, <4>1
    <3>2. SessionOK(s)'
      <4>1. /\ ~Works("start", "spin", s) /\ ~Works("stop", "halt", s)
            /\ ~Works("start", "join", s)' /\ ~Works("stop", "break", s)'
        BY SMTT(30), <2>1, <3>1
      <4> QED
        BY Zenon, <1>3, <2>1, <2>4, <4>1 DEF SessionOK
    <3> QED
      BY Zenon, <2>1, <2>2, <3>1, <3>2, CallerRest
  <2> QED
    BY Zenon, <1>2, <1>5, <2>3, <2>4 DEF StopCall
<1>6. CASE StopBreak(c)
  <2>1. /\ at[c] = "break" /\ UNCHANGED <<state, stop, open, got, spc>>
        /\ seen' = [seen EXCEPT ![s] = TRUE] /\ Goto(c, "halt")
    BY Zenon, <1>2, <1>6 DEF StopBreak, At
  <2>2. \A t \in Sessions : t # s => seen'[t] = seen[t]
    BY Zenon, <1>3, <2>1 DEF SessionTypes
  <2>3. /\ CallTypes' /\ HoldersOK' /\ BuffersOK'
        /\ \A op, where, t : Works(op, where, t) <=> op = "stop" /\ where = "break" /\ t = s
        /\ \A op, where, t : where # "call" =>
             (Works(op, where, t)' <=> op = "stop" /\ where = "halt" /\ t = s)
    BY SMTT(30), <1>4, <2>1, PlaceFacts
  <2>4. SessionOK(s)'
    <3>1. Works("stop", "break", s) /\ Works("stop", "halt", s)'
      BY Zenon, <2>3
    <3>2. ~Works("start", "join", s)' /\ ~Works("stop", "break", s)'
      BY <2>3
    <3> QED
      BY Zenon, <1>3, <2>1, <3>1, <3>2 DEF SessionOK
  <2>5. SessionTypes'
    BY Zenon, <1>3, <2>1 DEF SessionTypes
  <2> QED
    BY ZenonT(30), <2>1, <2>2, <2>3, <2>4, <2>5, CallerRest
<1>7. CASE StopHalt(c)
  <2>1. /\ at[c] = "halt" /\ UNCHANGED <<state, stop, seen, open, got, spc>>
        /\ state[s] # "kRunning" /\ Goto(c, "wait")
    BY Zenon, <1>2, <1>7 DEF StopHalt, At, sessionVars
  <2>2. /\ CallTypes' /\ HoldersOK' /\ BuffersOK'
        /\ \A op, where, t : Works(op, where, t) => where = "halt" /\ t = s
        /\ \A op, where, t : where # "call" =>
             (Works(op, where, t)' => op = "stop" /\ where = "wait" /\ t = s)
    <3>1. "wait" \in Place
      BY Zenon, PlaceFacts
    <3> QED
      BY SMTT(30), <1>4, <2>1, <3>1
  <2>3. SessionOK(s)'
    <3>1. /\ ~Works("start", "spin", s)
          /\ ~Works("start", "join", s)' /\ ~Works("stop", "break", s)'
      BY <2>2
    <3> QED
      BY Zenon, <1>3, <2>1, <3>1 DEF SessionOK
  <2>4. SessionTypes'
    BY Zenon, <1>3, <2>1 DEF SessionTypes
  <2> QED
    BY ZenonT(30), <2>1, <2>2, <2>3, <2>4, CallerRest
<1>8. CASE StopWait(c)
  <2>1. /\ at[c] = "wait" /\ UNCHANGED <<state, stop, seen, open, got>> /\ Done(c)
        /\ Joinable(spc[s]) /\ spc' = [spc EXCEPT ![s] = "none"]
    BY Zenon, <1>2, <1>8 DEF StopWait, At
  <2>2. spc'[s] = "none" /\ \A t \in Sessions : t # s => spc'[t] = spc[t]
    BY Zenon, <1>3, <2>1 DEF SessionTypes
  <2>3. ops[c] = <<<<"stop", "capture">>>> => s = "capture"
    BY SMTT(30), <1>2 DEF Target
  <2>4. /\ CallTypes' /\ HoldersOK' /\ BuffersOK'
        /\ \A op, where, t : Works(op, where, t) => where = "wait" /\ t = s
        /\ \A op, where, t : where # "call" => ~Works(op, where, t)'
    BY ZenonT(30), <1>1, <1>2, <2>1, <2>2, <2>3, DoneMove
  <2>5. SessionOK(s)'
    BY Zenon, <1>3, <2>1, <2>2, <2>4 DEF SessionOK, Joinable
  <2>6. SessionTypes'
    BY Zenon, <1>3, <2>1 DEF SessionTypes
  <2> QED
    BY Zenon, <2>1, <2>2, <2>4, <2>5, <2>6, CallerRest
<1> QED
  BY ZenonT(30), <1>5, <1>6, <1>7, <1>8


\* The calls of the transmitter leave the sessions alone.
LEMMA TransmitterKeeps ==
  ASSUME ControlInv, NEW c \in Clients, TransmitterCall(c)
  PROVE  ControlInv'
<1>1. /\ UNCHANGED <<lock, pc, rpc, blob>> /\ UNCHANGED sessionVars
      /\ ops[c] # <<>> /\ Head(ops[c])[1] \in {"transmit", "halt"}
      /\ \/ UNCHANGED <<ops, at>>
         \/ \E w \in Place : Goto(c, w)
         \/ Done(c)
  BY ZenonT(30) DEF TransmitterCall, PollStart, PollSpin, TransmitCall, TransmitJoin, TransmitSpin, HaltCall,
         HaltSpin, HaltJoin, PollHalt, PollJoin, At, rpcVars, callerVars, Place
<1>2. UNCHANGED <<state, stop, seen, open, got, spc>>
  BY Zenon, <1>1 DEF sessionVars
<1>3. SessionTypes'
  BY ZenonT(30), <1>2 DEF ControlInv, SessionTypes
<1>4. CASE UNCHANGED <<ops, at>>
  BY Zenon, <1>1, <1>2, <1>3, <1>4, SessionsFrame
     DEF ControlInv, CallTypes, HoldersOK, HolderOK, BuffersOK, BufferOK
<1>5. ASSUME NEW x, NEW w \in Place, ops' = [ops EXCEPT ![c] = x], at' = [at EXCEPT ![c] = w],
             x = ops[c] \/ (x = Tail(ops[c]) /\ w = "call")
      PROVE  ControlInv'
  <2>1. ops[c] # <<<<"stop", "capture">>>>
    <3>1. Head(<<<<"stop", "capture">>>>)[1] = "stop"
      BY SMTT(30)
    <3> QED
      BY Zenon, <1>1, <3>1
  <2>2. /\ CallTypes' /\ HoldersOK' /\ BuffersOK'
        /\ \A op, where, t : Works(op, where, t) <=>
             Head(ops[c])[1] = op /\ at[c] = where /\ Target(c) = t
        /\ \A op, where, t : where # "call" =>
             (Works(op, where, t)' <=> x = ops[c] /\ Head(ops[c])[1] = op /\ w = where
                                       /\ Target(c) = t)
    BY ZenonT(30), <1>1, <1>5, <2>1, CallerMove
  <2>3. ASSUME NEW t \in Sessions PROVE SessionOK(t)'
    <3>1. SessionOK(t)
      BY Zenon DEF ControlInv, SessionsOK
    <3>2. /\ ~Works("start", "spin", t) /\ ~Works("stop", "halt", t)
          /\ ~Works("start", "join", t)' /\ ~Works("stop", "break", t)'
      <4>1. Head(ops[c])[1] # "start" /\ Head(ops[c])[1] # "stop"
        BY Zenon, <1>1
      <4> QED BY Zenon, <2>2, <4>1
    <3> QED
      BY Zenon, <1>2, <3>1, <3>2 DEF SessionOK
  <2> QED
    BY ZenonT(30), <1>3, <2>2, <2>3 DEF ControlInv, SessionsOK
<1>6. CASE \E w \in Place : Goto(c, w)
  <2>1. PICK w \in Place : Goto(c, w)
    BY Zenon, <1>6
  <2>2. ops' = [ops EXCEPT ![c] = ops[c]] /\ at' = [at EXCEPT ![c] = w]
    BY Zenon, <2>1 DEF Goto, ControlInv, CallTypes
  <2> QED
    BY Zenon, <1>5, <2>2
<1>7. CASE Done(c)
  <2>1. /\ ops' = [ops EXCEPT ![c] = Tail(ops[c])] /\ at' = [at EXCEPT ![c] = "call"]
        /\ "call" \in Place
    BY ZenonT(30), <1>7 DEF Done, Place
  <2> QED
    BY ZenonT(30), <1>5, <2>1
<1> QED
  BY Zenon, <1>1, <1>4, <1>6, <1>7

-----------------------------------------------------------------------------
(* The threads of the sessions                                             *)

\* A session's thread changes its own session only, and not one that was joined.
LEMMA ThreadMove ==
  ASSUME ControlInv, NEW s \in Sessions, spc[s] # "none", SessionTypes',
         \A t \in Sessions : t # s => /\ state'[t] = state[t] /\ open'[t] = open[t]
                                      /\ spc'[t] = spc[t] /\ seen'[t] = seen[t]
                                      /\ got'[t] = got[t],
         UNCHANGED <<callerVars, lock, pc, rpc, blob>>,
         (\A op, where, t : Works(op, where, t)' <=> Works(op, where, t)) => SessionOK(s)'
  PROVE  ControlInv'
<1>1. UNCHANGED <<ops, at, lock, pc, rpc, blob>>
  BY ZenonT(30) DEF callerVars
<1>2. \A op, where, t : Works(op, where, t)' <=> Works(op, where, t)
  BY ZenonT(30), <1>1 DEF Works, At, Target
<1>3. CallTypes' /\ HoldersOK'
  BY ZenonT(30), <1>1 DEF ControlInv, CallTypes, HoldersOK, HolderOK
<1>4. spc["capture"] = "none" => spc'["capture"] = "none" /\ got'["capture"] = got["capture"]
  BY ZenonT(30), PlaceFacts
<1>5. BuffersOK'
  BY Zenon, <1>1, <1>4 DEF ControlInv, BuffersOK, BufferOK
<1>6. ASSUME NEW t \in Sessions, t # s PROVE SessionOK(t)'
  <2>1. SessionOK(t)
    BY ZenonT(30) DEF ControlInv, SessionsOK
  <2> QED
    BY ZenonT(30), <1>2, <1>6, <2>1 DEF SessionOK
<1> QED
  BY ZenonT(30), <1>2, <1>3, <1>5, <1>6 DEF ControlInv, SessionsOK

\* run()
LEMMA RunKeeps ==
  ASSUME ControlInv, NEW s \in Sessions, SessionThread(s) \/ SessionFault(s)
  PROVE  ControlInv'
<1>1. UNCHANGED <<callerVars, lock, pc, rpc, blob>>
  BY Zenon DEF SessionThread, SessionFault, rpcVars
<1>2. SessionTypes /\ SessionOK(s)
  BY Zenon DEF ControlInv, SessionsOK
<1> USE DEF Thread
<1>3. CASE RunOpen(s)
  <2>1. /\ spc[s] = "run" /\ spc' = [spc EXCEPT ![s] = "ready"]
        /\ open' = [open EXCEPT ![s] = TRUE] /\ got' = [got EXCEPT ![s] = 0]
        /\ UNCHANGED <<state, stop, seen>>
    BY Zenon, <1>3 DEF RunOpen
  <2>2. SessionTypes' /\ spc'[s] = "ready" /\ open'[s]
    BY ZenonT(30), <1>2, <2>1 DEF SessionTypes
  <2>3. (\A op, where, t : Works(op, where, t)' <=> Works(op, where, t)) => SessionOK(s)'
    BY Zenon, <1>2, <2>1, <2>2 DEF SessionOK
  <2>4. \A t \in Sessions : t # s => /\ spc'[t] = spc[t] /\ open'[t] = open[t]
                                     /\ got'[t] = got[t]
    BY Zenon, <1>2, <2>1 DEF SessionTypes
  <2> QED
    BY ZenonT(30), <1>1, <2>1, <2>2, <2>3, <2>4, ThreadMove
<1>4. CASE RunFails(s)
  <2>1. /\ spc[s] = "run" /\ spc' = [spc EXCEPT ![s] = "done"]
        /\ open' = [open EXCEPT ![s] = open[s] \/ s = "capture"]
        /\ state' = [state EXCEPT ![s] = "kFinished"]
        /\ UNCHANGED <<stop, seen, got>>
    BY Zenon, <1>4 DEF RunFails
  <2>2. SessionTypes' /\ spc'[s] = "done" /\ state'[s] = "kFinished"
    BY ZenonT(30), <1>2, <2>1 DEF SessionTypes
  <2>3. (\A op, where, t : Works(op, where, t)' <=> Works(op, where, t)) => SessionOK(s)'
    <3>1. Works("start", "spin", s)
      BY Zenon, <1>2, <2>1 DEF SessionOK
    <3>2. ~Works("start", "join", s) /\ ~Works("stop", "break", s)
      BY Zenon, <3>1 DEF Works, At
    <3> QED
      BY Zenon, <2>2, <3>2 DEF SessionOK
  <2>4. \A t \in Sessions : t # s => /\ spc'[t] = spc[t] /\ open'[t] = open[t]
                                     /\ state'[t] = state[t]
    BY Zenon, <1>2, <2>1 DEF SessionTypes
  <2> QED
    BY Zenon, <1>1, <2>1, <2>2, <2>3, <2>4, ThreadMove
<1>5. CASE RunReady(s)
  <2>1. /\ spc[s] = "ready" /\ spc' = [spc EXCEPT ![s] = "loop"]
        /\ seen' = [seen EXCEPT ![s] = FALSE]
        /\ state' = [state EXCEPT ![s] = "kRunning"]
        /\ UNCHANGED <<stop, open, got>>
    BY Zenon, <1>5 DEF RunReady
  <2>2. SessionTypes' /\ spc'[s] = "loop" /\ state'[s] = "kRunning" /\ ~seen'[s]
    BY ZenonT(30), <1>2, <2>1 DEF SessionTypes
  <2>3. (\A op, where, t : Works(op, where, t)' <=> Works(op, where, t)) => SessionOK(s)'
    <3>1. Works("start", "spin", s) /\ open[s]
      BY Zenon, <1>2, <2>1 DEF SessionOK
    <3>2. ~Works("start", "join", s) /\ ~Works("stop", "break", s)
      BY Zenon, <3>1 DEF Works, At
    <3> QED
      BY Zenon, <2>1, <2>2, <3>1, <3>2 DEF SessionOK
  <2>4. \A t \in Sessions : t # s => /\ spc'[t] = spc[t] /\ seen'[t] = seen[t]
                                     /\ state'[t] = state[t]
    BY ZenonT(30), <1>2, <2>1 DEF SessionTypes
  <2> QED
    BY Zenon, <1>1, <2>1, <2>2, <2>3, <2>4, ThreadMove
<1>6. CASE RunPacket(s) \/ RunStopped(s) \/ RunOdd(s)
  <2>1. /\ spc[s] = "loop"
        /\ \E l \in {"loop", "post"} : spc' = [spc EXCEPT ![s] = l]
        /\ got' = got \/ got' = [got EXCEPT ![s] = got[s] + 1]
        /\ stop' = stop \/ stop' = [stop EXCEPT ![s] = TRUE]
        /\ UNCHANGED <<state, seen, open>>
    BY Zenon, <1>6 DEF RunPacket, RunStopped, RunOdd
  <2>2. SessionTypes' /\ spc'[s] \in {"loop", "post"}
    <3>1. got' \in [Sessions -> Nat]
      <4>1. got[s] + 1 \in Nat
        BY <1>2 DEF SessionTypes
      <4> QED
        BY Zenon, <1>2, <2>1, <4>1 DEF SessionTypes
    <3>2. stop' \in [Sessions -> BOOLEAN]
      BY Zenon, <1>2, <2>1 DEF SessionTypes
    <3>3. PICK l \in {"loop", "post"} : spc' = [spc EXCEPT ![s] = l]
      BY ZenonT(30), <2>1
    <3>4. /\ spc' \in [Sessions -> {"none", "run", "ready", "loop", "post", "done"}]
          /\ spc'[s] \in {"loop", "post"}
      BY Zenon, <1>2, <3>3 DEF SessionTypes
    <3> QED
      BY Zenon, <1>2, <2>1, <3>1, <3>2, <3>4 DEF SessionTypes
  <2>3. (\A op, where, t : Works(op, where, t)' <=> Works(op, where, t)) => SessionOK(s)'
    BY ZenonT(30), <1>2, <2>1, <2>2 DEF SessionOK
  <2>4. \A t \in Sessions : t # s => spc'[t] = spc[t] /\ got'[t] = got[t]
    BY Zenon, <1>2, <2>1 DEF SessionTypes
  <2> QED
    BY Zenon, <1>1, <2>1, <2>2, <2>3, <2>4, ThreadMove
<1>7. CASE RunEnd(s)
  <2>1. /\ spc[s] = "post" /\ seen[s] /\ spc' = [spc EXCEPT ![s] = "done"]
        /\ open' = [open EXCEPT ![s] = FALSE] /\ stop' = [stop EXCEPT ![s] = FALSE]
        /\ state' = [state EXCEPT ![s] = "kFinished"]
        /\ UNCHANGED <<seen, got>>
    BY Zenon, <1>7 DEF RunEnd
  <2>2. SessionTypes' /\ spc'[s] = "done" /\ state'[s] = "kFinished"
    BY Zenon, <1>2, <2>1 DEF SessionTypes
  <2>3. (\A op, where, t : Works(op, where, t)' <=> Works(op, where, t)) => SessionOK(s)'
    <3>1. Works("stop", "halt", s)
      BY ZenonT(30), <1>2, <2>1 DEF SessionOK
    <3>2. ~Works("start", "join", s) /\ ~Works("stop", "break", s)
      BY Zenon, <3>1 DEF Works, At
    <3> QED
      BY Zenon, <2>2, <3>2 DEF SessionOK
  <2>4. \A t \in Sessions : t # s => /\ spc'[t] = spc[t] /\ open'[t] = open[t]
                                     /\ state'[t] = state[t]
    BY Zenon, <1>2, <2>1 DEF SessionTypes
  <2> QED
    BY ZenonT(30), <1>1, <2>1, <2>2, <2>3, <2>4, ThreadMove
<1> QED
  BY Zenon, <1>3, <1>4, <1>5, <1>6, <1>7 DEF SessionThread, SessionFault

-----------------------------------------------------------------------------
(* The handlers                                                            *)

\* A handler that has only a short locked section, or none
LEMMA ShortHandlerKeeps ==
  ASSUME ControlInv, NEW c \in Clients,
         \/ \E r \in Rpcs : Call(c, r)
         \/ TransmitCheck(c) \/ canModify(c) \/ editStreams(c) \/ build(c)
         \/ startTransmitClear(c) \/ getStreamStats(c) \/ clearStreamStats(c)
         \/ \E name : Reads(c, name)
         \/ \E name : NeighborsChange(c, name)
  PROVE  ControlInv'
<1>1. CASE \E r \in Rpcs : Call(c, r)
  <2>1. PICK r \in Rpcs : Call(c, r)
    BY Zenon, <1>1
  <2>2. /\ pc[c] \in Free /\ Entry(r) \in Free
        /\ pc' = [pc EXCEPT ![c] = Entry(r)] /\ rpc' = [rpc EXCEPT ![c] = r]
        /\ UNCHANGED <<sessionVars, callerVars, lock, blob>>
    BY Zenon, <2>1 DEF Call, Move, Entry, Free, Quiet
  <2> QED
    BY Zenon, <2>2, FreeMove
<1>2. CASE ~\E r \in Rpcs : Call(c, r)
  <2>1. /\ pc[c] \in Free
        /\ \E l \in Free : pc' = [pc EXCEPT ![c] = l]
        /\ UNCHANGED <<sessionVars, callerVars, lock, blob, rpc>>
    BY Zenon, <1>2 DEF TransmitCheck, canModify, editStreams, build, startTransmitClear, getStreamStats,
                clearStreamStats, Reads, NeighborsChange, Section, Move, Quiet, Free
  <2>2. rpc[c] \in Rpcs \cup {[name |-> "none"]} /\ rpc' = [rpc EXCEPT ![c] = rpc[c]]
    BY Zenon, <2>1 DEF ControlInv, CallTypes
  <2> QED
    BY ZenonT(30), <2>1, <2>2, FreeMove
<1> QED
  BY Zenon, <1>1, <1>2

\* A handler that calls threads with the lock held, and what follows the calls
LEMMA LongHandlerKeeps ==
  ASSUME ControlInv, NEW c \in Clients,
         \/ modifyPort(c) \/ startTransmit(c) \/ startTransmitter(c) \/ stopTransmit(c)
         \/ startCapture(c) \/ stopCapture(c) \/ addDeviceGroup(c) \/ deleteDeviceGroup(c)
         \/ getCaptureBuffer(c) \/ Unlock(c) \/ finishBinaryBlob(c)
  PROVE  ControlInv'
<1>1. CASE startTransmit(c)
  <2>1. /\ pc[c] \in Free /\ lock = None /\ rpc[c].name = "startTransmit"
        /\ lock' = c /\ pc' = [pc EXCEPT ![c] = "transmit"]
        /\ UNCHANGED <<sessionVars, callerVars, rpc, blob>>
    BY Zenon, <1>1 DEF startTransmit, Section, Move, Free
  <2> QED
    BY ZenonT(30), <2>1, KeepMove
<1>2. CASE getCaptureBuffer(c)
  BY Zenon, <1>2, BlobMove
<1>3. CASE Unlock(c) \/ finishBinaryBlob(c)
  <2>1. /\ pc[c] \in {"ops", "blob"} /\ lock' = None /\ pc' = [pc EXCEPT ![c] = "idle"]
        /\ UNCHANGED <<sessionVars, callerVars, rpc, blob>>
        /\ pc[c] = "ops" => ops[c] = <<>>
    BY Zenon, <1>3 DEF Unlock, finishBinaryBlob, Move, Quiet
  <2>2. HolderOK(c)
    BY Zenon DEF ControlInv, HoldersOK
  <2>3. ops[c] = <<>>
    BY ZenonT(30), <2>1, <2>2 DEF HolderOK
  <2> QED
    BY Zenon, <2>1, <2>3, ReleaseMove
<1>4. CASE startTransmitter(c)
  <2>1. pc[c] = "transmit" /\ UNCHANGED sessionVars
    BY Zenon, <1>4 DEF startTransmitter
  <2>2. HolderOK(c)
    BY Zenon DEF ControlInv, HoldersOK
  <2>3. lock = c /\ rpc[c].name # "getCaptureBuffer"
    BY ZenonT(30), <2>1, <2>2 DEF HolderOK, Holding
  <2>4. CASE Begin(c, <<<<"transmit", "tx">>>>)
    <3>1. <<<<"transmit", "tx">>>> \in Seq(Op)
      BY Zenon, OpFacts
    <3> QED
      BY Zenon, <2>1, <2>3, <2>4, <3>1, BeginMove
  <2>5. CASE UNCHANGED <<lock, pc, ops, at, rpc, blob>>
    <3>1. UNCHANGED <<state, stop, seen, open, got, spc>>
      BY Zenon, <2>1 DEF sessionVars
    <3>2. SessionTypes' /\ CallTypes' /\ HoldersOK' /\ BuffersOK'
      BY ZenonT(30), <2>5, <3>1 DEF ControlInv, SessionTypes, CallTypes, HoldersOK, HolderOK, BuffersOK,
                        BufferOK
    <3> QED
      BY Zenon, <2>1, <2>5, <3>2, SessionsFrame DEF ControlInv
  <2> QED
    BY Zenon, <1>4, <2>4, <2>5 DEF startTransmitter
<1>5. ASSUME NEW todo \in Seq(Op), Begin(c, todo), UNCHANGED sessionVars, pc[c] = "lock",
             lock = None, rpc[c].name = "getCaptureBuffer" => todo = <<<<"stop", "capture">>>>
      PROVE  ControlInv'
  BY ZenonT(30), <1>5, BeginMove, PlaceFacts
<1>6. CASE modifyPort(c)
  <2>1. PICK op \in {"start", "stop"} : Begin(c, <<<<op, "ttag">>, <<op, "rx">>>>)
    BY Zenon, <1>6 DEF modifyPort, TrackingCalls
  <2>2. <<<<op, "ttag">>, <<op, "rx">>>> \in Seq(Op)
    BY Zenon, OpFacts, PlaceFacts
  <2> QED
    BY ZenonT(30), <1>5, <1>6, <2>1, <2>2 DEF modifyPort, Section
<1>7. CASE stopTransmit(c)
  <2>1. <<<<"halt", "tx">>>> \in Seq(Op)
    BY Zenon, OpFacts
  <2> QED
    BY Zenon, <1>5, <1>7, <2>1 DEF stopTransmit, Section
<1>8. CASE startCapture(c) \/ stopCapture(c)
  <2>1. <<<<"start", "capture">>>> \in Seq(Op) /\ <<<<"stop", "capture">>>> \in Seq(Op)
    BY Zenon, OpFacts, PlaceFacts
  <2> QED
    BY ZenonT(30), <1>5, <1>8, <2>1 DEF startCapture, stopCapture, Section
<1>9. CASE addDeviceGroup(c) \/ deleteDeviceGroup(c)
  <2>1. /\ <<<<"start", "emul">>>> \in Seq(Op) /\ <<<<"stop", "emul">>>> \in Seq(Op)
        /\ <<>> \in Seq(Op)
    BY Zenon, OpFacts, PlaceFacts
  <2>2. \E todo \in Seq(Op) : Begin(c, todo)
    BY ZenonT(30), <1>9, <2>1 DEF addDeviceGroup, deleteDeviceGroup
  <2> QED
    BY ZenonT(30), <1>5, <1>9, <2>2 DEF addDeviceGroup, deleteDeviceGroup, Section
<1> QED
  BY Zenon, <1>1, <1>2, <1>3, <1>4, <1>6, <1>7, <1>8, <1>9

\* Every step
LEMMA NextControl ==
  ASSUME ControlInv, [Next]_vars
  PROVE  ControlInv'
<1>1. ASSUME NEW c \in Clients, (\E r \in Rpcs : Call(c, r)) \/ Handler(c) \/ finishBinaryBlob(c)
      PROVE  ControlInv'
  <2>1. CASE SessionCall(c)
    BY Zenon, <2>1, StartKeeps, StopKeeps DEF SessionCall, rpcVars
  <2>2. CASE TransmitterCall(c)
    BY ZenonT(30), <2>2, TransmitterKeeps
  <2>3. CASE ~SessionCall(c) /\ ~TransmitterCall(c)
    BY Zenon, <1>1, <2>3, ShortHandlerKeeps, LongHandlerKeeps
       DEF Handler, getPortConfig, getStreamIdList, getStreamConfig, getDeviceGroupIdList,
           getDeviceGroupConfig, getDeviceList, getDeviceNeighbors, getStats, clearStats,
           modifyDeviceGroup, resolveDeviceNeighbors, clearDeviceNeighbors
  <2> QED
    BY Zenon, <2>1, <2>2, <2>3
<1>2. ASSUME NEW s \in Sessions, SessionThread(s) \/ SessionFault(s)
      PROVE  ControlInv'
  BY Zenon, <1>2, RunKeeps
<1>3. CASE UNCHANGED <<sessionVars, callerVars, rpcVars>>
  <2>1. /\ UNCHANGED <<state, stop, seen, open, got, spc>> /\ UNCHANGED sessionVars
        /\ UNCHANGED <<ops, at, lock, pc, rpc, blob>>
    BY ZenonT(30), <1>3 DEF sessionVars, callerVars, rpcVars
  <2>2. SessionTypes' /\ CallTypes' /\ HoldersOK' /\ BuffersOK'
    BY ZenonT(30), <2>1 DEF ControlInv, SessionTypes, CallTypes, HoldersOK, HolderOK, BuffersOK, BufferOK
  <2> QED
    BY Zenon, <2>1, <2>2, SessionsFrame DEF ControlInv
<1>4. CASE TxThread \/ PollThread
  BY Zenon, <1>3, <1>4 DEF TxThread, PollThread, TxBegin, TxSend, TxCount, TxFinish, TxCallback, PollEnd,
                    PollOver
<1>5. CASE UNCHANGED vars
  BY Zenon, <1>3, <1>5 DEF vars
<1> QED
  BY Zenon, <1>1, <1>2, <1>4, <1>5 DEF Next

-----------------------------------------------------------------------------
(* The statistics                                                          *)

\* The steps that leave the counts and the transmit thread alone
LEMMA CountsFrame ==
  ASSUME CountTypes, CountsOK,
         UNCHANGED <<portStats, cleared, threadStats, xmitStats, counted, sent, tpc>>
  PROVE  CountTypes' /\ CountsOK'
  BY Zenon DEF CountTypes, CountsOK

\* Every step
LEMMA NextCounts ==
  ASSUME CountTypes, CountsOK, [Next]_vars
  PROVE  CountTypes' /\ CountsOK'
<1>1. ASSUME NEW c \in Clients,
             startTransmitClear(c) \/ clearStreamStats(c) \/ getStreamStats(c)
      PROVE  CountTypes' /\ CountsOK'
  <2>1. /\ UNCHANGED <<threadStats, counted, sent, tpc>>
        /\ \/ cleared' = cleared + portStats /\ portStats' = 0 /\ UNCHANGED xmitStats
           \/ portStats' = portStats + xmitStats /\ xmitStats' = 0 /\ UNCHANGED cleared
    BY Zenon, <1>1 DEF startTransmitClear, clearStreamStats, getStreamStats, resetStreamStatsAll, Quiet,
                transmitterVars, txVars, countVars
  <2> QED
    BY SMTT(30), <2>1 DEF CountTypes, CountsOK
<1>2. ASSUME NEW c \in Clients, TransmitterCall(c)
      PROVE  CountTypes' /\ CountsOK'
  <2>1. /\ UNCHANGED <<portStats, cleared, threadStats, xmitStats, counted, sent>>
        /\ tpc' = tpc \/ Joinable(tpc)
    BY ZenonT(30), <1>2 DEF TransmitterCall, PollStart, PollSpin, TransmitCall, TransmitJoin, TransmitSpin,
                HaltCall, HaltSpin, HaltJoin, PollHalt, PollJoin, transmitterVars, txVars,
                countVars, portVars
  <2> QED
    BY Zenon, <2>1 DEF CountTypes, CountsOK, Joinable
<1>3. ASSUME NEW c \in Clients, SessionCall(c)
      PROVE  CountTypes' /\ CountsOK'
  BY Zenon, <1>3, CountsFrame DEF SessionCall, transmitterVars, txVars, countVars, portVars
<1>4. ASSUME NEW c \in Clients, \/ \E r \in Rpcs : Call(c, r)
                                \/ Handler(c) \/ finishBinaryBlob(c),
             ~(startTransmitClear(c) \/ clearStreamStats(c) \/ getStreamStats(c)),
             ~TransmitterCall(c), ~SessionCall(c)
      PROVE  CountTypes' /\ CountsOK'
  <2>1. UNCHANGED <<portStats, cleared, threadStats, xmitStats, counted, sent, tpc>>
    BY ZenonT(30), <1>4 DEF Call, Handler, TransmitCheck, canModify, Unlock, modifyPort, editStreams, build,
                startTransmit, startTransmitter, stopTransmit, startCapture, stopCapture,
                getCaptureBuffer, Reads, NeighborsChange, addDeviceGroup, deleteDeviceGroup,
                getPortConfig, getStreamIdList, getStreamConfig, getDeviceGroupIdList,
                getDeviceGroupConfig, getDeviceList, getDeviceNeighbors, getStats, clearStats,
                modifyDeviceGroup, resolveDeviceNeighbors, clearDeviceNeighbors,
                finishBinaryBlob, Rebuild, Quiet, transmitterVars, txVars, countVars, portVars
  <2> QED
    BY Zenon, <2>1, CountsFrame
<1>5. ASSUME NEW s \in Sessions, SessionThread(s) \/ SessionFault(s)
      PROVE  CountTypes' /\ CountsOK'
  BY Zenon, <1>5, CountsFrame DEF SessionThread, SessionFault, transmitterVars, txVars, countVars, portVars
<1>6. CASE TxThread
  <2>1. UNCHANGED <<portStats, cleared>>
    BY Zenon, <1>6 DEF TxThread, portVars
  <2>2. CASE TxBegin \/ TxFinish
    <3>1. /\ UNCHANGED <<threadStats, xmitStats, counted>> /\ (sent' = sent \/ sent' = 0)
          /\ \/ tpc = "run"
             \/ tpc = "finish" /\ tpc' = "callback"
      BY Zenon, <2>2 DEF TxBegin, TxFinish, countVars
    <3> QED
      BY SMTT(30), <2>1, <3>1 DEF CountTypes, CountsOK
  <2>3. CASE TxSend
    <3>1. /\ UNCHANGED <<threadStats, xmitStats, counted>> /\ tpc = "send"
          /\ (sent' = sent \/ sent' = sent + 1)
      BY Zenon, <2>3 DEF TxSend, countVars
    <3> QED
      BY <2>1, <3>1 DEF CountTypes, CountsOK
  <2>4. CASE TxCount
    <3>1. /\ UNCHANGED <<sent, xmitStats>> /\ tpc' = "finish"
          /\ \E n \in {0, sent} : threadStats' = threadStats + n /\ counted' = counted + n
      BY Zenon, <2>4 DEF TxCount
    <3> QED
      BY <2>1, <3>1 DEF CountTypes, CountsOK
  <2>5. CASE TxCallback
    <3>1. /\ UNCHANGED <<sent, counted>> /\ xmitStats' = xmitStats + threadStats
          /\ threadStats' = 0
      BY ZenonT(30), <2>5 DEF TxCallback, streamStats
    <3> QED
      BY <2>1, <3>1 DEF CountTypes, CountsOK
  <2> QED
    BY Zenon, <1>6, <2>2, <2>3, <2>4, <2>5 DEF TxThread
<1>7. CASE PollThread
  BY ZenonT(30), <1>7, CountsFrame DEF PollThread, PollEnd, PollOver, txVars, countVars, portVars
<1>8. CASE UNCHANGED vars
  BY Zenon, <1>8, CountsFrame DEF vars, transmitterVars, txVars, countVars, portVars
<1> QED
  BY Zenon, <1>1, <1>2, <1>3, <1>4, <1>5, <1>6, <1>7, <1>8 DEF Next

-----------------------------------------------------------------------------
(* Theorems                                                                *)

\* A port as it is made, with its pollers running or not, satisfies the invariant.
LEMMA InitDrone ==
  ASSUME NEW given, NEW tracked \in BOOLEAN, PortInit(given, tracked)
  PROVE  DroneInv
<1> DEFINE running == IF tracked THEN {"rx", "ttag"} ELSE {}
<1>1. /\ state = [s \in Sessions |-> IF s \in running THEN "kRunning" ELSE "kNotStarted"]
      /\ stop = [s \in Sessions |-> FALSE] /\ seen = [s \in Sessions |-> FALSE]
      /\ open = [s \in Sessions |-> s \in running] /\ got = [s \in Sessions |-> 0]
      /\ spc = [s \in Sessions |-> IF s \in running THEN "loop" ELSE "none"]
      /\ ops = [c \in Clients |-> <<>>] /\ at = [c \in Clients |-> "call"]
  BY ZenonT(30) DEF PortInit, SessionInit
<1>2. /\ lock = None /\ pc = [c \in Clients |-> "idle"]
      /\ rpc = [c \in Clients |-> [name |-> "none"]] /\ blob = [c \in Clients |-> 0]
      /\ portStats = 0 /\ cleared = 0
      /\ threadStats = 0 /\ xmitStats = 0 /\ counted = 0 /\ sent = 0
  BY Zenon DEF PortInit, TransmitterInit
<1> HIDE DEF running
<1>3. SessionTypes
  BY SMTT(30), <1>1 DEF SessionTypes
<1>4. CallTypes
  BY ZenonT(30), <1>1, <1>2, OpFacts DEF CallTypes, Place, Free
<1>5. HoldersOK
  BY Zenon, <1>1, <1>2, PlaceFacts DEF HoldersOK, HolderOK, Holding
<1>6. SessionsOK
  <2>1. ASSUME NEW s \in Sessions PROVE SessionOK(s)
    <3>1. \A op, where : ~Works(op, where, s)
      BY Zenon, <1>2, PlaceFacts DEF Works
    <3>2. ~seen[s]
      BY Zenon, <1>1
    <3>3. \/ state[s] = "kRunning" /\ spc[s] = "loop" /\ open[s]
          \/ state[s] = "kNotStarted" /\ spc[s] = "none"
      BY Zenon, <1>1
    <3> QED
      BY ZenonT(30), <3>1, <3>2, <3>3 DEF SessionOK
  <2> QED
    BY Zenon, <2>1 DEF SessionsOK
<1>7. BuffersOK
  BY Zenon, <1>2 DEF BuffersOK, BufferOK
<1>8. CountTypes /\ CountsOK
  BY <1>2 DEF CountTypes, CountsOK
<1> QED
  BY ZenonT(30), <1>3, <1>4, <1>5, <1>6, <1>7, <1>8 DEF DroneInv, ControlInv

\* The inductive invariant of a drone's port.
THEOREM DroneInvariant == Spec => []DroneInv
<1>1. Init => DroneInv
  BY ZenonT(30), InitDrone DEF Init
<1>2. DroneInv /\ [Next]_vars => DroneInv'
  BY Zenon, NextControl, NextCounts DEF DroneInv
<1> QED
  BY <1>1, <1>2, PTL DEF Spec

\* BreaksLiveSession: PcapSession::stop() breaks the loop of, and signals, a thread that
\* is alive with its capture open, whatever the RPC threads and the sessions do.
THEOREM SignalsReachTheirSession == Spec => []BreaksLiveSession
<1>1. DroneInv => BreaksLiveSession
  <2> SUFFICES ASSUME DroneInv, NEW c \in Clients, At(c, "stop", "break")
               PROVE  open[Target(c)] /\ spc[Target(c)] \in {"loop", "post"}
    BY ZenonT(30) DEF BreaksLiveSession
  <2>1. ops[c] # <<>> /\ Head(ops[c])[1] = "stop"
    BY ZenonT(30) DEF At
  <2>2. Target(c) \in Sessions
    BY ZenonT(30), <2>1, TargetFacts DEF DroneInv, ControlInv
  <2>3. lock = c
    BY Zenon, <2>1, WorkerHolds DEF DroneInv, ControlInv
  <2>4. Works("stop", "break", Target(c))
    BY Zenon, <2>3 DEF Works
  <2>5. SessionOK(Target(c))
    BY ZenonT(30), <2>2 DEF DroneInv, ControlInv, SessionsOK
  <2> QED
    BY Zenon, <2>4, <2>5 DEF SessionOK
<1> QED
  BY <1>1, DroneInvariant, PTL

\* CaptureIsStable: the capture file does not change while getCaptureBuffer() sends it.
THEOREM CaptureFileIsStable == Spec => []CaptureIsStable
<1>1. DroneInv => CaptureIsStable
  BY Zenon DEF DroneInv, ControlInv, BuffersOK, BufferOK, CaptureIsStable, Joinable
<1> QED
  BY <1>1, DroneInvariant, PTL

\* StatsComplete: statistics read when the transmit thread has been joined hold every
\* packet ever counted that was not cleared.
THEOREM StatisticsAreComplete == Spec => StatsComplete
<1>1. DroneInv /\ [Next]_vars =>
        [\A c \in Clients : getStreamStats(c) /\ tpc = "none" => portStats' + cleared = counted]_vars
  <2> SUFFICES ASSUME DroneInv, NEW c \in Clients, getStreamStats(c), tpc = "none"
               PROVE  portStats' + cleared = counted
    BY Zenon
  <2>1. portStats' = portStats + xmitStats
    BY Zenon DEF getStreamStats
  <2>2. threadStats = 0
    BY Zenon DEF DroneInv, CountsOK
  <2> QED
    BY <2>1, <2>2 DEF DroneInv, CountTypes, CountsOK
<1> QED
  BY <1>1, DroneInvariant, PTL DEF Spec, StatsComplete
====
