--------------------------- MODULE SidecarProofs ---------------------------
(***************************************************************************)
(* Proofs that the main process and its controller keep NoUnknownResponse  *)
(* and WindowIsTrue, for any number of requests and any size of the pipe.  *)
(*                                                                         *)
(* Both follow what is on its way to main: `Out`, the frames in the pipe   *)
(* and those the current handler has still to write.  A controller step    *)
(* appends to Out, or cuts it off with a protocol error; reading takes its *)
(* head; a write leaves it as it is.  So the argument is about sequences   *)
(* of frames, and the lemmas below are about one sequence that grows or is *)
(* read.                                                                   *)
(***************************************************************************)
EXTENDS Sidecar, TLAPS

-----------------------------------------------------------------------------
(* The inductive invariant                                                 *)

Out == stdout \o todo

WindowStates == States \cup {"starting"}
Windows == [state : WindowStates, ports : BOOLEAN, stats : BOOLEAN]

SideTypes ==
  /\ life \in {"new", "running", "exited"} /\ session \in BOOLEAN /\ stopped \in BOOLEAN
  /\ work \in Requests \cup {Idle, Poll}
  /\ stdin \in Seq(Requests) /\ stdout \in Seq(Outputs) /\ todo \in Seq(Outputs)
  /\ child \in {"none", "up", "gone"}
  /\ pending \subseteq Requests
  /\ nextId \in Nat \ {0} /\ (stop = "no" => nextId <= MaxIds)
  /\ controlInFlight \in BOOLEAN /\ failureReported \in BOOLEAN
  /\ termination \in {"no", "term", "kill", "done"}
  /\ stop \in {"no", "shutdown", "grace", "terminate", "done"}
  /\ snapshot \in Windows

\* What has happened before the child is started, when it is gone, and during a poll.
StageOK ==
  /\ child = "none" =>
       /\ life = "new" /\ stdin = <<>> /\ stdout = <<>> /\ todo = <<>> /\ work = Idle
       /\ ~session /\ ~terminating /\ stop \in {"no", "done"}
       /\ ~snapshot.ports /\ ~snapshot.stats
  /\ child # "up" => pending = {}
  /\ child = "gone" /\ ~terminating => life = "exited" /\ stdout = <<>>
  /\ work = Poll => session /\ todo = <<>>
  /\ failureReported => terminating

\* Ids identify the pending requests, and one control and one shutdown request at most
\* are pending.
SameSort(r, q) == {r.cmd, q.cmd} \subseteq Controls \/ (r.cmd = "shutdown" /\ q.cmd = "shutdown")

PendingOK ==
  /\ \A r \in pending :
       /\ r.id < nextId
       /\ r.cmd \in Controls => controlInFlight
       /\ r.cmd = "shutdown" => stop # "no"
  /\ \A r, q \in pending : r.id = q.id \/ SameSort(r, q) => r = q

\* A pending request is in one place at most: in the pipe to the controller, in its
\* hands, or answered by one frame on its way back.
Unread(r) == \E i \in 1..Len(stdin) : stdin[i] = r
Handled == {r \in pending : ~Unread(r) /\ work # r}
Answers(q, R) ==
  /\ \A k \in 1..Len(q) : q[k].kind = "response" => \E r \in R : r.id = q[k].id
  /\ \A k, l \in 1..Len(q) :
       q[k].kind = "response" /\ q[l].kind = "response" /\ q[k].id = q[l].id => k = l

FlowOK ==
  /\ \A i \in 1..Len(stdin) : stdin[i] \in pending
  /\ \A i, j \in 1..Len(stdin) : stdin[i] = stdin[j] => i = j
  /\ work.cmd \in Commands => work \in pending /\ ~Unread(work)
  /\ Answers(Out, Handled)

\* Frames that change the state the window shows, and the state shown after the first n
\* frames of q are read by a window w.
Tells(f) == f.kind \in {"status", "protocolError"}
TellsOf(f, s) == (f.kind = "status" /\ f.state = s) \/ (f.kind = "protocolError" /\ s = "error")
ShowsAfter(q, n, w, s) ==
  \/ \E j \in 1..n : TellsOf(q[j], s) /\ \A i \in 1..n : i > j => ~Tells(q[i])
  \/ w.state = s /\ \A i \in 1..n : ~Tells(q[i])

\* The ports and the statistics were emptied by the last two of the first n frames of q,
\* or by frames that w has read already.
EmptyAfter(q, n, w) ==
  /\ IF n = 0 THEN ~w.stats ELSE q[n].kind = "stats" /\ ~q[n].on
  /\ IF n <= 1 THEN ~w.ports ELSE q[n - 1].kind = "ports" /\ ~q[n - 1].on

\* Frame k comes at a time when the window w may show it.
FrameOK(q, k, w) ==
  /\ q[k].kind = "status" /\ q[k].state \in {"disconnected", "error"} => EmptyAfter(q, k - 1, w)
  /\ q[k].kind \in {"ports", "stats"} /\ q[k].on => ShowsAfter(q, k - 1, w, "connected")
FramesOK(q, w) == \A k \in 1..Len(q) : FrameOK(q, k, w)

WindowOK(w) == w.state \in {"disconnected", "error"} => ~w.ports /\ ~w.stats

\* What the window shows, and what it will show when it has read everything.
ShownOK ==
  /\ WindowOK(snapshot)
  /\ (terminating \/ child = "gone") /\ ~stopping => snapshot.state = "error"
  /\ child = "up" /\ ~terminating => FramesOK(Out, snapshot)
  /\ child = "up" /\ ~terminating /\ life = "running" /\ work.cmd \notin {"connect", "reconnect"}
       => \E s \in WindowStates :
            /\ ShowsAfter(Out, Len(Out), snapshot, s)
            /\ session => s = "connected"
            /\ ~stopped /\ ~session => s # "connected"

SideInv == SideTypes /\ StageOK /\ PendingOK /\ (child = "up" => FlowOK) /\ ShownOK

-----------------------------------------------------------------------------
(* Sequences of frames                                                     *)

\* What taking the head of a sequence does.
LEMMA HeadAndTail ==
  ASSUME NEW S, NEW q \in Seq(S), q # <<>>
  PROVE  /\ Head(q) \in S /\ Head(q) = q[1] /\ Tail(q) \in Seq(S)
         /\ Len(q) \in Nat \ {0} /\ Len(Tail(q)) = Len(q) - 1
         /\ \A i \in 1..Len(Tail(q)) : Tail(q)[i] = q[i + 1]
  OBVIOUS

\* What appending to a sequence does.
LEMMA Appending ==
  ASSUME NEW S, NEW q \in Seq(S), NEW e \in S
  PROVE  /\ Append(q, e) \in Seq(S) /\ Len(Append(q, e)) = Len(q) + 1 /\ Len(q) \in Nat
         /\ Append(q, e)[Len(q) + 1] = e
         /\ \A i \in 1..Len(q) : Append(q, e)[i] = q[i]
  OBVIOUS

\* Writing a frame moves it inside Out.
LEMMA WriteKeepsOut ==
  ASSUME NEW S, NEW p \in Seq(S), NEW t \in Seq(S), t # <<>>
  PROVE  Append(p, Head(t)) \o Tail(t) = p \o t
  OBVIOUS

\* Reading a frame takes the head of Out.
LEMMA ReadTakesHead ==
  ASSUME NEW S, NEW p \in Seq(S), NEW t \in Seq(S), p # <<>>
  PROVE  /\ p \o t \in Seq(S) /\ p \o t # <<>>
         /\ Head(p \o t) = Head(p) /\ Tail(p) \o t = Tail(p \o t)
  OBVIOUS

\* Concatenation is associative.
LEMMA Associative ==
  ASSUME NEW S, NEW p \in Seq(S), NEW t \in Seq(S), NEW u \in Seq(S)
  PROVE  t \o u \in Seq(S) /\ p \o (t \o u) = (p \o t) \o u
  OBVIOUS

\* A handler that starts with nothing left to write appends its frames one by one.
LEMMA Blocks ==
  ASSUME NEW S, NEW p \in Seq(S), NEW a \in S, NEW b \in S, NEW c \in S, NEW d \in S
  PROVE  /\ p \o <<>> = p
         /\ p \o <<a>> = Append(p, a)
         /\ p \o <<a, b>> = Append(Append(p, a), b)
         /\ p \o <<a, b, c>> = Append(Append(Append(p, a), b), c)
         /\ p \o <<a, b, c, d>> = Append(Append(Append(Append(p, a), b), c), d)
  BY SMTT(30)

-----------------------------------------------------------------------------
(* What the window shows                                                   *)

\* v is what a window w becomes when it reads f.
Reads(w, f, v) ==
  /\ f.kind = "ports" => v.ports = f.on /\ v.stats = w.stats
  /\ f.kind = "stats" => v.stats = f.on /\ v.ports = w.ports
  /\ f.kind \in {"status", "response"} => v.ports = w.ports /\ v.stats = w.stats
  /\ f.kind = "protocolError" => ~v.ports /\ ~v.stats
  /\ TellsOf(f, v.state) \/ (~Tells(f) /\ v.state = w.state)

\* Reading a frame does not change what the window will show after the frames behind it.
LEMMA ShowsTail ==
  ASSUME NEW q \in Seq(Outputs), q # <<>>, NEW w, NEW v, Reads(w, Head(q), v),
         NEW n \in 1..Len(q), NEW s, ShowsAfter(q, n, w, s)
  PROVE  ShowsAfter(Tail(q), n - 1, v, s)
<1>1. /\ Head(q) = q[1] /\ Len(q) \in Nat /\ Len(Tail(q)) = Len(q) - 1
      /\ \A i \in 1..Len(Tail(q)) : Tail(q)[i] = q[i + 1]
  BY Zenon, HeadAndTail
<1>2. CASE w.state = s /\ \A i \in 1..n : ~Tells(q[i])
  <2>1. ~Tells(q[1])
    BY <1>2
  <2>2. v.state = s
    BY Zenon, <2>1, <1>1, <1>2 DEF Reads, Tells, TellsOf
  <2>3. \A i \in 1..(n - 1) : ~Tells(Tail(q)[i])
    BY <1>1, <1>2
  <2> QED BY Zenon, <2>2, <2>3 DEF ShowsAfter
<1>3. CASE \E j \in 1..n : TellsOf(q[j], s) /\ \A i \in 1..n : i > j => ~Tells(q[i])
  <2>1. PICK j \in 1..n : TellsOf(q[j], s) /\ \A i \in 1..n : i > j => ~Tells(q[i])
    BY Zenon, <1>3
  <2>2. \A i \in 1..(n - 1) : i > j - 1 => ~Tells(Tail(q)[i])
    <3> TAKE i \in 1..(n - 1)
    <3>1. Tail(q)[i] = q[i + 1] /\ i + 1 \in 1..n
      BY <1>1
    <3> QED BY <3>1, <2>1
  <2>3. CASE j = 1
    <3>1. v.state = s
      BY Zenon, <2>1, <2>3, <1>1 DEF Reads, Tells, TellsOf
    <3> QED BY <3>1, <2>2, <2>3 DEF ShowsAfter
  <2>4. CASE j # 1
    <3>1. j - 1 \in 1..(n - 1) /\ Tail(q)[j - 1] = q[j]
      BY <2>4, <1>1
    <3> QED BY Zenon, <3>1, <2>1, <2>2 DEF ShowsAfter
  <2> QED BY Zenon, <2>3, <2>4
<1> QED BY Zenon, <1>2, <1>3 DEF ShowsAfter

\* Nor does it change that the ports and the statistics are empty then.
LEMMA EmptyTail ==
  ASSUME NEW q \in Seq(Outputs), q # <<>>, NEW w, NEW v, Reads(w, Head(q), v),
         NEW n \in 1..Len(q), EmptyAfter(q, n, w)
  PROVE  EmptyAfter(Tail(q), n - 1, v)
<1>1. /\ Head(q) = q[1] /\ Len(q) \in Nat /\ Len(Tail(q)) = Len(q) - 1
      /\ \A i \in 1..Len(Tail(q)) : Tail(q)[i] = q[i + 1]
  BY Zenon, HeadAndTail
<1>2. CASE n = 1
  BY <1>1, <1>2 DEF EmptyAfter, Reads
<1>3. CASE n = 2
  <2>1. Tail(q)[1] = q[2]
    BY <1>1, <1>3
  <2> QED BY <1>1, <1>3, <2>1 DEF EmptyAfter, Reads
<1>4. CASE n > 2
  <2>1. Tail(q)[n - 1] = q[n] /\ Tail(q)[n - 2] = q[n - 1]
    BY <1>1, <1>4
  <2> QED BY <1>1, <1>4, <2>1 DEF EmptyAfter
<1> QED BY <1>1, <1>2, <1>3, <1>4

\* The frames that are left fit the window that has read the first one, which is
\* consistent itself.
LEMMA FramesTail ==
  ASSUME NEW q \in Seq(Outputs), q # <<>>, NEW w, NEW v, Reads(w, Head(q), v),
         FramesOK(q, w), WindowOK(w)
  PROVE  FramesOK(Tail(q), v) /\ WindowOK(v)
<1>1. /\ Head(q) = q[1] /\ Len(q) \in Nat \ {0} /\ Len(Tail(q)) = Len(q) - 1
      /\ \A i \in 1..Len(Tail(q)) : Tail(q)[i] = q[i + 1]
      /\ q[1] \in Outputs
  BY Zenon, HeadAndTail
<1>2. FramesOK(Tail(q), v)
  <2> SUFFICES ASSUME NEW k \in 1..Len(Tail(q)) PROVE FrameOK(Tail(q), k, v)
    BY Zenon DEF FramesOK
  <2>1. k + 1 \in 1..Len(q) /\ k \in 1..Len(q) /\ Tail(q)[k] = q[k + 1] /\ k \in Nat /\ (k + 1) - 1 = k
    BY <1>1
  <2>2. FrameOK(q, k + 1, w)
    BY Zenon, <2>1 DEF FramesOK
  <2>3. EmptyAfter(q, k, w) => EmptyAfter(Tail(q), k - 1, v)
    BY Zenon, <2>1, EmptyTail
  <2>4. ShowsAfter(q, k, w, "connected") => ShowsAfter(Tail(q), k - 1, v, "connected")
    BY Zenon, <2>1, ShowsTail
  <2> QED BY Zenon, <2>1, <2>2, <2>3, <2>4 DEF FrameOK
<1>3. FrameOK(q, 1, w)
  BY <1>1 DEF FramesOK
<1>4. ShowsAfter(q, 0, w, "connected") => w.state = "connected"
  BY DEF ShowsAfter
<1>5. EmptyAfter(q, 0, w) => ~w.stats /\ ~w.ports
  BY DEF EmptyAfter
<1>6. q[1].kind \in {"status", "ports", "stats", "response", "protocolError"}
  BY <1>1 DEF Outputs, ProtocolError
<1>7. WindowOK(v)
  <2>1. CASE q[1].kind = "status"
    BY <1>1, <1>3, <1>5, <2>1 DEF FrameOK, Reads, Tells, TellsOf, WindowOK
  <2>2. CASE q[1].kind \in {"ports", "stats"}
    BY <1>1, <1>3, <1>4, <2>2 DEF FrameOK, Reads, Tells, TellsOf, WindowOK
  <2>3. CASE q[1].kind = "response"
    BY Zenon, <1>1, <2>3 DEF Reads, Tells, TellsOf, WindowOK
  <2>4. CASE q[1].kind = "protocolError"
    BY Zenon, <1>1, <2>4 DEF Reads, WindowOK
  <2> QED BY Zenon, <1>6, <2>1, <2>2, <2>3, <2>4
<1> QED BY Zenon, <1>2, <1>7

\* The verdict on a frame depends on the frames up to it.
LEMMA FramesAreLocal ==
  ASSUME NEW p, NEW q, NEW w, NEW n \in Nat, \A i \in 1..n : p[i] = q[i]
  PROVE  /\ \A s : ShowsAfter(p, n, w, s) <=> ShowsAfter(q, n, w, s)
         /\ EmptyAfter(p, n, w) <=> EmptyAfter(q, n, w)
<1>1. ASSUME NEW s PROVE ShowsAfter(p, n, w, s) <=> ShowsAfter(q, n, w, s)
  BY Zenon DEF ShowsAfter
<1>2. EmptyAfter(p, n, w) <=> EmptyAfter(q, n, w)
  <2>1. CASE n = 0
    BY <2>1 DEF EmptyAfter
  <2>2. CASE n = 1
    <3>1. p[1] = q[1]
      BY <2>2
    <3> QED BY <2>2, <3>1 DEF EmptyAfter
  <2>3. CASE n > 1
    <3>1. p[n] = q[n] /\ p[n - 1] = q[n - 1]
      BY <2>3
    <3> QED BY Zenon, <2>3, <3>1 DEF EmptyAfter
  <2> QED BY <2>1, <2>2, <2>3
<1> QED BY Zenon, <1>1, <1>2

\* So does the verdict on the whole of it, frame by frame.
LEMMA FrameIsLocal ==
  ASSUME NEW p, NEW q, NEW w, NEW k \in Nat \ {0}, \A i \in 1..k : p[i] = q[i], FrameOK(p, k, w)
  PROVE  FrameOK(q, k, w)
<1>1. p[k] = q[k] /\ k - 1 \in Nat /\ \A i \in 1..(k - 1) : p[i] = q[i]
  OBVIOUS
<1>2. /\ ShowsAfter(p, k - 1, w, "connected") <=> ShowsAfter(q, k - 1, w, "connected")
      /\ EmptyAfter(p, k - 1, w) <=> EmptyAfter(q, k - 1, w)
  BY Zenon, <1>1, FramesAreLocal
<1> QED BY Zenon, <1>1, <1>2 DEF FrameOK

\* Cutting Out off leaves frames that fit.
LEMMA FramesPrefix ==
  ASSUME NEW p \in Seq(Outputs), NEW t \in Seq(Outputs), NEW w, FramesOK(p \o t, w)
  PROVE  FramesOK(p, w)
<1> SUFFICES ASSUME NEW k \in 1..Len(p) PROVE FrameOK(p, k, w)
  BY Zenon DEF FramesOK
<1>1. k \in 1..Len(p \o t) /\ k \in Nat \ {0} /\ \A i \in 1..k : (p \o t)[i] = p[i]
  OBVIOUS
<1>2. FrameOK(p \o t, k, w)
  BY Zenon, <1>1 DEF FramesOK
<1> QED BY Zenon, <1>1, <1>2, FrameIsLocal

\* A frame may follow q when the window may show it after q.
MayFollow(q, f, w) ==
  /\ f.kind = "status" /\ f.state \in {"disconnected", "error"} => EmptyAfter(q, Len(q), w)
  /\ f.kind \in {"ports", "stats"} /\ f.on => ShowsAfter(q, Len(q), w, "connected")

\* A frame that may follow leaves frames that fit.
LEMMA FramesAppend ==
  ASSUME NEW q \in Seq(Outputs), NEW f \in Outputs, NEW w, FramesOK(q, w), MayFollow(q, f, w)
  PROVE  FramesOK(Append(q, f), w)
<1> DEFINE a == Append(q, f)
<1>1. /\ Len(a) = Len(q) + 1 /\ Len(q) \in Nat /\ a[Len(q) + 1] = f
      /\ \A i \in 1..Len(q) : a[i] = q[i]
  BY Appending
<1> HIDE DEF a
<1> SUFFICES ASSUME NEW k \in 1..Len(a) PROVE FrameOK(a, k, w)
  BY Zenon DEF FramesOK, a
<1>2. CASE k \in 1..Len(q)
  <2>1. FrameOK(q, k, w) /\ k \in Nat \ {0} /\ \A i \in 1..k : q[i] = a[i]
    BY <1>1, <1>2 DEF FramesOK
  <2> QED BY Zenon, <2>1, FrameIsLocal
<1>3. CASE k = Len(q) + 1
  <2>1. k - 1 = Len(q) /\ a[k] = f
    BY <1>1, <1>3
  <2>2. /\ ShowsAfter(q, Len(q), w, "connected") <=> ShowsAfter(a, Len(q), w, "connected")
        /\ EmptyAfter(q, Len(q), w) <=> EmptyAfter(a, Len(q), w)
    BY Zenon, <1>1, FramesAreLocal
  <2> QED BY Zenon, <2>1, <2>2 DEF FrameOK, MayFollow
<1> QED BY <1>1, <1>2, <1>3

\* What the window shows in the end changes only by frames that tell a state.
LEMMA ShowsAppend ==
  ASSUME NEW q \in Seq(Outputs), NEW f \in Outputs, NEW w, NEW s,
         TellsOf(f, s) \/ (~Tells(f) /\ ShowsAfter(q, Len(q), w, s))
  PROVE  ShowsAfter(Append(q, f), Len(Append(q, f)), w, s)
<1> DEFINE a == Append(q, f)
<1>1. /\ Len(a) = Len(q) + 1 /\ Len(q) \in Nat /\ a[Len(q) + 1] = f
      /\ \A i \in 1..Len(q) : a[i] = q[i]
  BY Appending
<1> HIDE DEF a
<1>2. CASE TellsOf(f, s)
  BY <1>1, <1>2 DEF ShowsAfter, a
<1>3. CASE ~Tells(f) /\ ShowsAfter(q, Len(q), w, s)
  <2>1. CASE w.state = s /\ \A i \in 1..Len(q) : ~Tells(q[i])
    <3>1. \A i \in 1..Len(a) : ~Tells(a[i])
      BY <1>1, <1>3, <2>1
    <3> QED BY Zenon, <3>1, <2>1 DEF ShowsAfter, a
  <2>2. CASE \E j \in 1..Len(q) : TellsOf(q[j], s) /\ \A i \in 1..Len(q) : i > j => ~Tells(q[i])
    <3>1. PICK j \in 1..Len(q) : TellsOf(q[j], s) /\ \A i \in 1..Len(q) : i > j => ~Tells(q[i])
      BY Zenon, <2>2
    <3>2. j \in 1..Len(a) /\ TellsOf(a[j], s) /\ \A i \in 1..Len(a) : i > j => ~Tells(a[i])
      BY <1>1, <1>3, <3>1
    <3> QED BY Zenon, <3>2 DEF ShowsAfter, a
  <2> QED BY Zenon, <1>3, <2>1, <2>2 DEF ShowsAfter
<1> QED BY Zenon, <1>2, <1>3

\* What Out may grow by: frames that fit, after which the window shows s.
Fits(q, w, s) == FramesOK(q, w) /\ ShowsAfter(q, Len(q), w, s)

\* A response leaves both alone, and a state that needs nothing may always be told.
LEMMA FitsResponse ==
  ASSUME NEW q \in Seq(Outputs), NEW f \in Outputs, NEW w, NEW s, f.kind = "response", Fits(q, w, s)
  PROVE  Fits(Append(q, f), w, s)
<1>1. MayFollow(q, f, w) /\ ~Tells(f)
  BY Zenon DEF MayFollow, Tells
<1> QED BY Zenon, <1>1, FramesAppend, ShowsAppend DEF Fits

\* A state may be told when nothing speaks against it, and is shown then.
LEMMA FitsTold ==
  ASSUME NEW q \in Seq(Outputs), NEW f \in Outputs, NEW w, NEW s, FramesOK(q, w), TellsOf(f, s),
         f.kind = "protocolError" \/ s \notin {"disconnected", "error"} \/ EmptyAfter(q, Len(q), w)
  PROVE  Fits(Append(q, f), w, s)
<1>1. MayFollow(q, f, w)
  BY Zenon DEF MayFollow, TellsOf
<1> QED BY Zenon, <1>1, FramesAppend, ShowsAppend DEF Fits

\* The frames of the controller are frames that main knows.
LEMMA FrameTypes ==
  /\ \A s \in States : Status(s) \in Outputs /\ TellsOf(Status(s), s) /\ Status(s).kind = "status"
  /\ \A r \in Requests, ok \in BOOLEAN :
       /\ Response(r, ok) \in Outputs
       /\ Response(r, ok).kind = "response" /\ Response(r, ok).id = r.id
  /\ ProtocolError \in Outputs /\ TellsOf(ProtocolError, "error")
  /\ ProtocolError.kind = "protocolError"
<1>1. ASSUME NEW s \in States
      PROVE  Status(s) \in Outputs /\ TellsOf(Status(s), s) /\ Status(s).kind = "status"
  BY Zenon DEF Status, Outputs, TellsOf
<1>2. ASSUME NEW r \in Requests, NEW ok \in BOOLEAN
      PROVE  /\ Response(r, ok) \in Outputs
             /\ Response(r, ok).kind = "response" /\ Response(r, ok).id = r.id
  BY Zenon DEF Response, Outputs, Requests
<1>3. ProtocolError \in Outputs /\ TellsOf(ProtocolError, "error") /\ ProtocolError.kind = "protocolError"
  BY Zenon DEF ProtocolError, Outputs, TellsOf
<1> QED BY Zenon, <1>1, <1>2, <1>3

\* The two frames of ports().
LEMMA PortsFrames ==
  ASSUME NEW on \in BOOLEAN
  PROVE  \E a, b \in Outputs :
           /\ Ports(on) = <<a, b>>
           /\ a.kind = "ports" /\ b.kind = "stats" /\ a.on = on /\ b.on = on
<1>1. PICK a, b : a = [kind |-> "ports", on |-> on] /\ b = [kind |-> "stats", on |-> on]
  BY Zenon
<1>2. a \in Outputs /\ b \in Outputs /\ Ports(on) = <<a, b>>
  BY Zenon, <1>1 DEF Ports, Outputs
<1> QED BY Zenon, <1>1, <1>2

\* They fit if they are empty or the window shows a connection, and if they are empty a
\* lost connection may be told after them.
LEMMA FitsPorts ==
  ASSUME NEW q \in Seq(Outputs), NEW on \in BOOLEAN, NEW w, FramesOK(q, w),
         NEW a \in Outputs, NEW b \in Outputs,
         a.kind = "ports", b.kind = "stats", a.on = on, b.on = on,
         on => ShowsAfter(q, Len(q), w, "connected")
  PROVE  /\ FramesOK(Append(Append(q, a), b), w)
         /\ ~on => EmptyAfter(Append(Append(q, a), b), Len(Append(Append(q, a), b)), w)
         /\ \A s : ShowsAfter(q, Len(q), w, s) =>
              ShowsAfter(Append(Append(q, a), b), Len(Append(Append(q, a), b)), w, s)
<1>2. a \in Outputs /\ b \in Outputs /\ a.kind = "ports" /\ b.kind = "stats" /\ a.on = on /\ b.on = on
  BY Zenon
<1>3. PICK p : p = Append(q, a)
  BY Zenon
<1>4. p \in Seq(Outputs) /\ Len(p) = Len(q) + 1 /\ Len(q) \in Nat /\ p[Len(q) + 1] = a
  BY <1>2, <1>3, Appending
<1>5. PICK t : t = Append(p, b)
  BY Zenon
<1>6. Len(t) = Len(p) + 1 /\ t[Len(p) + 1] = b /\ t[Len(p)] = a
  <2>1. Len(p) \in 1..Len(p)
    BY <1>4
  <2> QED BY <1>2, <1>4, <1>5, <2>1, Appending
<1>7. ASSUME NEW s, ShowsAfter(q, Len(q), w, s) PROVE ShowsAfter(p, Len(p), w, s)
  BY Zenon, <1>2, <1>3, <1>7, ShowsAppend DEF Tells
<1>8. ASSUME NEW s, ShowsAfter(p, Len(p), w, s) PROVE ShowsAfter(t, Len(t), w, s)
  BY Zenon, <1>2, <1>4, <1>5, <1>8, ShowsAppend DEF Tells
<1>9. FramesOK(p, w)
  <2>1. MayFollow(q, a, w)
    BY Zenon, <1>2 DEF MayFollow
  <2> QED BY Zenon, <2>1, <1>2, <1>3, FramesAppend
<1>10. FramesOK(t, w)
  <2>1. MayFollow(p, b, w)
    BY Zenon, <1>2, <1>7 DEF MayFollow
  <2> QED BY Zenon, <2>1, <1>2, <1>4, <1>5, <1>9, FramesAppend
<1>11. ~on => EmptyAfter(t, Len(t), w)
  <2>1. Len(t) # 0 /\ ~(Len(t) <= 1) /\ Len(t) - 1 = Len(p) /\ t[Len(t)] = b /\ t[Len(t) - 1] = a
    BY <1>4, <1>6
  <2> QED BY Zenon, <2>1, <1>2 DEF EmptyAfter
<1> QED BY Zenon, <1>2, <1>3, <1>5, <1>7, <1>8, <1>10, <1>11

-----------------------------------------------------------------------------
(* Responses                                                               *)

\* A frame that is no response needs no request.
LEMMA AnswersAppend ==
  ASSUME NEW q \in Seq(Outputs), NEW f \in Outputs, NEW R, Answers(q, R), f.kind # "response"
  PROVE  Answers(Append(q, f), R)
BY Appending DEF Answers

\* A response goes to a request that was not answered before.
LEMMA AnswersResponse ==
  ASSUME NEW q \in Seq(Outputs), NEW f \in Outputs, NEW R, NEW R2, Answers(q, R), R \subseteq R2,
         NEW r \in R2, f.id = r.id, \A x \in R : x.id # r.id
  PROVE  Answers(Append(q, f), R2)
<1> DEFINE a == Append(q, f)
<1>1. /\ Len(a) = Len(q) + 1 /\ Len(q) \in Nat /\ a[Len(q) + 1] = f
      /\ \A i \in 1..Len(q) : a[i] = q[i]
  BY Appending
<1> HIDE DEF a
<1>2. ASSUME NEW k \in 1..Len(a), a[k].kind = "response" PROVE \E x \in R2 : x.id = a[k].id
  <2>1. CASE k \in 1..Len(q)
    BY Zenon, <2>1, <1>1, <1>2 DEF Answers
  <2>2. CASE k = Len(q) + 1
    BY Zenon, <2>2, <1>1
  <2> QED BY <2>1, <2>2, <1>1
<1>3. ASSUME NEW k \in 1..Len(q), q[k].kind = "response" PROVE q[k].id # f.id
  BY Zenon, <1>3 DEF Answers
<1>4. ASSUME NEW k \in 1..Len(a), NEW l \in 1..Len(a), a[k].kind = "response", a[l].kind = "response",
             a[k].id = a[l].id
      PROVE  k = l
  <2>1. CASE k \in 1..Len(q) /\ l \in 1..Len(q)
    BY Zenon, <2>1, <1>1, <1>4 DEF Answers
  <2>2. CASE k \in 1..Len(q) /\ l = Len(q) + 1
    BY Zenon, <2>2, <1>1, <1>3, <1>4
  <2>3. CASE k = Len(q) + 1 /\ l \in 1..Len(q)
    BY Zenon, <2>3, <1>1, <1>3, <1>4
  <2> QED BY <2>1, <2>2, <2>3, <1>1
<1> QED BY Zenon, <1>2, <1>4 DEF Answers, a

\* Reading a frame, and dropping the request it answers, leaves the others answered.
LEMMA AnswersTail ==
  ASSUME NEW q \in Seq(Outputs), q # <<>>, NEW R, Answers(q, R)
  PROVE  /\ Answers(Tail(q), R)
         /\ \A r : Head(q).kind = "response" /\ Head(q).id = r.id => Answers(Tail(q), R \ {r})
<1>1. /\ Head(q) = q[1] /\ Len(q) \in Nat \ {0} /\ Len(Tail(q)) = Len(q) - 1
      /\ \A i \in 1..Len(Tail(q)) : Tail(q)[i] = q[i + 1]
  BY Zenon, HeadAndTail
<1>2. \A i \in 1..Len(Tail(q)) : i + 1 \in 1..Len(q) /\ i + 1 # 1
  BY <1>1
<1>3. Answers(Tail(q), R)
  BY <1>1, <1>2 DEF Answers
<1>4. ASSUME NEW r, Head(q).kind = "response", Head(q).id = r.id PROVE Answers(Tail(q), R \ {r})
  <2>1. \A i \in 1..Len(Tail(q)) : Tail(q)[i].kind = "response" => Tail(q)[i].id # r.id
    BY <1>1, <1>2, <1>4 DEF Answers
  <2> QED BY Zenon, <1>3, <2>1 DEF Answers
<1> QED BY Zenon, <1>3, <1>4

\* More requests, or fewer frames, do no harm.
LEMMA AnswersPrefix ==
  ASSUME NEW p \in Seq(Outputs), NEW t \in Seq(Outputs), NEW R, NEW R2, R \subseteq R2,
         Answers(p \o t, R)
  PROVE  Answers(p, R2)
<1>1. \A i \in 1..Len(p) : i \in 1..Len(p \o t) /\ (p \o t)[i] = p[i]
  OBVIOUS
<1> QED BY Zenon, <1>1 DEF Answers

-----------------------------------------------------------------------------
(* Steps that leave the requests and the frames where they are             *)

\* The requests and their answers do not move.
LEMMA FlowStays ==
  ASSUME FlowOK, UNCHANGED <<stdin, stdout, todo, work, pending>>
  PROVE  FlowOK'
BY DEF FlowOK, Handled, Unread, Answers, Out

\* Start: the first frame tells a window without ports that there is no connection.
LEMMA StartKeeps ==
  ASSUME SideInv, Start
  PROVE  SideInv'
<1>0. Status("disconnected") \in Outputs /\ TellsOf(Status("disconnected"), "disconnected")
  BY Zenon, FrameTypes DEF States
<1>1. /\ stdin = <<>> /\ stdout = <<>> /\ todo = <<>> /\ work = Idle /\ ~session /\ ~terminating
      /\ ~snapshot.ports /\ ~snapshot.stats /\ pending = {} /\ ~failureReported
  BY Zenon DEF SideInv, StageOK, Start
<1>2. SideTypes'
  <2>1. <<Status("disconnected")>> \in Seq(Outputs)
    BY <1>0
  <2>2. todo' \in Seq(Outputs) /\ life' \in {"running", "exited"} /\ child' = "up"
    BY Zenon, <2>1 DEF SideInv, SideTypes, Start
  <2> QED BY <2>2 DEF SideInv, SideTypes, Start
<1>3. StageOK'
  BY Zenon, <1>1 DEF Start, StageOK, terminating, Idle, Poll
<1>4. PendingOK'
  BY Zenon, <1>1 DEF Start, PendingOK
<1>5. FramesOK(<<>>, snapshot) /\ EmptyAfter(<<>>, Len(<<>>), snapshot) /\ <<>> \in Seq(Outputs)
  BY <1>1 DEF FramesOK, EmptyAfter
<1>6. Fits(Append(<<>>, Status("disconnected")), snapshot, "disconnected")
  BY Zenon, <1>0, <1>5, FitsTold
<1>7. CASE todo' = <<Status("disconnected")>>
  <2>1. Out' = Append(<<>>, Status("disconnected"))
    BY <1>0, <1>1, <1>5, <1>7, Blocks DEF Out, Start
  <2>2. Answers(<<>>, Handled') /\ Status("disconnected").kind # "response"
    BY DEF Answers, Status
  <2>3. Answers(Out', Handled')
    BY Zenon, <1>0, <1>5, <2>1, <2>2, AnswersAppend
  <2>4. FlowOK'
    BY <1>1, <2>3 DEF FlowOK, Start, Idle, Commands, Controls
  <2>5. ShownOK'
    BY <1>1, <1>6, <2>1 DEF SideInv, ShownOK, Start, terminating, stopping, Fits, WindowStates, States
  <2> QED BY Zenon, <1>2, <1>3, <1>4, <2>4, <2>5 DEF SideInv
<1>8. CASE life' = "exited" /\ UNCHANGED todo
  <2>1. Out' = <<>>
    BY <1>1, <1>8 DEF Out, Start
  <2>2. FlowOK'
    BY <1>1, <2>1 DEF FlowOK, Answers, Start, Idle, Commands, Controls
  <2>3. ShownOK'
    BY Zenon, <1>1, <1>5, <1>8, <2>1 DEF SideInv, ShownOK, Start, terminating, stopping
  <2> QED BY Zenon, <1>2, <1>3, <1>4, <2>2, <2>3 DEF SideInv
<1> QED BY Zenon, <1>7, <1>8 DEF Start

\* StartThrows: main shows the error itself.
LEMMA StartThrowsKeeps ==
  ASSUME SideInv, StartThrows
  PROVE  SideInv'
<1>1. FailedSnapshot \in Windows /\ ~FailedSnapshot.ports /\ ~FailedSnapshot.stats
      /\ FailedSnapshot.state = "error"
  BY Zenon DEF FailedSnapshot, Windows, WindowStates, States
<1>2. SideTypes'
  BY <1>1 DEF SideInv, SideTypes, StartThrows, CtlIdle, ctlVars
<1>3. StageOK'
  BY Zenon, <1>1 DEF SideInv, StageOK, StartThrows, CtlIdle, ctlVars, terminating
<1>4. PendingOK'
  BY Zenon DEF SideInv, PendingOK, StartThrows
<1>5. ShownOK'
  BY Zenon, <1>1 DEF ShownOK, WindowOK, StartThrows
<1> QED BY Zenon, <1>2, <1>3, <1>4, <1>5 DEF SideInv, StartThrows

\* What reporting a failure and terminating do to the window.
LEMMA FailShows ==
  ASSUME SideInv, child # "none", ReportFailure, Terminate, UNCHANGED <<stop, child>>
  PROVE  /\ snapshot' \in Windows /\ failureReported' \in BOOLEAN /\ terminating'
         /\ termination' \in {"term", "kill", "done"} /\ stopped' \in BOOLEAN
         /\ ShownOK'
<1>1. FailedSnapshot \in Windows /\ ~FailedSnapshot.ports /\ ~FailedSnapshot.stats
      /\ FailedSnapshot.state = "error"
  BY Zenon DEF FailedSnapshot, Windows, WindowStates, States
<1>2. snapshot' \in Windows /\ failureReported' \in BOOLEAN
  BY Zenon, <1>1 DEF SideInv, SideTypes, ReportFailure
<1>3. termination' \in {"term", "kill", "done"} /\ stopped' \in BOOLEAN /\ terminating'
  BY Zenon DEF SideInv, SideTypes, Terminate, terminating
<1>4. WindowOK(snapshot')
  BY Zenon, <1>1 DEF SideInv, ShownOK, ReportFailure, WindowOK
<1>5. ~stopping' => snapshot'.state = "error"
  BY Zenon, <1>1 DEF SideInv, StageOK, ShownOK, ReportFailure, stopping
<1> QED BY Zenon, <1>2, <1>3, <1>4, <1>5 DEF ShownOK

\* A failed write and a deadline leave everything pending.
LEMMA FailKeeps ==
  ASSUME SideInv, WriteFails \/ Deadline
  PROVE  SideInv'
<1>1. child = "up"
  BY Zenon DEF SideInv, SideTypes, StageOK, WriteFails, Deadline
<1>2. /\ ReportFailure /\ Terminate
      /\ UNCHANGED <<stop, child, life, session, work, todo, stdin, stdout, nextId, pending,
                     controlInFlight>>
  BY Zenon DEF WriteFails, Deadline, Fail
<1>3. /\ snapshot' \in Windows /\ failureReported' \in BOOLEAN /\ terminating'
      /\ termination' \in {"term", "kill", "done"} /\ stopped' \in BOOLEAN
      /\ ShownOK'
  BY Zenon, <1>1, <1>2, FailShows
<1>4. SideTypes'
  BY <1>2, <1>3 DEF SideInv, SideTypes
<1>5. StageOK'
  BY Zenon, <1>1, <1>2, <1>3 DEF SideInv, StageOK
<1>6. PendingOK'
  BY Zenon, <1>2 DEF SideInv, PendingOK
<1>7. FlowOK'
  BY Zenon, <1>1, <1>2, FlowStays DEF SideInv
<1> QED BY Zenon, <1>3, <1>4, <1>5, <1>6, <1>7 DEF SideInv

\* The waits of terminate() and stop().
LEMMA GraceKeeps ==
  ASSUME SideInv, TermGrace \/ StopGrace
  PROVE  SideInv'
<1>1. child # "none"
  BY Zenon DEF SideInv, StageOK, TermGrace, StopGrace, terminating
<1>2. /\ UNCHANGED <<child, life, session, work, todo, stdin, stdout, nextId, pending,
                     controlInFlight, failureReported, snapshot>>
      /\ terminating' /\ termination' \in {"term", "kill", "done"} /\ stopped' \in BOOLEAN
      /\ \/ UNCHANGED stop /\ terminating
         \/ stop = "grace" /\ stop' = "terminate"
  BY Zenon DEF SideInv, SideTypes, TermGrace, StopGrace, Terminate, terminating
<1>3. SideTypes'
  BY <1>2 DEF SideInv, SideTypes
<1>4. StageOK'
  BY Zenon, <1>1, <1>2 DEF SideInv, StageOK
<1>5. PendingOK'
  BY Zenon, <1>2 DEF SideInv, PendingOK
<1>6. child = "up" => FlowOK'
  BY Zenon, <1>2, FlowStays DEF SideInv
<1>7. ShownOK'
  BY Zenon, <1>2 DEF SideInv, ShownOK, stopping
<1> QED BY Zenon, <1>2, <1>3, <1>4, <1>5, <1>6, <1>7 DEF SideInv

\* settleTerminal(), by close or by the wait after SIGKILL.
LEMMA SettleKeeps ==
  ASSUME SideInv, OnClose \/ KillGrace
  PROVE  SideInv'
<1>1. FailedSnapshot \in Windows /\ ~FailedSnapshot.ports /\ ~FailedSnapshot.stats
      /\ FailedSnapshot.state = "error"
  BY Zenon DEF FailedSnapshot, Windows, WindowStates, States
<1>2. SettleTerminal /\ UNCHANGED <<life, session, stopped, work, todo, stdin, stdout>>
  BY Zenon DEF OnClose, KillGrace, CtlIdle, ctlVars
<1>3. terminating \/ (life = "exited" /\ stdout = <<>>)
  BY Zenon DEF OnClose, KillGrace, terminating
<1>4. terminating' <=> terminating
  BY Zenon, <1>2 DEF SettleTerminal, terminating
<1>5. SideTypes'
  BY ZenonT(30), <1>1, <1>2 DEF SideInv, SideTypes, SettleTerminal, stopping
<1>6. StageOK'
  BY Zenon, <1>2, <1>3, <1>4 DEF SideInv, StageOK, SettleTerminal
<1>7. PendingOK'
  BY Zenon, <1>2 DEF PendingOK, SettleTerminal
<1>8. ShownOK'
  BY Zenon, <1>1, <1>2, <1>4 DEF SideInv, ShownOK, SettleTerminal, WindowOK, stopping
<1> QED BY Zenon, <1>2, <1>5, <1>6, <1>7, <1>8 DEF SideInv, SettleTerminal

-----------------------------------------------------------------------------
(* Requests                                                                *)

\* A new request has a new id, and is in the pipe or nowhere.
LEMMA SendFlows ==
  ASSUME SideInv, FlowOK, NEW cmd \in Commands, SendRequest(cmd), nextId <= MaxIds,
         UNCHANGED <<stdout, todo, work>>
  PROVE  /\ FlowOK' /\ pending' \subseteq Requests /\ stdin' \in Seq(Requests)
         /\ nextId' = nextId + 1 /\ pending' = pending \cup {[id |-> nextId, cmd |-> cmd]}
<1>1. PICK r : r = [id |-> nextId, cmd |-> cmd]
  BY Zenon
<1>2. /\ r \in Requests /\ r.id = nextId
      /\ nextId' = nextId + 1 /\ pending' = pending \cup {r}
      /\ stdin' = Append(stdin, r) \/ stdin' = stdin
  BY <1>1, ControllerAssumption DEF SendRequest, SideInv, SideTypes, Requests, Ids
<1>3. r \notin pending
  BY <1>2 DEF SideInv, SideTypes, PendingOK
<1>4. /\ \A i \in 1..Len(stdin) : stdin[i] \in pending
      /\ \A i, j \in 1..Len(stdin) : stdin[i] = stdin[j] => i = j
      /\ work.cmd \in Commands => work \in pending /\ ~Unread(work)
      /\ Answers(Out, Handled) /\ stdin \in Seq(Requests)
  BY Zenon DEF SideInv, SideTypes, FlowOK
<1>5. /\ stdin' \in Seq(Requests)
      /\ \A i \in 1..Len(stdin') : stdin'[i] \in pending'
      /\ \A i, j \in 1..Len(stdin') : stdin'[i] = stdin'[j] => i = j
      /\ \A x \in pending : Unread(x)' => Unread(x)
  <2>1. CASE stdin' = Append(stdin, r)
    <3>1. /\ stdin' \in Seq(Requests) /\ Len(stdin') = Len(stdin) + 1 /\ Len(stdin) \in Nat
          /\ stdin'[Len(stdin) + 1] = r
          /\ \A i \in 1..Len(stdin) : stdin'[i] = stdin[i]
      BY <1>2, <1>4, <2>1, Appending
    <3>2. \A i \in 1..Len(stdin') : i \in 1..Len(stdin) \/ i = Len(stdin) + 1
      BY <3>1
    <3>3. \A i \in 1..Len(stdin') : stdin'[i] \in pending'
      BY Zenon, <3>1, <3>2, <1>2, <1>4
    <3>4. \A i, j \in 1..Len(stdin') : stdin'[i] = stdin'[j] => i = j
      BY Zenon, <3>1, <3>2, <1>3, <1>4
    <3>5. \A x \in pending : Unread(x)' => Unread(x)
      BY Zenon, <3>1, <3>2, <1>3 DEF Unread
    <3> QED BY Zenon, <3>1, <3>3, <3>4, <3>5
  <2>2. CASE stdin' = stdin
    BY Zenon, <2>2, <1>2, <1>4 DEF Unread
  <2> QED BY Zenon, <1>2, <2>1, <2>2
<1>6. Handled \subseteq Handled'
  BY Zenon, <1>2, <1>5 DEF Handled
<1>7. Answers(Out', Handled')
  <2>1. Out' = Out
    BY Zenon DEF Out
  <2> QED BY Zenon, <1>4, <1>6, <2>1 DEF Answers
<1>8. work'.cmd \in Commands => work' \in pending' /\ ~Unread(work)'
  BY Zenon, <1>2, <1>4, <1>5 DEF Unread
<1> QED BY Zenon, <1>1, <1>2, <1>5, <1>7, <1>8 DEF FlowOK, SideInv, SideTypes

\* Command: no control request was pending, so the new one is the only one.
LEMMA CommandKeeps ==
  ASSUME SideInv, NEW cmd \in Controls, Command(cmd)
  PROVE  SideInv'
<1>1. /\ child = "up" /\ ~terminating /\ ~controlInFlight /\ nextId < MaxIds
      /\ controlInFlight' = TRUE /\ SendRequest(cmd)
      /\ UNCHANGED <<life, stopped, session, work, todo, stdout, child, failureReported,
                     termination, stop, snapshot>>
  BY Zenon DEF Command, CtlPipes
<1>2. cmd \in Commands /\ cmd # "shutdown" /\ nextId \in Nat /\ MaxIds \in Nat
  BY Zenon, ControllerAssumption DEF Commands, Controls, SideInv, SideTypes
<1>3. /\ FlowOK' /\ pending' \subseteq Requests /\ stdin' \in Seq(Requests)
      /\ nextId' = nextId + 1 /\ pending' = pending \cup {[id |-> nextId, cmd |-> cmd]}
  BY <1>1, <1>2, SendFlows DEF SideInv
<1>4. SideTypes'
  BY <1>1, <1>2, <1>3 DEF SideInv, SideTypes
<1>5. StageOK'
  BY Zenon, <1>1 DEF SideInv, StageOK, terminating
<1>6. PendingOK'
  <2>1. PICK r : r = [id |-> nextId, cmd |-> cmd]
    BY Zenon
  <2>2. r.id = nextId /\ r.cmd = cmd /\ pending' = pending \cup {r}
    BY Zenon, <1>3, <2>1
  <2>3. \A x \in pending : x.id \in Nat /\ x.id < nextId /\ x.cmd \notin Controls /\ (x.cmd = "shutdown" => stop # "no")
    BY <1>1 DEF SideInv, SideTypes, PendingOK, Requests, Ids
  <2>4. \A x \in pending : ~SameSort(x, r) /\ ~SameSort(r, x) /\ x.id # r.id
    BY <2>2, <2>3, <1>2 DEF SameSort
  <2>5. \A x, y \in pending : x.id = y.id \/ SameSort(x, y) => x = y
    BY Zenon DEF SideInv, PendingOK
  <2>6. \A x, y \in pending' : x.id = y.id \/ SameSort(x, y) => x = y
    BY <2>2, <2>4, <2>5
  <2>7. \A x \in pending' : /\ x.id < nextId' /\ (x.cmd \in Controls => controlInFlight')
                            /\ (x.cmd = "shutdown" => stop' # "no")
    BY <1>1, <1>2, <1>3, <2>2, <2>3
  <2> QED BY Zenon, <2>6, <2>7 DEF PendingOK
<1>7. ShownOK'
  <2>1. Out' = Out
    BY Zenon, <1>1 DEF Out
  <2> QED BY Zenon, <1>1, <2>1 DEF SideInv, ShownOK, terminating, stopping
<1> QED BY Zenon, <1>3, <1>4, <1>5, <1>6, <1>7 DEF SideInv

\* StopBegin: the one shutdown request, or none.
LEMMA StopBeginKeeps ==
  ASSUME SideInv, StopBegin
  PROVE  SideInv'
<1>1. /\ stop = "no" /\ stop' \in {"shutdown", "grace", "done"} /\ (child = "none" => stop' = "done")
      /\ UNCHANGED <<life, stopped, session, work, todo, stdout, child, controlInFlight,
                     failureReported, termination, snapshot>>
  BY Zenon DEF StopBegin, CtlPipes
<1>2. /\ StageOK' \/ child = "none"
      /\ ShownOK'
  <2>1. Out' = Out
    BY Zenon, <1>1 DEF Out
  <2>2. ShownOK'
    BY Zenon, <1>1, <2>1 DEF SideInv, ShownOK, terminating, stopping
  <2>3. CASE child # "none"
    <3>1. child # "up" => pending' = pending
      BY Zenon DEF StopBegin
    <3> QED BY Zenon, <1>1, <2>2, <2>3, <3>1 DEF SideInv, StageOK, terminating
  <2> QED BY Zenon, <2>2, <2>3
<1>3. CASE UNCHANGED <<nextId, pending, lost, stdin>>
  <2>1. SideTypes'
    BY <1>1, <1>3 DEF SideInv, SideTypes
  <2>2. PendingOK'
    BY Zenon, <1>1, <1>3 DEF SideInv, PendingOK
  <2>3. child = "up" => FlowOK'
    BY Zenon, <1>1, <1>3, FlowStays DEF SideInv
  <2>4. StageOK'
    BY Zenon, <1>1, <1>3 DEF SideInv, StageOK, terminating
  <2> QED BY Zenon, <1>1, <1>2, <2>1, <2>2, <2>3, <2>4 DEF SideInv
<1>4. CASE child = "up" /\ stop' = "shutdown" /\ SendRequest("shutdown")
  <2>1. "shutdown" \in Commands /\ nextId \in Nat /\ nextId <= MaxIds
    BY Zenon, <1>1 DEF Commands, SideInv, SideTypes
  <2>2. /\ FlowOK' /\ pending' \subseteq Requests /\ stdin' \in Seq(Requests)
        /\ nextId' = nextId + 1 /\ pending' = pending \cup {[id |-> nextId, cmd |-> "shutdown"]}
    BY Zenon, <1>1, <1>4, <2>1, SendFlows DEF SideInv
  <2>3. SideTypes'
    BY <1>1, <1>4, <2>1, <2>2 DEF SideInv, SideTypes
  <2>4. PICK r : r = [id |-> nextId, cmd |-> "shutdown"]
    BY Zenon
  <2>5. r.id = nextId /\ r.cmd = "shutdown" /\ pending' = pending \cup {r}
    BY Zenon, <2>2, <2>4
  <2>6. \A x \in pending : /\ x.id \in Nat /\ x.id < nextId /\ x.cmd # "shutdown"
                           /\ (x.cmd \in Controls => controlInFlight)
    BY <1>1 DEF SideInv, SideTypes, PendingOK, Requests, Ids
  <2>7. \A x \in pending : ~SameSort(x, r) /\ ~SameSort(r, x) /\ x.id # r.id
    BY <2>1, <2>5, <2>6 DEF SameSort, Controls
  <2>8. \A x, y \in pending : x.id = y.id \/ SameSort(x, y) => x = y
    BY Zenon DEF SideInv, PendingOK
  <2>9. \A x, y \in pending' : x.id = y.id \/ SameSort(x, y) => x = y
    BY <2>5, <2>7, <2>8
  <2>10. \A x \in pending' : /\ x.id < nextId' /\ (x.cmd \in Controls => controlInFlight')
                             /\ (x.cmd = "shutdown" => stop' # "no")
    <3>1. r.cmd \notin Controls
      BY Zenon, <2>5 DEF Controls
    <3> QED BY <1>1, <1>4, <2>1, <2>2, <2>5, <2>6, <3>1
  <2>11. PendingOK'
    BY Zenon, <2>9, <2>10 DEF PendingOK
  <2> QED BY Zenon, <1>2, <1>4, <2>2, <2>3, <2>11 DEF SideInv
<1> QED BY Zenon, <1>3, <1>4 DEF StopBegin

-----------------------------------------------------------------------------
(* Reading a frame                                                         *)

\* controllerEvent() makes the window what Reads says.
LEMMA EventReads ==
  ASSUME snapshot \in Windows, NEW f \in Outputs, f.kind # "response", ControllerEvent(f)
  PROVE  snapshot' \in Windows /\ Reads(snapshot, f, snapshot')
<1>1. /\ f.kind = "status" => f.state \in States
      /\ f.kind \in {"ports", "stats"} => f.on \in BOOLEAN
      /\ f.kind \in {"status", "ports", "stats", "protocolError"}
  BY DEF Outputs, ProtocolError
<1>2. CASE f.kind = "status"
  <2>1. snapshot' = [snapshot EXCEPT !.state = f.state]
    BY Zenon, <1>2 DEF ControllerEvent
  <2> QED BY Zenon, <1>1, <1>2, <2>1 DEF Windows, WindowStates, Reads, TellsOf, Tells
<1>3. CASE f.kind = "ports"
  <2>1. snapshot' = [snapshot EXCEPT !.ports = f.on]
    BY Zenon, <1>3 DEF ControllerEvent
  <2> QED BY Zenon, <1>1, <1>3, <2>1 DEF Windows, Reads, TellsOf, Tells
<1>4. CASE f.kind = "stats"
  <2>1. snapshot' = [snapshot EXCEPT !.stats = f.on]
    BY Zenon, <1>4 DEF ControllerEvent
  <2> QED BY Zenon, <1>1, <1>4, <2>1 DEF Windows, Reads, TellsOf, Tells
<1>5. CASE f.kind = "protocolError"
  <2>1. snapshot' = FailedSnapshot
    BY Zenon, <1>5 DEF ControllerEvent
  <2> QED BY Zenon, <1>5, <2>1 DEF FailedSnapshot, Windows, WindowStates, States, Reads, TellsOf, Tells
<1> QED BY Zenon, <1>1, <1>2, <1>3, <1>4, <1>5

\* What the window shows after a frame that it read while nothing was wrong.
LEMMA ReadShows ==
  ASSUME SideInv, child = "up", ~terminating, stdout # <<>>, stdout' = Tail(stdout),
         UNCHANGED <<todo, child, termination, life, work, session, stopped>>,
         Reads(snapshot, Head(stdout), snapshot')
  PROVE  ShownOK'
<1>1. /\ Out \in Seq(Outputs) /\ Out # <<>> /\ Head(Out) = Head(stdout) /\ Out' = Tail(Out)
  BY ZenonT(30), ReadTakesHead DEF SideInv, SideTypes, Out
<1>2. PICK w, v : w = snapshot /\ v = snapshot'
  BY Zenon
<1>3. FramesOK(Tail(Out), v) /\ WindowOK(v)
  BY Zenon, <1>1, <1>2, FramesTail DEF SideInv, ShownOK
<1>4. Len(Out) \in 1..Len(Out) /\ Len(Tail(Out)) = Len(Out) - 1
  BY <1>1, HeadAndTail
<1>5. \A s : ShowsAfter(Out, Len(Out), w, s) => ShowsAfter(Tail(Out), Len(Tail(Out)), v, s)
  BY Zenon, <1>1, <1>2, <1>4, ShowsTail
<1>6. ~terminating' /\ child' # "gone"
  BY Zenon DEF terminating
<1> QED BY Zenon, <1>1, <1>2, <1>3, <1>5, <1>6 DEF SideInv, ShownOK

\* OnStdout: the four things main may do with a frame.
LEMMA OnStdoutKeeps ==
  ASSUME SideInv, OnStdout
  PROVE  SideInv'
<1>1. /\ child # "none" /\ stdout # <<>> /\ stdout' = Tail(stdout)
      /\ UNCHANGED <<life, session, work, todo, stdin, child, nextId>>
  BY Zenon DEF OnStdout
<1>2. /\ Out \in Seq(Outputs) /\ Out # <<>> /\ Head(Out) = Head(stdout) /\ Out' = Tail(Out)
      /\ Head(stdout) \in Outputs /\ stdout' \in Seq(Outputs)
  <2>1. Head(stdout) \in Outputs /\ Tail(stdout) \in Seq(Outputs)
    BY Zenon, <1>1, HeadAndTail DEF SideInv, SideTypes
  <2>2. /\ Out \in Seq(Outputs) /\ Out # <<>> /\ Head(Out) = Head(stdout)
        /\ Tail(stdout) \o todo = Tail(Out)
    BY SMTT(30), <1>1, ReadTakesHead DEF SideInv, SideTypes, Out
  <2> QED BY Zenon, <1>1, <2>1, <2>2 DEF Out
<1>3. ~terminating => child = "up"
  BY Zenon, <1>1 DEF SideInv, SideTypes, StageOK
<1>4. ASSUME child = "up", UNCHANGED pending PROVE FlowOK'
  <2>1. Handled' = Handled
    BY Zenon, <1>1, <1>4 DEF Handled, Unread
  <2>2. Answers(Out', Handled')
    BY Zenon, <1>2, <1>4, <2>1, AnswersTail DEF SideInv, FlowOK
  <2> QED BY Zenon, <1>1, <1>4, <2>2 DEF SideInv, FlowOK, Unread
<1>5. CASE terminating
  <2>1. UNCHANGED <<pending, controlInFlight, stop, snapshot, failureReported, termination, stopped>>
    BY Zenon, <1>5 DEF OnStdout
  <2>2. SideTypes'
    BY SMTT(30), <1>1, <1>2, <2>1 DEF SideInv, SideTypes
  <2>3. StageOK' /\ ShownOK'
    BY Zenon, <1>1, <1>5, <2>1 DEF SideInv, StageOK, ShownOK, terminating, stopping
  <2>4. PendingOK'
    BY Zenon, <1>1, <2>1 DEF SideInv, PendingOK
  <2> QED BY Zenon, <1>1, <1>4, <2>1, <2>2, <2>3, <2>4 DEF SideInv
<1>6. CASE ~terminating /\ Head(stdout).kind # "response"
  <2>1. /\ ControllerEvent(Head(stdout))
        /\ UNCHANGED <<pending, controlInFlight, stop, failureReported, termination, stopped>>
    BY Zenon, <1>6 DEF OnStdout
  <2>2. snapshot' \in Windows /\ Reads(snapshot, Head(stdout), snapshot')
    BY Zenon, <1>2, <1>6, <2>1, EventReads DEF SideInv, SideTypes
  <2>3. ShownOK'
    BY Zenon, <1>1, <1>3, <1>6, <2>1, <2>2, ReadShows
  <2>4. SideTypes'
    BY <1>1, <1>2, <2>1, <2>2 DEF SideInv, SideTypes
  <2>5. StageOK'
    BY Zenon, <1>1, <1>3, <1>6, <2>1 DEF SideInv, StageOK, terminating
  <2>6. PendingOK'
    BY Zenon, <1>1, <2>1 DEF SideInv, PendingOK
  <2> QED BY Zenon, <1>3, <1>4, <1>6, <2>1, <2>3, <2>4, <2>5, <2>6 DEF SideInv
<1>7. CASE ~terminating /\ Head(stdout).kind = "response"
           /\ {r \in pending : r.id = Head(stdout).id} = {}
  <2>1. ReportFailure /\ Terminate /\ UNCHANGED <<pending, controlInFlight, stop>>
    BY Zenon, <1>7 DEF OnStdout
  <2>2. /\ snapshot' \in Windows /\ failureReported' \in BOOLEAN /\ terminating'
        /\ termination' \in {"term", "kill", "done"} /\ stopped' \in BOOLEAN
        /\ ShownOK'
    BY Zenon, <1>1, <2>1, FailShows
  <2>3. SideTypes'
    BY SMTT(30), <1>1, <1>2, <2>1, <2>2 DEF SideInv, SideTypes
  <2>4. StageOK'
    BY Zenon, <1>1, <1>3, <1>7, <2>1, <2>2 DEF SideInv, StageOK
  <2>5. PendingOK'
    BY Zenon, <1>1, <2>1 DEF SideInv, PendingOK
  <2> QED BY Zenon, <1>3, <1>4, <1>7, <2>1, <2>2, <2>3, <2>4, <2>5 DEF SideInv
<1>8. ASSUME ~terminating, Head(stdout).kind = "response",
             NEW r \in pending, r.id = Head(stdout).id, Resolve(r),
             UNCHANGED <<snapshot, failureReported, termination, stopped>>
      PROVE  SideInv'
  <2>1. /\ pending' = pending \ {r} /\ controlInFlight' = (controlInFlight /\ r.cmd = "shutdown")
        /\ stop' = IF r.cmd = "shutdown" THEN "grace" ELSE stop
    BY Zenon, <1>8 DEF Resolve
  <2>2. SideTypes'
    BY SMTT(30), <1>1, <1>2, <1>8, <2>1 DEF SideInv, SideTypes
  <2>3. StageOK'
    BY Zenon, <1>1, <1>3, <1>8, <2>1 DEF SideInv, StageOK, terminating
  <2>4. Reads(snapshot, Head(stdout), snapshot')
    BY Zenon, <1>8 DEF Reads, Tells, TellsOf
  <2>5. ShownOK'
    BY Zenon, <1>1, <1>3, <1>8, <2>4, ReadShows
  <2>6. r.cmd \in Controls \/ r.cmd = "shutdown"
    BY Zenon DEF SideInv, SideTypes, Requests, Commands
  <2>7. ASSUME NEW x \in pending', x.cmd \in Controls PROVE controlInFlight'
    <3>1. x \in pending /\ x # r /\ controlInFlight
      BY Zenon, <2>1, <2>7 DEF SideInv, PendingOK
    <3>2. r.cmd \notin Controls
      BY Zenon, <3>1, <2>7 DEF SideInv, PendingOK, SameSort
    <3> QED BY ZenonT(30), <2>1, <2>6, <3>1, <3>2
  <2>8. PendingOK'
    <3>1. \A x \in pending' : x \in pending /\ x.id < nextId' /\ (x.cmd = "shutdown" => stop' # "no")
      BY Zenon, <1>1, <2>1 DEF SideInv, PendingOK
    <3>2. \A x, y \in pending' : x.id = y.id \/ SameSort(x, y) => x = y
      BY Zenon, <3>1 DEF SideInv, PendingOK
    <3> QED BY Zenon, <2>7, <3>1, <3>2 DEF PendingOK
  <2>9. FlowOK'
    <3>1. Len(Out) \in Nat \ {0} /\ Out[1] = Head(stdout)
      BY Zenon, <1>2, HeadAndTail
    <3>2. PICK h \in Handled : h.id = r.id
      BY <1>3, <1>8, <3>1 DEF SideInv, FlowOK, Answers
    <3>3. h = r /\ ~Unread(r) /\ work # r
      BY Zenon, <3>2 DEF Handled, SideInv, PendingOK
    <3>4. Handled' = Handled \ {r}
      BY Zenon, <1>1, <2>1 DEF Handled, Unread
    <3>5. Answers(Out', Handled')
      BY Zenon, <1>2, <1>3, <1>8, <3>4, AnswersTail DEF SideInv, FlowOK
    <3>6. \A i \in 1..Len(stdin') : stdin'[i] \in pending'
      BY Zenon, <1>1, <1>3, <1>8, <2>1, <3>3 DEF SideInv, FlowOK, Unread
    <3> QED BY Zenon, <1>1, <1>3, <1>8, <2>1, <3>3, <3>5, <3>6 DEF SideInv, FlowOK, Unread
  <2> QED BY Zenon, <2>2, <2>3, <2>5, <2>8, <2>9 DEF SideInv
<1> QED
  <2>1. CASE ~terminating /\ Head(stdout).kind = "response"
             /\ {r \in pending : r.id = Head(stdout).id} # {}
    <3>1. \E r \in {x \in pending : x.id = Head(stdout).id} :
            Resolve(r) /\ UNCHANGED <<snapshot, failureReported, termination, stopped>>
      BY Zenon, <2>1 DEF OnStdout
    <3> QED BY Zenon, <2>1, <3>1, <1>8
  <2> QED BY Zenon, <1>5, <1>6, <1>7, <2>1

-----------------------------------------------------------------------------
(* Steps of the controller                                                 *)

\* The blocks of frames a handler writes.
LEMMA ToldBlock ==
  ASSUME NEW q \in Seq(Outputs), NEW x \in {"connecting", "connected"}
  PROVE  /\ <<Status(x)>> \in Seq(Outputs) /\ q \o <<Status(x)>> = Append(q, Status(x))
         /\ Append(q, Status(x)) \in Seq(Outputs)
         /\ \A w : FramesOK(q, w) => Fits(Append(q, Status(x)), w, x)
         /\ \A R : Answers(q, R) => Answers(Append(q, Status(x)), R)
<1>1. PICK f : f = Status(x)
  BY Zenon
<1>2. f \in Outputs /\ TellsOf(f, x) /\ f.kind = "status"
  BY Zenon, <1>1, FrameTypes DEF States
<1>3. <<f>> \in Seq(Outputs) /\ q \o <<f>> = Append(q, f) /\ Append(q, f) \in Seq(Outputs)
  BY <1>2, Blocks
<1>4. ASSUME NEW w, FramesOK(q, w) PROVE Fits(Append(q, f), w, x)
  BY Zenon, <1>2, <1>4, FitsTold
<1>5. ASSUME NEW R, Answers(q, R) PROVE Answers(Append(q, f), R)
  BY Zenon, <1>2, <1>5, AnswersAppend
<1> QED BY Zenon, <1>1, <1>3, <1>4, <1>5

\* The frames of ports(), with up to two frames behind them.
LEMMA PortsBlock ==
  ASSUME NEW q \in Seq(Outputs), NEW on \in BOOLEAN
  PROVE  \E t \in Seq(Outputs) :
           /\ Ports(on) \in Seq(Outputs) /\ q \o Ports(on) = t
           /\ \A f \in Outputs :
                Ports(on) \o <<f>> \in Seq(Outputs) /\ q \o (Ports(on) \o <<f>>) = Append(t, f)
           /\ \A f, g \in Outputs :
                /\ Ports(on) \o <<f, g>> \in Seq(Outputs)
                /\ q \o (Ports(on) \o <<f, g>>) = Append(Append(t, f), g)
           /\ \A w : FramesOK(q, w) /\ (on => ShowsAfter(q, Len(q), w, "connected")) =>
                /\ FramesOK(t, w) /\ (~on => EmptyAfter(t, Len(t), w))
                /\ \A s : ShowsAfter(q, Len(q), w, s) => ShowsAfter(t, Len(t), w, s)
           /\ \A R : Answers(q, R) => Answers(t, R)
<1>1. PICK a, b \in Outputs : /\ Ports(on) = <<a, b>>
                              /\ a.kind = "ports" /\ b.kind = "stats" /\ a.on = on /\ b.on = on
  BY Zenon, PortsFrames
<1>2. PICK t : t = Append(Append(q, a), b)
  BY Zenon
<1>3. /\ t \in Seq(Outputs) /\ Append(q, a) \in Seq(Outputs)
      /\ Ports(on) \in Seq(Outputs) /\ q \o Ports(on) = t
  BY <1>1, <1>2, Blocks
<1>4. ASSUME NEW f \in Outputs
      PROVE  Ports(on) \o <<f>> \in Seq(Outputs) /\ q \o (Ports(on) \o <<f>>) = Append(t, f)
  <2>1. <<f>> \in Seq(Outputs) /\ t \o <<f>> = Append(t, f)
    BY <1>3, Blocks
  <2> QED BY <1>3, <2>1, Associative
<1>5. ASSUME NEW f \in Outputs, NEW g \in Outputs
      PROVE  /\ Ports(on) \o <<f, g>> \in Seq(Outputs)
             /\ q \o (Ports(on) \o <<f, g>>) = Append(Append(t, f), g)
  <2>1. PICK u : u = <<f, g>>
    BY Zenon
  <2>2. u \in Seq(Outputs) /\ t \o u = Append(Append(t, f), g)
    BY <1>3, <2>1, Blocks
  <2>3. Ports(on) \in Seq(Outputs) /\ u \in Seq(Outputs)
    BY Zenon, <1>3, <2>2
  <2>4. ASSUME NEW x \in Seq(Outputs), NEW y \in Seq(Outputs)
        PROVE  x \o y \in Seq(Outputs) /\ q \o (x \o y) = (q \o x) \o y
    BY SMTT(30), Associative
  <2>5. Ports(on) \o u \in Seq(Outputs) /\ q \o (Ports(on) \o u) = (q \o Ports(on)) \o u
    BY Zenon, <2>3, <2>4
  <2> QED BY Zenon, <1>3, <2>1, <2>2, <2>5
<1>6. ASSUME NEW w, FramesOK(q, w), on => ShowsAfter(q, Len(q), w, "connected")
      PROVE  /\ FramesOK(t, w) /\ (~on => EmptyAfter(t, Len(t), w))
             /\ \A s : ShowsAfter(q, Len(q), w, s) => ShowsAfter(t, Len(t), w, s)
  BY Zenon, <1>1, <1>2, <1>6, FitsPorts
<1>7. ASSUME NEW R, Answers(q, R) PROVE Answers(t, R)
  BY Zenon, <1>1, <1>2, <1>3, <1>7, AnswersAppend
<1> QED BY Zenon, <1>3, <1>4, <1>5, <1>6, <1>7

\* The connection is ended: ports(), then the status.
LEMMA EndedBlock ==
  ASSUME NEW q \in Seq(Outputs), NEW x \in {"disconnected", "error"}
  PROVE  \E t \in Seq(Outputs) :
           /\ Ports(FALSE) \o <<Status(x)>> \in Seq(Outputs)
           /\ q \o (Ports(FALSE) \o <<Status(x)>>) = t
           /\ \A f \in Outputs :
                /\ Ports(FALSE) \o <<Status(x), f>> \in Seq(Outputs)
                /\ q \o (Ports(FALSE) \o <<Status(x), f>>) = Append(t, f)
           /\ \A w : FramesOK(q, w) => Fits(t, w, x)
           /\ \A R : Answers(q, R) => Answers(t, R)
<1>1. PICK e : e = Status(x)
  BY Zenon
<1>2. e \in Outputs /\ TellsOf(e, x) /\ e.kind = "status"
  BY Zenon, <1>1, FrameTypes DEF States
<1>3. PICK p \in Seq(Outputs) :
           /\ \A f \in Outputs :
                Ports(FALSE) \o <<f>> \in Seq(Outputs) /\ q \o (Ports(FALSE) \o <<f>>) = Append(p, f)
           /\ \A f, g \in Outputs :
                /\ Ports(FALSE) \o <<f, g>> \in Seq(Outputs)
                /\ q \o (Ports(FALSE) \o <<f, g>>) = Append(Append(p, f), g)
           /\ \A w : FramesOK(q, w) => FramesOK(p, w) /\ EmptyAfter(p, Len(p), w)
           /\ \A R : Answers(q, R) => Answers(p, R)
  BY Zenon, PortsBlock, FALSE \in BOOLEAN
<1>4. PICK t : t = Append(p, e)
  BY Zenon
<1>5. t \in Seq(Outputs)
  BY Zenon, <1>2, <1>4, Appending
<1>6. ASSUME NEW w, FramesOK(q, w) PROVE Fits(t, w, x)
  BY Zenon, <1>2, <1>3, <1>4, <1>6, FitsTold
<1>7. ASSUME NEW R, Answers(q, R) PROVE Answers(t, R)
  BY Zenon, <1>2, <1>3, <1>4, <1>7, AnswersAppend
<1> QED BY ZenonT(30), <1>1, <1>2, <1>3, <1>4, <1>5, <1>6, <1>7

\* The connection is made: the status, then ports().
LEMMA ConnectedBlock ==
  ASSUME NEW q \in Seq(Outputs)
  PROVE  \E t \in Seq(Outputs) :
           /\ \A g \in Outputs :
                /\ (<<Status("connected")>> \o Ports(TRUE)) \o <<g>> \in Seq(Outputs)
                /\ q \o ((<<Status("connected")>> \o Ports(TRUE)) \o <<g>>) = Append(t, g)
           /\ \A w : FramesOK(q, w) => Fits(t, w, "connected")
           /\ \A R : Answers(q, R) => Answers(t, R)
<1>1. PICK a, b : a = <<Status("connected")>> /\ b = Ports(TRUE)
  BY Zenon
<1>2. PICK p : p = q \o a
  BY Zenon
<1>3. /\ a \in Seq(Outputs) /\ p \in Seq(Outputs)
      /\ \A w : FramesOK(q, w) => Fits(p, w, "connected")
      /\ \A R : Answers(q, R) => Answers(p, R)
  BY Zenon, <1>1, <1>2, ToldBlock
<1>4. PICK t \in Seq(Outputs) :
        /\ Ports(TRUE) \in Seq(Outputs)
        /\ \A g \in Outputs :
             Ports(TRUE) \o <<g>> \in Seq(Outputs) /\ p \o (Ports(TRUE) \o <<g>>) = Append(t, g)
        /\ \A w : FramesOK(p, w) /\ ShowsAfter(p, Len(p), w, "connected") =>
             FramesOK(t, w) /\ \A s : ShowsAfter(p, Len(p), w, s) => ShowsAfter(t, Len(t), w, s)
        /\ \A R : Answers(p, R) => Answers(t, R)
  BY Zenon, <1>3, PortsBlock, TRUE \in BOOLEAN
<1>5. b \in Seq(Outputs)
  BY Zenon, <1>1, <1>4
<1>6. ASSUME NEW g \in Outputs
      PROVE  (a \o b) \o <<g>> \in Seq(Outputs) /\ q \o ((a \o b) \o <<g>>) = Append(t, g)
  <2>1. PICK c : c = <<g>> /\ c \in Seq(Outputs)
    <3>1. <<g>> \in Seq(Outputs)
      OBVIOUS
    <3> QED BY Zenon, <3>1
  <2>2. a \in Seq(Outputs) /\ c \in Seq(Outputs)
    BY Zenon, <1>3, <2>1
  <2>3. (a \o b) \o c \in Seq(Outputs) /\ q \o ((a \o b) \o c) = (q \o a) \o (b \o c)
    <3>1. b \o c \in Seq(Outputs) /\ a \o (b \o c) = (a \o b) \o c
      BY SMTT(30), <1>5, <2>2, Associative
    <3>2. PICK d : d = b \o c
      BY Zenon
    <3>3. d \in Seq(Outputs)
      BY Zenon, <3>1, <3>2
    <3>4. a \o d \in Seq(Outputs) /\ q \o (a \o d) = (q \o a) \o d
      BY SMTT(30), <2>2, <3>3, Associative
    <3> QED BY Zenon, <3>1, <3>2, <3>4
  <2>4. p \o (b \o c) = Append(t, g)
    BY Zenon, <1>1, <1>4, <2>1
  <2> QED BY Zenon, <1>2, <2>1, <2>3, <2>4
<1>7. ASSUME NEW w, FramesOK(q, w) PROVE Fits(t, w, "connected")
  BY Zenon, <1>3, <1>4, <1>7 DEF Fits
<1> QED BY Zenon, <1>1, <1>3, <1>4, <1>6, <1>7

\* What a step of the controller has to establish.
LEMMA CtlFrame ==
  ASSUME SideInv, life = "running", UNCHANGED mainVars,
         life' \in {"running", "exited"}, session' \in BOOLEAN, stopped' \in BOOLEAN,
         work' \in Requests \cup {Idle, Poll}, stdin' \in Seq(Requests),
         stdout' \in Seq(Outputs), todo' \in Seq(Outputs),
         work' = Poll => session' /\ todo' = <<>>,
         child = "up" => FlowOK',
         child = "up" /\ ~terminating => FramesOK(Out', snapshot),
         child = "up" /\ ~terminating /\ life' = "running" /\ work'.cmd \notin {"connect", "reconnect"}
           => \E s \in WindowStates :
                /\ ShowsAfter(Out', Len(Out'), snapshot, s)
                /\ session' => s = "connected"
                /\ ~stopped' /\ ~session' => s # "connected"
  PROVE  SideInv'
<1>1. UNCHANGED <<child, nextId, pending, controlInFlight, failureReported, termination, stop, snapshot>>
  BY Zenon DEF mainVars
<1>2. SideTypes'
  BY SMTT(30), <1>1 DEF SideInv, SideTypes
<1>3. StageOK'
  <2>1. child # "none" /\ (child = "gone" => terminating)
    BY Zenon DEF SideInv, StageOK
  <2>2. terminating' = terminating
    BY Zenon, <1>1 DEF terminating
  <2> QED BY Zenon, <1>1, <2>1, <2>2 DEF SideInv, StageOK
<1>4. PendingOK'
  BY Zenon, <1>1 DEF SideInv, PendingOK
<1>5. ShownOK'
  BY Zenon, <1>1 DEF SideInv, ShownOK, terminating, stopping
<1> QED BY Zenon, <1>1, <1>2, <1>3, <1>4, <1>5 DEF SideInv

\* The requests the controller is done with, when it takes none and finishes none ...
LEMMA NoneTaken ==
  ASSUME SideInv, FlowOK, UNCHANGED <<stdin, pending>>,
         work' = work \/ (work \in {Idle, Poll} /\ work' \in {Idle, Poll})
  PROVE  Handled' = Handled /\ (Answers(Out', Handled') => FlowOK')
<1>1. \A r \in pending : r # Idle /\ r # Poll
  <2>1. Idle.cmd \notin Commands /\ Poll.cmd \notin Commands
    BY Zenon DEF Commands, Controls, Idle, Poll
  <2>2. \A r \in pending : r.cmd \in Commands
    BY Zenon DEF SideInv, SideTypes, Requests
  <2> QED BY Zenon, <2>1, <2>2
<1>2. Handled' = Handled
  BY Zenon, <1>1 DEF Handled, Unread
<1>3. work'.cmd \in Commands => work' = work
  BY DEF Commands, Controls, Idle, Poll
<1>4. (work'.cmd \in Commands => work' \in pending' /\ ~Unread(work)')
  BY Zenon, <1>3 DEF FlowOK, Unread
<1> QED BY Zenon, <1>2, <1>4 DEF FlowOK

\* ... when it takes the next one ...
LEMMA OneTaken ==
  ASSUME SideInv, FlowOK, stdin # <<>>, work = Idle, stdin' = Tail(stdin), UNCHANGED pending,
         work' \in {Idle, Head(stdin)}
  PROVE  /\ Head(stdin) \in Requests /\ stdin' \in Seq(Requests)
         /\ Handled \subseteq Handled' /\ (work' = Idle => Head(stdin) \in Handled')
         /\ \A x \in Handled : x.id # Head(stdin).id
         /\ Answers(Out', Handled') => FlowOK'
<1>1. PICK r : r = Head(stdin)
  BY Zenon
<1>2. /\ r \in Requests /\ r = stdin[1] /\ stdin' \in Seq(Requests)
      /\ Len(stdin) \in Nat \ {0} /\ Len(stdin') = Len(stdin) - 1
      /\ \A i \in 1..Len(stdin') : stdin'[i] = stdin[i + 1]
  BY Zenon, <1>1, HeadAndTail DEF SideInv, SideTypes
<1>3. r \in pending /\ r # Idle /\ Unread(r)
  BY <1>2 DEF FlowOK, Unread, Requests, Commands, Controls, Idle
<1>4. \A i \in 1..Len(stdin') : i + 1 \in 1..Len(stdin) /\ i + 1 # 1
  BY <1>2
<1>5. /\ \A i \in 1..Len(stdin') : stdin'[i] \in pending' /\ stdin'[i] # r
      /\ \A i, j \in 1..Len(stdin') : stdin'[i] = stdin'[j] => i = j
  BY <1>2, <1>4 DEF FlowOK
<1>6. \A x : Unread(x)' => Unread(x) /\ x # r
  BY <1>2, <1>4, <1>5 DEF Unread
<1>7. \A x \in pending : x # r => (Unread(x)' <=> Unread(x))
  <2> SUFFICES ASSUME NEW x \in pending, x # r, Unread(x) PROVE Unread(x)'
    BY Zenon, <1>6
  <2>1. PICK i \in 1..Len(stdin) : stdin[i] = x
    BY Zenon DEF Unread
  <2>2. i # 1 /\ i - 1 \in 1..Len(stdin') /\ stdin'[i - 1] = x
    BY <1>2, <2>1
  <2> QED BY Zenon, <2>2 DEF Unread
<1>8. \A x \in Handled : x \in pending /\ x # r /\ ~Unread(x)
  BY Zenon, <1>3 DEF Handled
<1>9. Handled \subseteq Handled'
  BY Zenon, <1>1, <1>6, <1>8 DEF Handled, FlowOK
<1>10. work' = Idle => r \in Handled'
  BY Zenon, <1>3, <1>6 DEF Handled
<1>11. \A x \in Handled : x.id # r.id
  BY Zenon, <1>3, <1>8 DEF SideInv, PendingOK
<1>12. work'.cmd \in Commands => work' \in pending' /\ ~Unread(work)'
  <2>1. CASE work' = Idle
    BY Zenon, <2>1 DEF Idle, Commands, Controls
  <2>2. CASE work' = r
    BY Zenon, <2>2, <1>3, <1>5 DEF Unread
  <2> QED BY Zenon, <1>1, <2>1, <2>2
<1> QED BY Zenon, <1>1, <1>2, <1>5, <1>9, <1>10, <1>11, <1>12 DEF FlowOK

\* ... and when it finishes the one it had taken.
LEMMA OneDone ==
  ASSUME SideInv, FlowOK, work.cmd \in Commands, work' = Idle, UNCHANGED <<stdin, pending>>
  PROVE  /\ work \in Requests /\ Handled \subseteq Handled' /\ work \in Handled'
         /\ \A x \in Handled : x.id # work.id
         /\ Answers(Out', Handled') => FlowOK'
<1>1. PICK r : r = work
  BY Zenon
<1>2. r \in pending /\ ~Unread(r) /\ r \in Requests
  BY Zenon, <1>1 DEF FlowOK, SideInv, SideTypes
<1>3. \A x \in pending : x # Idle
  BY DEF SideInv, SideTypes, Requests, Commands, Controls, Idle
<1>4. Handled \subseteq Handled' /\ r \in Handled'
  BY Zenon, <1>2, <1>3 DEF Handled, Unread
<1>5. \A x \in Handled : x.id # r.id
  BY Zenon, <1>1, <1>2 DEF Handled, SideInv, PendingOK
<1>6. work'.cmd \notin Commands
  BY Zenon DEF Idle, Commands, Controls
<1> QED BY Zenon, <1>1, <1>2, <1>4, <1>5, <1>6 DEF FlowOK

\* What is left to say of a step that writes nothing.
LEMMA QuietKeeps ==
  ASSUME SideInv, UNCHANGED mainVars,
         LoopHead \/ LoopEnd \/ PollBegin \/ Exit \/ Die
  PROVE  SideInv'
<1>1. /\ life = "running" /\ life' \in {"running", "exited"}
      /\ UNCHANGED <<session, stopped, stdin, stdout, todo>>
      /\ work' = work \/ (work = Idle /\ work' = Poll)
      /\ work' = work \/ (session /\ todo = <<>>)
  BY Zenon DEF LoopHead, LoopEnd, PollBegin, Exit, Die, IsIdle
<1>2. Out' = Out /\ UNCHANGED <<child, pending, snapshot>>
  BY Zenon, <1>1 DEF Out, mainVars
<1>3. child = "up" => FlowOK'
  BY Zenon, <1>1, <1>2, NoneTaken DEF SideInv, FlowOK
<1>4. work' = Poll => session' /\ todo' = <<>>
  BY Zenon, <1>1 DEF SideInv, StageOK
<1>5. work'.cmd \notin {"connect", "reconnect"} => work.cmd \notin {"connect", "reconnect"}
  BY <1>1 DEF Idle
<1>6. /\ session' \in BOOLEAN /\ stopped' \in BOOLEAN /\ work' \in Requests \cup {Idle, Poll}
      /\ stdin' \in Seq(Requests) /\ stdout' \in Seq(Outputs) /\ todo' \in Seq(Outputs)
  BY Zenon, <1>1 DEF SideInv, SideTypes
<1>7. /\ child = "up" /\ ~terminating => FramesOK(Out', snapshot)
      /\ child = "up" /\ ~terminating /\ life' = "running" /\ work'.cmd \notin {"connect", "reconnect"}
           => \E s \in WindowStates :
                /\ ShowsAfter(Out', Len(Out'), snapshot, s)
                /\ session' => s = "connected"
                /\ ~stopped' /\ ~session' => s # "connected"
  BY Zenon, <1>1, <1>2, <1>5 DEF SideInv, ShownOK
<1> QED BY Zenon, <1>1, <1>3, <1>4, <1>6, <1>7, CtlFrame

\* Write moves a frame from the handler to the pipe.
LEMMA WriteKeeps ==
  ASSUME SideInv, UNCHANGED mainVars, Write
  PROVE  SideInv'
<1>1. /\ life = "running" /\ todo # <<>>
      /\ stdout' = Append(stdout, Head(todo)) /\ todo' = Tail(todo)
      /\ UNCHANGED <<life, session, stopped, work, stdin>>
  BY Zenon DEF Write
<1>2. stdout \in Seq(Outputs) /\ todo \in Seq(Outputs)
  BY Zenon DEF SideInv, SideTypes
<1>3. Out' = Out
  BY Zenon, <1>1, <1>2, WriteKeepsOut DEF Out
<1>4. UNCHANGED <<child, pending, snapshot>>
  BY Zenon DEF mainVars
<1>5. child = "up" => FlowOK'
  BY Zenon, <1>1, <1>3, <1>4, NoneTaken DEF SideInv, FlowOK
<1>6. work # Poll
  BY Zenon, <1>1 DEF SideInv, StageOK
<1>7. stdout' \in Seq(Outputs) /\ todo' \in Seq(Outputs)
  BY Zenon, <1>1, <1>2, HeadAndTail, Appending
<1>8. /\ session' \in BOOLEAN /\ stopped' \in BOOLEAN /\ work' \in Requests \cup {Idle, Poll}
      /\ stdin' \in Seq(Requests)
  BY Zenon, <1>1 DEF SideInv, SideTypes
<1>9. /\ child = "up" /\ ~terminating => FramesOK(Out', snapshot)
      /\ child = "up" /\ ~terminating /\ life' = "running" /\ work'.cmd \notin {"connect", "reconnect"}
           => \E s \in WindowStates :
                /\ ShowsAfter(Out', Len(Out'), snapshot, s)
                /\ session' => s = "connected"
                /\ ~stopped' /\ ~session' => s # "connected"
  BY Zenon, <1>1, <1>3 DEF SideInv, ShownOK
<1> QED BY Zenon, <1>1, <1>5, <1>6, <1>7, <1>8, <1>9, CtlFrame

\* The rest of the handler's frames is replaced by the protocol error.
LEMMA WriteOversizeKeeps ==
  ASSUME SideInv, UNCHANGED mainVars, WriteOversize
  PROVE  SideInv'
<1>1. /\ life = "running" /\ todo # <<>> /\ todo' = <<ProtocolError>>
      /\ session' = FALSE /\ stopped' = TRUE /\ UNCHANGED <<life, work, stdin, stdout>>
  BY Zenon DEF WriteOversize
<1>2. stdout \in Seq(Outputs) /\ todo \in Seq(Outputs)
  BY Zenon DEF SideInv, SideTypes
<1>3. PICK f : f = ProtocolError
  BY Zenon
<1>4. f \in Outputs /\ TellsOf(f, "error") /\ f.kind = "protocolError"
  BY Zenon, <1>3, FrameTypes
<1>5. Out' = Append(stdout, f) /\ todo' \in Seq(Outputs)
  BY <1>1, <1>2, <1>3, <1>4, Blocks DEF Out
<1>6. UNCHANGED <<child, pending, snapshot>>
  BY Zenon DEF mainVars
<1>7. child = "up" => FlowOK'
  <2> HAVE child = "up"
  <2>1. Handled' = Handled /\ (Answers(Out', Handled') => FlowOK')
    BY Zenon, <1>1, <1>6, NoneTaken DEF SideInv
  <2>2. Answers(stdout, Handled)
    BY Zenon, <1>2, AnswersPrefix DEF SideInv, FlowOK, Out
  <2>3. Answers(Append(stdout, f), Handled)
    BY Zenon, <1>2, <1>4, <2>2, AnswersAppend
  <2> QED BY Zenon, <1>5, <2>1, <2>3
<1>8. work # Poll
  BY Zenon, <1>1 DEF SideInv, StageOK
<1>9. /\ session' \in BOOLEAN /\ stopped' \in BOOLEAN /\ work' \in Requests \cup {Idle, Poll}
      /\ stdin' \in Seq(Requests) /\ stdout' \in Seq(Outputs)
  BY ZenonT(30), <1>1, <1>2 DEF SideInv, SideTypes
<1>10. child = "up" /\ ~terminating => Fits(Out', snapshot, "error")
  <2> HAVE child = "up" /\ ~terminating
  <2>1. FramesOK(stdout, snapshot)
    BY Zenon, <1>2, FramesPrefix DEF SideInv, ShownOK, Out
  <2> QED BY Zenon, <1>2, <1>4, <1>5, <2>1, FitsTold
<1>11. "error" \in WindowStates
  BY Zenon DEF WindowStates, States
<1> QED BY Zenon, <1>1, <1>5, <1>7, <1>8, <1>9, <1>10, <1>11, CtlFrame DEF Fits

\* Nothing is left to write when a handler begins.
LEMMA OutWhenIdle ==
  ASSUME SideInv, todo = <<>>
  PROVE  Out = stdout /\ Out \in Seq(Outputs)
BY SMTT(30), Blocks, ProtocolError \in Outputs DEF SideInv, SideTypes, Out, Outputs

\* HandleConnect takes a request and tells that it is connecting.
LEMMA HandleConnectKeeps ==
  ASSUME SideInv, UNCHANGED mainVars, HandleConnect
  PROVE  SideInv'
<1>1. /\ life = "running" /\ work = Idle /\ todo = <<>> /\ stdin # <<>>
      /\ Head(stdin).cmd \in {"connect", "reconnect"}
      /\ work' = Head(stdin) /\ stdin' = Tail(stdin) /\ todo' = <<Status("connecting")>>
      /\ UNCHANGED <<life, stopped, session, stdout>>
  BY Zenon DEF HandleConnect, CanHandle, IsIdle
<1>2. Out = stdout /\ Out \in Seq(Outputs) /\ UNCHANGED <<child, pending, snapshot>>
  BY Zenon, <1>1, OutWhenIdle DEF mainVars
<1>3. /\ todo' \in Seq(Outputs) /\ Out' = Append(Out, Status("connecting"))
      /\ \A w : FramesOK(Out, w) => Fits(Out', w, "connecting")
      /\ \A R : Answers(Out, R) => Answers(Out', R)
  BY ZenonT(30), <1>1, <1>2, ToldBlock DEF Out
<1>4. Head(stdin) \in Requests /\ stdin' \in Seq(Requests)
  BY Zenon, <1>1, HeadAndTail DEF SideInv, SideTypes
<1>5. child = "up" => FlowOK'
  <2> HAVE child = "up"
  <2>1. Handled \subseteq Handled' /\ (Answers(Out', Handled') => FlowOK')
    BY Zenon, <1>1, <1>2, OneTaken DEF SideInv
  <2>2. Answers(Out', Handled)
    BY Zenon, <1>3 DEF SideInv, FlowOK
  <2>3. Answers(Out', Handled')
    BY Zenon, <2>1, <2>2 DEF Answers
  <2> QED BY Zenon, <2>1, <2>3
<1>6. child = "up" /\ ~terminating => FramesOK(Out', snapshot)
  BY Zenon, <1>3 DEF SideInv, ShownOK, Fits
<1>7. work' # Poll
  BY <1>1 DEF Poll
<1>8. session' \in BOOLEAN /\ stopped' \in BOOLEAN /\ stdout' \in Seq(Outputs)
  BY Zenon, <1>1 DEF SideInv, SideTypes
<1> QED BY Zenon, <1>1, <1>3, <1>4, <1>5, <1>6, <1>7, <1>8, CtlFrame

\* A handler that only responds: reconnect without an endpoint, and shutdown.
LEMMA RespondKeeps ==
  ASSUME SideInv, UNCHANGED mainVars, HandleReconnectUnknown \/ HandleShutdown
  PROVE  SideInv'
<1>1. /\ life = "running" /\ work = Idle /\ todo = <<>> /\ stdin # <<>>
      /\ stdin' = Tail(stdin) /\ UNCHANGED <<life, work, stdout>>
      /\ \E ok \in BOOLEAN : todo' = <<Response(Head(stdin), ok)>>
      /\ UNCHANGED <<session, stopped>> \/ (session' = FALSE /\ stopped' = TRUE)
  BY Zenon DEF HandleReconnectUnknown, HandleShutdown, CanHandle, IsIdle
<1>2. Out = stdout /\ Out \in Seq(Outputs) /\ UNCHANGED <<child, pending, snapshot>>
  BY Zenon, <1>1, OutWhenIdle DEF mainVars
<1>3. Head(stdin) \in Requests /\ stdin' \in Seq(Requests)
  BY Zenon, <1>1, HeadAndTail DEF SideInv, SideTypes
<1>4. PICK f \in Outputs : todo' = <<f>> /\ f.kind = "response" /\ f.id = Head(stdin).id
  BY Zenon, <1>1, <1>3, FrameTypes
<1>5. todo' \in Seq(Outputs) /\ Out' = Append(Out, f)
  BY <1>1, <1>2, <1>4, Blocks DEF Out
<1>6. child = "up" => FlowOK'
  <2> HAVE child = "up"
  <2>1. /\ Handled \subseteq Handled' /\ Head(stdin) \in Handled'
        /\ \A x \in Handled : x.id # Head(stdin).id
        /\ Answers(Out', Handled') => FlowOK'
    BY Zenon, <1>1, <1>2, OneTaken DEF SideInv
  <2>2. Answers(Out, Handled)
    BY Zenon DEF SideInv, FlowOK
  <2>3. Answers(Append(Out, f), Handled')
    BY <1>2, <1>4, <2>1, <2>2, AnswersResponse
  <2> QED BY Zenon, <1>5, <2>1, <2>3
<1>7. ASSUME child = "up", ~terminating
      PROVE  \E s \in WindowStates : /\ Fits(Out', snapshot, s)
                                     /\ session' => s = "connected"
                                     /\ ~stopped' /\ ~session' => s # "connected"
  <2>1. work.cmd \notin {"connect", "reconnect"}
    BY Zenon, <1>1 DEF Idle
  <2>2. PICK s \in WindowStates : /\ Fits(Out, snapshot, s)
                                  /\ session => s = "connected"
                                  /\ ~stopped /\ ~session => s # "connected"
    BY Zenon, <1>1, <1>7, <2>1 DEF SideInv, ShownOK, Fits
  <2>3. Fits(Append(Out, f), snapshot, s)
    BY Zenon, <1>2, <1>4, <2>2, FitsResponse
  <2> QED BY <1>1, <1>5, <2>2, <2>3
<1>8. work' # Poll
  BY Zenon, <1>1 DEF Poll, Idle
<1>9. /\ session' \in BOOLEAN /\ stopped' \in BOOLEAN /\ work' \in Requests \cup {Idle, Poll}
      /\ stdout' \in Seq(Outputs)
  BY Zenon, <1>1 DEF SideInv, SideTypes
<1> QED BY Zenon, <1>1, <1>3, <1>5, <1>6, <1>7, <1>8, <1>9, CtlFrame DEF Fits

\* HandleDisconnect ends the connection and responds.
LEMMA HandleDisconnectKeeps ==
  ASSUME SideInv, UNCHANGED mainVars, HandleDisconnect
  PROVE  SideInv'
<1>1. /\ life = "running" /\ work = Idle /\ todo = <<>> /\ stdin # <<>>
      /\ stdin' = Tail(stdin) /\ session' = FALSE /\ UNCHANGED <<life, work, stopped, stdout>>
      /\ todo' = Ports(FALSE) \o <<Status("disconnected"), Response(Head(stdin), TRUE)>>
  BY Zenon DEF HandleDisconnect, CanHandle, IsIdle
<1>2. Out = stdout /\ Out \in Seq(Outputs) /\ UNCHANGED <<child, pending, snapshot>>
  BY Zenon, <1>1, OutWhenIdle DEF mainVars
<1>3. Head(stdin) \in Requests /\ stdin' \in Seq(Requests)
  BY Zenon, <1>1, HeadAndTail DEF SideInv, SideTypes
<1>4. PICK f \in Outputs : /\ f = Response(Head(stdin), TRUE)
                           /\ f.kind = "response" /\ f.id = Head(stdin).id
  BY Zenon, <1>3, FrameTypes
<1>5. PICK t \in Seq(Outputs) :
        /\ todo' \in Seq(Outputs) /\ Out' = Append(t, f)
        /\ \A w : FramesOK(Out, w) => Fits(t, w, "disconnected")
        /\ \A R : Answers(Out, R) => Answers(t, R)
  <2>1. PICK t \in Seq(Outputs) :
          /\ \A g \in Outputs :
               /\ Ports(FALSE) \o <<Status("disconnected"), g>> \in Seq(Outputs)
               /\ Out \o (Ports(FALSE) \o <<Status("disconnected"), g>>) = Append(t, g)
          /\ \A w : FramesOK(Out, w) => Fits(t, w, "disconnected")
          /\ \A R : Answers(Out, R) => Answers(t, R)
    BY Zenon, <1>2, EndedBlock
  <2>2. todo' \in Seq(Outputs) /\ Out \o todo' = Append(t, f)
    BY Zenon, <1>1, <1>4, <2>1
  <2>3. Out' = Append(t, f)
    BY Zenon, <1>1, <1>2, <2>2 DEF Out
  <2> QED BY Zenon, <2>1, <2>2, <2>3
<1>6. child = "up" => FlowOK'
  <2> HAVE child = "up"
  <2>1. /\ Handled \subseteq Handled' /\ Head(stdin) \in Handled'
        /\ \A x \in Handled : x.id # Head(stdin).id
        /\ Answers(Out', Handled') => FlowOK'
    BY Zenon, <1>1, <1>2, OneTaken DEF SideInv
  <2>2. Answers(t, Handled)
    BY Zenon, <1>5 DEF SideInv, FlowOK
  <2>3. Answers(Append(t, f), Handled')
    <3>1. t \in Seq(Outputs) /\ f \in Outputs
      BY ZenonT(30), <1>4, <1>5
    <3>2. f.id = Head(stdin).id
      BY ZenonT(30), <1>4
    <3> QED BY SMTT(30), <3>1, <3>2, <2>1, <2>2, AnswersResponse
  <2> QED BY Zenon, <1>5, <2>1, <2>3
<1>7. child = "up" /\ ~terminating => Fits(Out', snapshot, "disconnected")
  BY Zenon, <1>4, <1>5, FitsResponse DEF SideInv, ShownOK
<1>8. work' # Poll /\ "disconnected" \in WindowStates
  BY Zenon, <1>1 DEF Poll, Idle, WindowStates, States
<1>9. /\ session' \in BOOLEAN /\ stopped' \in BOOLEAN /\ work' \in Requests \cup {Idle, Poll}
      /\ stdout' \in Seq(Outputs)
  BY ZenonT(30), <1>1 DEF SideInv, SideTypes
<1> QED BY Zenon, <1>1, <1>3, <1>5, <1>6, <1>7, <1>8, <1>9, CtlFrame DEF Fits

\* ConnectFails ends the connection and responds to the request in hand.
LEMMA ConnectFailsKeeps ==
  ASSUME SideInv, UNCHANGED mainVars, ConnectFails
  PROVE  SideInv'
<1>1. /\ life = "running" /\ work.cmd \in {"connect", "reconnect"} /\ todo = <<>>
      /\ work' = Idle /\ session' = FALSE /\ UNCHANGED <<life, stdin, stopped, stdout>>
      /\ todo' = Ports(FALSE) \o <<Status("error"), Response(work, FALSE)>>
  BY Zenon DEF ConnectFails
<1>2. Out = stdout /\ Out \in Seq(Outputs) /\ UNCHANGED <<child, pending, snapshot>>
  BY Zenon, <1>1, OutWhenIdle DEF mainVars
<1>3. work \in Requests /\ work.cmd \in Commands
  BY SMTT(30), <1>1 DEF SideInv, SideTypes, Idle, Poll, Commands, Controls
<1>4. PICK f \in Outputs : /\ f = Response(work, FALSE)
                           /\ f.kind = "response" /\ f.id = work.id
  BY Zenon, <1>3, FrameTypes
<1>5. PICK t \in Seq(Outputs) :
        /\ todo' \in Seq(Outputs) /\ Out' = Append(t, f)
        /\ \A w : FramesOK(Out, w) => Fits(t, w, "error")
        /\ \A R : Answers(Out, R) => Answers(t, R)
  <2>1. PICK t \in Seq(Outputs) :
          /\ \A g \in Outputs :
               /\ Ports(FALSE) \o <<Status("error"), g>> \in Seq(Outputs)
               /\ Out \o (Ports(FALSE) \o <<Status("error"), g>>) = Append(t, g)
          /\ \A w : FramesOK(Out, w) => Fits(t, w, "error")
          /\ \A R : Answers(Out, R) => Answers(t, R)
    BY Zenon, <1>2, EndedBlock
  <2>2. todo' \in Seq(Outputs) /\ Out \o todo' = Append(t, f)
    BY Zenon, <1>1, <1>4, <2>1
  <2>3. Out' = Append(t, f)
    BY ZenonT(30), <1>1, <1>2, <2>2 DEF Out
  <2> QED BY Zenon, <2>1, <2>2, <2>3
<1>6. child = "up" => FlowOK'
  <2> HAVE child = "up"
  <2>1. /\ Handled \subseteq Handled' /\ work \in Handled'
        /\ \A x \in Handled : x.id # work.id
        /\ Answers(Out', Handled') => FlowOK'
    BY Zenon, <1>1, <1>2, <1>3, OneDone DEF SideInv
  <2>2. Answers(t, Handled)
    BY Zenon, <1>5 DEF SideInv, FlowOK
  <2>3. Answers(Append(t, f), Handled')
    <3>1. t \in Seq(Outputs) /\ f \in Outputs
      BY ZenonT(30), <1>4, <1>5
    <3>2. f.id = work.id
      BY ZenonT(30), <1>4
    <3> QED BY SMTT(30), <3>1, <3>2, <2>1, <2>2, AnswersResponse
  <2> QED BY Zenon, <1>5, <2>1, <2>3
<1>7. child = "up" /\ ~terminating => Fits(Out', snapshot, "error")
  BY Zenon, <1>4, <1>5, FitsResponse DEF SideInv, ShownOK
<1>8. work' # Poll /\ "error" \in WindowStates
  BY Zenon, <1>1 DEF Poll, Idle, WindowStates, States
<1>9. /\ session' \in BOOLEAN /\ stopped' \in BOOLEAN /\ work' \in Requests \cup {Idle, Poll}
      /\ stdin' \in Seq(Requests) /\ stdout' \in Seq(Outputs)
  BY Zenon, <1>1 DEF SideInv, SideTypes
<1> QED BY Zenon, <1>1, <1>5, <1>6, <1>7, <1>8, <1>9, CtlFrame DEF Fits

\* Connected tells the connection, shows its ports and responds.
LEMMA ConnectedKeeps ==
  ASSUME SideInv, UNCHANGED mainVars, Connected
  PROVE  SideInv'
<1>1. /\ life = "running" /\ work.cmd \in {"connect", "reconnect"} /\ todo = <<>>
      /\ work' = Idle /\ session' = TRUE /\ UNCHANGED <<life, stdin, stopped, stdout>>
      /\ todo' = <<Status("connected")>> \o Ports(TRUE) \o <<Response(work, TRUE)>>
  BY Zenon DEF Connected
<1>2. Out = stdout /\ Out \in Seq(Outputs) /\ UNCHANGED <<child, pending, snapshot>>
  BY Zenon, <1>1, OutWhenIdle DEF mainVars
<1>3. work \in Requests /\ work.cmd \in Commands
  BY SMTT(30), <1>1 DEF SideInv, SideTypes, Idle, Poll, Commands, Controls
<1>4. PICK f \in Outputs : /\ f = Response(work, TRUE)
                           /\ f.kind = "response" /\ f.id = work.id
  BY Zenon, <1>3, FrameTypes
<1>5. PICK t \in Seq(Outputs) :
        /\ todo' \in Seq(Outputs) /\ Out' = Append(t, f)
        /\ \A w : FramesOK(Out, w) => Fits(t, w, "connected")
        /\ \A R : Answers(Out, R) => Answers(t, R)
  <2>1. PICK t \in Seq(Outputs) :
          /\ \A g \in Outputs :
               /\ (<<Status("connected")>> \o Ports(TRUE)) \o <<g>> \in Seq(Outputs)
               /\ Out \o ((<<Status("connected")>> \o Ports(TRUE)) \o <<g>>) = Append(t, g)
          /\ \A w : FramesOK(Out, w) => Fits(t, w, "connected")
          /\ \A R : Answers(Out, R) => Answers(t, R)
    BY Zenon, <1>2, ConnectedBlock
  <2>2. todo' \in Seq(Outputs) /\ Out \o todo' = Append(t, f)
    BY Zenon, <1>1, <1>4, <2>1
  <2>3. Out' = Append(t, f)
    BY ZenonT(30), <1>1, <1>2, <2>2 DEF Out
  <2> QED BY Zenon, <2>1, <2>2, <2>3
<1>8. child = "up" => FlowOK'
  <2> HAVE child = "up"
  <2>1. /\ Handled \subseteq Handled' /\ work \in Handled'
        /\ \A x \in Handled : x.id # work.id
        /\ Answers(Out', Handled') => FlowOK'
    BY Zenon, <1>1, <1>2, <1>3, OneDone DEF SideInv
  <2>2. Answers(t, Handled)
    BY Zenon, <1>5 DEF SideInv, FlowOK
  <2>3. Answers(Append(t, f), Handled')
    <3>1. t \in Seq(Outputs) /\ f \in Outputs
      BY Zenon, <1>4, <1>5
    <3>2. f.id = work.id
      BY ZenonT(30), <1>4
    <3> QED BY <3>1, <3>2, <2>1, <2>2, AnswersResponse
  <2> QED BY Zenon, <1>5, <2>1, <2>3
<1>9. child = "up" /\ ~terminating => Fits(Out', snapshot, "connected")
  BY Zenon, <1>4, <1>5, FitsResponse DEF SideInv, ShownOK
<1>10. work' # Poll /\ "connected" \in WindowStates
  BY Zenon, <1>1 DEF Poll, Idle, WindowStates, States
<1>11. /\ session' \in BOOLEAN /\ stopped' \in BOOLEAN /\ work' \in Requests \cup {Idle, Poll}
       /\ stdin' \in Seq(Requests) /\ stdout' \in Seq(Outputs)
  BY Zenon, <1>1 DEF SideInv, SideTypes
<1> QED BY Zenon, <1>1, <1>5, <1>8, <1>9, <1>10, <1>11, CtlFrame DEF Fits

\* PollDone shows the ports again, which the connection that the window shows allows.
LEMMA PollDoneKeeps ==
  ASSUME SideInv, UNCHANGED mainVars, PollDone
  PROVE  SideInv'
<1>1. /\ life = "running" /\ work = Poll /\ work' = Idle /\ todo' = Ports(TRUE)
      /\ UNCHANGED <<life, stdin, stopped, session, stdout>>
  BY Zenon DEF PollDone
<1>2. session /\ todo = <<>>
  BY Zenon, <1>1 DEF SideInv, StageOK
<1>3. Out = stdout /\ Out \in Seq(Outputs) /\ UNCHANGED <<child, pending, snapshot>>
  BY Zenon, <1>2, OutWhenIdle DEF mainVars
<1>4. PICK t \in Seq(Outputs) :
        /\ Ports(TRUE) \in Seq(Outputs) /\ Out \o Ports(TRUE) = t
        /\ \A w : FramesOK(Out, w) /\ ShowsAfter(Out, Len(Out), w, "connected") =>
             FramesOK(t, w) /\ \A s : ShowsAfter(Out, Len(Out), w, s) => ShowsAfter(t, Len(t), w, s)
        /\ \A R : Answers(Out, R) => Answers(t, R)
  BY Zenon, <1>3, PortsBlock, TRUE \in BOOLEAN
<1>5. todo' \in Seq(Outputs) /\ Out' = t
  BY ZenonT(30), <1>1, <1>3, <1>4 DEF Out
<1>6. child = "up" => FlowOK'
  <2> HAVE child = "up"
  <2>1. Handled' = Handled /\ (Answers(Out', Handled') => FlowOK')
    BY Zenon, <1>1, <1>3, NoneTaken DEF SideInv
  <2>2. Answers(t, Handled)
    BY Zenon, <1>4 DEF SideInv, FlowOK
  <2> QED BY Zenon, <1>5, <2>1, <2>2
<1>7. child = "up" /\ ~terminating => Fits(Out', snapshot, "connected")
  <2> HAVE child = "up" /\ ~terminating
  <2>1. work.cmd \notin {"connect", "reconnect"}
    BY Zenon, <1>1 DEF Poll
  <2>2. FramesOK(Out, snapshot) /\ ShowsAfter(Out, Len(Out), snapshot, "connected")
    BY Zenon, <1>1, <1>2, <2>1 DEF SideInv, ShownOK
  <2> QED BY Zenon, <1>4, <1>5, <2>2 DEF Fits
<1>8. work' # Poll /\ "connected" \in WindowStates
  BY Zenon, <1>1 DEF Poll, Idle, WindowStates, States
<1>9. /\ session' \in BOOLEAN /\ stopped' \in BOOLEAN /\ work' \in Requests \cup {Idle, Poll}
      /\ stdin' \in Seq(Requests) /\ stdout' \in Seq(Outputs) /\ session'
  BY Zenon, <1>1, <1>2 DEF SideInv, SideTypes
<1> QED BY Zenon, <1>1, <1>5, <1>6, <1>7, <1>8, <1>9, CtlFrame DEF Fits

\* PollFails ends the connection without a response.
LEMMA PollFailsKeeps ==
  ASSUME SideInv, UNCHANGED mainVars, PollFails
  PROVE  SideInv'
<1>1. /\ life = "running" /\ work = Poll /\ work' = Idle /\ session' = FALSE
      /\ todo' = Ports(FALSE) \o <<Status("error")>> /\ UNCHANGED <<life, stdin, stopped, stdout>>
  BY Zenon DEF PollFails
<1>2. todo = <<>>
  BY Zenon, <1>1 DEF SideInv, StageOK
<1>3. Out = stdout /\ Out \in Seq(Outputs) /\ UNCHANGED <<child, pending, snapshot>>
  BY Zenon, <1>2, OutWhenIdle DEF mainVars
<1>4. PICK t \in Seq(Outputs) :
        /\ Ports(FALSE) \o <<Status("error")>> \in Seq(Outputs)
        /\ Out \o (Ports(FALSE) \o <<Status("error")>>) = t
        /\ \A w : FramesOK(Out, w) => Fits(t, w, "error")
        /\ \A R : Answers(Out, R) => Answers(t, R)
  BY Zenon, <1>3, EndedBlock
<1>5. todo' \in Seq(Outputs) /\ Out' = t
  BY ZenonT(30), <1>1, <1>3, <1>4 DEF Out
<1>6. child = "up" => FlowOK'
  <2> HAVE child = "up"
  <2>1. Handled' = Handled /\ (Answers(Out', Handled') => FlowOK')
    BY Zenon, <1>1, <1>3, NoneTaken DEF SideInv
  <2>2. Answers(t, Handled)
    BY Zenon, <1>4 DEF SideInv, FlowOK
  <2> QED BY Zenon, <1>5, <2>1, <2>2
<1>7. child = "up" /\ ~terminating => Fits(Out', snapshot, "error")
  BY Zenon, <1>4, <1>5 DEF SideInv, ShownOK
<1>8. work' # Poll /\ "error" \in WindowStates
  BY Zenon, <1>1 DEF Poll, Idle, WindowStates, States
<1>9. /\ session' \in BOOLEAN /\ stopped' \in BOOLEAN /\ work' \in Requests \cup {Idle, Poll}
      /\ stdin' \in Seq(Requests) /\ stdout' \in Seq(Outputs)
  BY Zenon, <1>1 DEF SideInv, SideTypes
<1> QED BY Zenon, <1>1, <1>5, <1>6, <1>7, <1>8, <1>9, CtlFrame DEF Fits

-----------------------------------------------------------------------------
(* The theorems                                                            *)

\* The application starts with nothing under way.
LEMMA InitSideInv ==
  ASSUME Init
  PROVE  SideInv
<1>1. SideTypes
  <2>1. snapshot \in Windows
    BY Zenon DEF Init, Windows, WindowStates
  <2>2. nextId \in Nat \ {0} /\ nextId <= MaxIds
    BY ControllerAssumption DEF Init
  <2>3. stdin \in Seq(Requests) /\ stdout \in Seq(Outputs) /\ todo \in Seq(Outputs)
    BY SMTT(30) DEF Init, CtlInit
  <2> QED BY ZenonT(30), <2>1, <2>2, <2>3 DEF Init, CtlInit, SideTypes
<1>2. StageOK /\ PendingOK
  BY Zenon DEF Init, CtlInit, StageOK, PendingOK, terminating, Idle, Poll
<1>3. ShownOK
  BY Zenon DEF Init, CtlInit, ShownOK, WindowOK, terminating
<1> QED BY Zenon, <1>1, <1>2, <1>3 DEF SideInv, Init

\* Requests, frames and the window stay in step through every callback and timer of the
\* main process and every step, crash or kill of the controller, for any number of
\* requests and any size of the pipe.
THEOREM SidecarInvariant == Spec => []SideInv
<1>1. Init => SideInv
  BY Zenon, InitSideInv
<1>2. SideInv /\ [Next]_vars => SideInv'
  <2> SUFFICES ASSUME SideInv, [Next]_vars PROVE SideInv'
    BY Zenon
  <2>1. CASE Start \/ StartThrows
    BY Zenon, <2>1, StartKeeps, StartThrowsKeeps
  <2>2. CASE \E cmd \in Controls : Command(cmd)
    BY Zenon, <2>2, CommandKeeps
  <2>3. CASE StopBegin \/ OnStdout
    BY Zenon, <2>3, StopBeginKeeps, OnStdoutKeeps
  <2>4. CASE WriteFails \/ Deadline
    BY Zenon, <2>4, FailKeeps
  <2>5. CASE TermGrace \/ StopGrace
    BY Zenon, <2>5, GraceKeeps
  <2>6. CASE OnClose \/ KillGrace
    BY Zenon, <2>6, SettleKeeps
  <2>7. CASE CtlAlone
    BY Zenon, <2>7, QuietKeeps, WriteKeeps, WriteOversizeKeeps, HandleConnectKeeps, RespondKeeps,
       HandleDisconnectKeeps, ConnectedKeeps, ConnectFailsKeeps, PollDoneKeeps, PollFailsKeeps
       DEF CtlAlone, CtlStep
  <2>8. CASE UNCHANGED vars
    <3>1. SideTypes' /\ StageOK'
      BY SMTT(30), <2>8 DEF SideInv, SideTypes, StageOK, vars, ctlVars, mainVars, terminating
    <3>2. PendingOK'
      BY Zenon, <2>8 DEF SideInv, PendingOK, vars, mainVars
    <3>3. child' = "up" => FlowOK'
      BY Zenon, <2>8, FlowStays DEF SideInv, vars, ctlVars, mainVars
    <3>4. ShownOK'
      BY Zenon, <2>8 DEF SideInv, ShownOK, vars, ctlVars, mainVars, terminating, stopping, Out
    <3> QED BY Zenon, <3>1, <3>2, <3>3, <3>4 DEF SideInv
  <2> QED BY Zenon, <2>1, <2>2, <2>3, <2>4, <2>5, <2>6, <2>7, <2>8 DEF Next
<1> QED BY <1>1, <1>2, PTL DEF Spec

\* Every response meets its request, and one control and one shutdown request at most are
\* pending, in the pipe or in the hands of the controller (sidecar.ts: onResponse,
\* command; main.cpp: the handlers).
THEOREM ResponsesMeetRequests == Spec => []NoUnknownResponse
<1>1. SideInv => NoUnknownResponse
  <2> SUFFICES ASSUME SideInv PROVE NoUnknownResponse
    BY Zenon
  <2>1. stdout # <<>> /\ ~terminating /\ child = "up" /\ Head(stdout).kind = "response"
          => \E r \in pending : r.id = Head(stdout).id
    <3> HAVE stdout # <<>> /\ ~terminating /\ child = "up" /\ Head(stdout).kind = "response"
    <3>1. Out \in Seq(Outputs) /\ Out # <<>> /\ Head(Out) = Head(stdout)
      BY ReadTakesHead DEF SideInv, SideTypes, Out
    <3>2. Len(Out) \in Nat \ {0} /\ Out[1] = Head(stdout)
      BY Zenon, <3>1, HeadAndTail
    <3>3. \E r \in Handled : r.id = Out[1].id
      BY SMTT(30), <3>2 DEF SideInv, FlowOK, Answers
    <3> QED BY Zenon, <3>2, <3>3 DEF Handled
  <2>2. ASSUME NEW cmds \in {Controls, {"shutdown"}}
        PROVE  /\ \A r, q \in pending : r.cmd \in cmds /\ q.cmd \in cmds => r = q
               /\ child = "up" => \A i \in DOMAIN stdin : stdin[i].cmd \in cmds =>
                    /\ work.cmd \notin cmds
                    /\ \A j \in DOMAIN stdin : stdin[j].cmd \in cmds => i = j
    <3>1. \A r, q \in pending : r.cmd \in cmds /\ q.cmd \in cmds => r = q
      BY SMTT(30), <2>2 DEF SideInv, PendingOK, SameSort
    <3>2. ASSUME child = "up", NEW i \in DOMAIN stdin, stdin[i].cmd \in cmds
          PROVE  /\ work.cmd \notin cmds
                 /\ \A j \in DOMAIN stdin : stdin[j].cmd \in cmds => i = j
      <4>1. DOMAIN stdin = 1..Len(stdin)
        BY SMTT(30) DEF SideInv, SideTypes
      <4>2. \A j \in DOMAIN stdin : stdin[j].cmd \in cmds => i = j
        BY Zenon, <3>1, <3>2, <4>1 DEF SideInv, FlowOK
      <4>3. work.cmd \notin cmds
        <5>1. cmds \subseteq Commands
          BY Zenon, <2>2 DEF Commands
        <5> QED BY Zenon, <3>1, <3>2, <4>1, <5>1 DEF SideInv, FlowOK, Unread
      <4> QED BY Zenon, <4>2, <4>3
    <3> QED BY Zenon, <3>1, <3>2
  <2> QED BY Zenon, <2>1, <2>2 DEF NoUnknownResponse
<1> QED BY <1>1, SidecarInvariant, PTL

\* The window shows what the controller's session is, never ports without a connection,
\* and an error once the child is lost (snapshot.ts: controllerEvent; main.cpp: ports,
\* finishConnection, pollStats).
THEOREM WindowTellsTheTruth == Spec => []WindowIsTrue
<1>1. SideInv => WindowIsTrue
  <2> SUFFICES ASSUME SideInv PROVE WindowIsTrue
    BY Zenon
  <2>1. snapshot.state \in {"disconnected", "error"} => ~snapshot.ports /\ ~snapshot.stats
    BY Zenon DEF SideInv, ShownOK, WindowOK
  <2>2. (terminating \/ child = "gone") /\ ~stopping => snapshot.state = "error"
    BY Zenon DEF SideInv, ShownOK
  <2>3. ASSUME IsIdle, ~stopped, stdout = <<>>, ~terminating
        PROVE  (snapshot.state = "connected") = session
    <3>1. life = "running" /\ work = Idle /\ todo = <<>>
      BY Zenon, <2>3 DEF IsIdle
    <3>2. child = "up" /\ work.cmd \notin {"connect", "reconnect"}
      BY Zenon, <2>3, <3>1 DEF SideInv, SideTypes, StageOK, Idle
    <3>3. Out = <<>> /\ Len(Out) = 0
      BY <2>3, <3>1 DEF Out
    <3>4. PICK s \in WindowStates : /\ ShowsAfter(Out, Len(Out), snapshot, s)
                                    /\ session => s = "connected"
                                    /\ ~stopped /\ ~session => s # "connected"
      BY Zenon, <2>3, <3>1, <3>2 DEF SideInv, ShownOK
    <3>5. snapshot.state = s
      BY <3>3, <3>4 DEF ShowsAfter
    <3>6. (snapshot.state = "connected") <=> session
      BY Zenon, <2>3, <3>4, <3>5
    <3> QED BY Zenon, <3>6 DEF SideInv, SideTypes
  <2> QED BY Zenon, <2>1, <2>2, <2>3 DEF WindowIsTrue
<1> QED BY <1>1, SidecarInvariant, PTL

=============================================================================
