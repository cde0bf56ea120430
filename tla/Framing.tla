------------------------------- MODULE Framing -------------------------------
(* Frames on a byte stream, which a read may cut anywhere.  Three decoders gather     *)
(* what is read: the server's of the RPC protocol (rpc/pbrpc_core.cpp), the           *)
(* controller's of its standard input (controller/stdio_protocol.cpp) and the one of  *)
(* its standard output in the desktop application (desktop/electron/framing.ts).  A   *)
(* decoder that meets a header it cannot accept is not used again.                    *)
EXTENDS Bytes

CONSTANTS MaxPayload,      \* options_.maxPayload of the RPC server
          MaxFrameSize,    \* kMaxFrameSize, MAX_FRAME_SIZE
          Written,         \* channel -> the sequences of frames that are written to it
          BadHeaders       \* channel -> the malformed headers that may follow

VARIABLES channel,   \* which of the three
          written,   \* the frames that were to be written
          wire,      \* the bytes of those that were, and of a malformed header
          read,      \* how many of them have been read
          before,    \* how many had been before the last read
          decoder,   \* buffer_; failed_
          taken      \* the frames the reader has been given

framingVars == <<channel, written, wire, read, before, decoder, taken>>

Channels == {"rpc", "stdin", "stdout"}

---------------------------------------------------------------------------
(* Writing *)
kHeaderSize == 8
encodeHeader(type, method, length) == BE(type, 2) \o BE(method, 2) \o BE(length, 4)

\* A request of any length; it is the server that has a limit.
encodeFrame(f) == encodeHeader(f.type, f.method, Len(f.payload)) \o f.payload

StdioFrame(f) == BE(Len(f.payload) + 1, 4) \o <<f.type>> \o f.payload

\* The controller: a frame that is too long is not written, and send() says so.
encodeStdioFrame(f) == IF Len(f.payload) > MaxFrameSize - 1 THEN <<>> ELSE StdioFrame(f)

\* main: the exception fails the request.
encodeJsonFrame(f) == IF Len(f.payload) + 1 > MaxFrameSize THEN <<>> ELSE StdioFrame(f)

Encoded(ch, f) ==
  CASE ch = "rpc" -> encodeFrame(f)
    [] ch = "stdin" -> encodeJsonFrame(f)
    [] ch = "stdout" -> encodeStdioFrame(f)

---------------------------------------------------------------------------
(* Decoding: what is buffered, from offset consumed on *)
Unread(buffer, consumed) == SubSeq(buffer, consumed + 1, Len(buffer))

isValidMessageType(type) == type \in 1..5

decodeHeader(b) ==
  [type |-> ToInt(SubSeq(b, 1, 2)), method |-> ToInt(SubSeq(b, 3, 4)), length |-> ToInt(SubSeq(b, 5, 8))]

\* FrameParser::parse: what was consumed is erased, also before a header that fails.
RECURSIVE parse(_, _)
parse(buffer, frames) ==
  LET header == decodeHeader(buffer)
      frameSize == kHeaderSize + header.length
  IN  IF Len(buffer) < kHeaderSize THEN [buffer |-> buffer, frames |-> frames, failed |-> FALSE]
      ELSE IF ~isValidMessageType(header.type) \/ header.length > MaxPayload
      THEN [buffer |-> buffer, frames |-> frames, failed |-> TRUE]
      ELSE IF Len(buffer) < frameSize THEN [buffer |-> buffer, frames |-> frames, failed |-> FALSE]
      ELSE parse(Unread(buffer, frameSize),
                 Append(frames, [type |-> header.type, method |-> header.method,
                                 payload |-> SubSeq(buffer, kHeaderSize + 1, frameSize)]))

\* The loop of feed() and push(): the offset it ends at, and how it ends.
RECURSIVE StdioLoop(_, _, _)
StdioLoop(buffer, consumed, frames) ==
  LET rest == Unread(buffer, consumed)
      frameSize == ToInt(SubSeq(rest, 1, 4))
      ended(bad) == [consumed |-> consumed, frames |-> frames, bad |-> bad]
  IN  IF Len(rest) < 4 THEN ended(FALSE)
      ELSE IF frameSize < 1 \/ frameSize > MaxFrameSize THEN ended(TRUE)
      ELSE IF Len(rest) - 4 < frameSize THEN ended(FALSE)
      ELSE StdioLoop(buffer, consumed + 4 + frameSize,
                     Append(frames, [type |-> rest[5], method |-> 0,
                                     payload |-> SubSeq(rest, 6, 4 + frameSize)]))

\* One frame of a read.
StdioOnce(buffer, consumed, frames) ==
  LET size == ToInt(SubSeq(buffer, 1, 4))
  IN  IF Len(buffer) < 4 \/ Len(buffer) - 4 < size
      THEN [consumed |-> 0, frames |-> <<>>, bad |-> FALSE]
      ELSE [consumed |-> 4 + size, bad |-> FALSE,
            frames |-> <<[type |-> buffer[5], method |-> 0, payload |-> SubSeq(buffer, 6, 4 + size)]>>]
feedOnce(buffer) ==
  LET loop == StdioOnce(buffer, 0, <<>>)
  IN  [buffer |-> Unread(buffer, loop.consumed), frames |-> loop.frames, failed |-> loop.bad]

\* FrameDecoder::feed: nothing is erased when it fails in the loop.
feed(buffer) ==
  LET loop == StdioLoop(buffer, 0, <<>>)
      kept == Unread(buffer, loop.consumed)
  IN  IF loop.bad THEN [buffer |-> buffer, frames |-> loop.frames, failed |-> TRUE]
      ELSE [buffer |-> kept, frames |-> loop.frames, failed |-> Len(kept) > MaxFrameSize + 4]

\* FrameDecoder.push: the frames before the exception are lost with it.
push(buffer) ==
  LET loop == StdioLoop(buffer, 0, <<>>)
      kept == Unread(buffer, loop.consumed)
      failed == loop.bad \/ Len(kept) > MaxFrameSize + 4
  IN  [buffer |-> IF loop.bad THEN buffer ELSE kept,
       frames |-> IF failed THEN <<>> ELSE loop.frames, failed |-> failed]

---------------------------------------------------------------------------
OnWire(ch, fs) == FoldOver(LAMBDA b, f : b \o Encoded(ch, f), <<>>, fs)

FramingInit ==
  /\ channel \in Channels
  /\ written \in Written[channel]
  /\ \E bad \in BadHeaders[channel] : wire = OnWire(channel, written) \o bad
  /\ read = 0 /\ before = 0 /\ taken = <<>>
  /\ decoder = [buffer |-> <<>>, failed |-> FALSE]

\* Bytes are read; the reader handles the frames unless the decoder has failed: then
\* Connection::run() closes, the controller says protocolError and ends, and main
\* terminates the child.
Take(decoded) ==
  \E d \in {decoded} :
    /\ decoder' = [buffer |-> d.buffer, failed |-> d.failed]
    /\ taken' = IF d.failed THEN taken ELSE taken \o d.frames

Reads(n) == read' = read + n /\ before' = read /\ UNCHANGED <<channel, written, wire>>
Gathered(n) == decoder.buffer \o SubSeq(wire, read + 1, read + n)

\* Connection::run
run(n) == channel = "rpc" /\ Reads(n) /\ Take(parse(Gathered(n), <<>>))
\* main() of the controller
main(n) == channel = "stdin" /\ Reads(n) /\ Take(feed(Gathered(n)))
\* Sidecar.onStdout
onStdout(n) == channel = "stdout" /\ Reads(n) /\ Take(push(Gathered(n)))

FramingNext ==
  /\ ~decoder.failed
  /\ \E n \in 1..(Len(wire) - read) : run(n) \/ main(n) \/ onStdout(n)

---------------------------------------------------------------------------
(* The reference: what was written, frame by frame. *)
Acceptable(f) == channel = "rpc" => Len(f.payload) <= MaxPayload
Sent == SelectSeq(written, LAMBDA f : Encoded(channel, f) # <<>>)
GoodRuns == {k \in 0..Len(Sent) : \A i \in 1..k : Acceptable(Sent[i])}
End(k) == Len(OnWire(channel, SubSeq(Sent, 1, k)))
WholeIn(n) == CHOOSE k \in GoodRuns : End(k) <= n /\ \A j \in GoodRuns : End(j) <= n => j <= k
Header == IF channel = "rpc" THEN kHeaderSize ELSE 4
LastGood == CHOOSE k \in GoodRuns : \A j \in GoodRuns : j <= k

\* However the reads cut the stream, the reader gets the frames that were written, in
\* order and whole, each with the read that completes it, and nothing complete is kept
\* back.  A decoder fails with the first header that is too long or malformed, as soon
\* as that header is complete, and for no other reason: what an encoder lets out at the
\* limit the decoder accepts, and its own buffer never exceeds the maximum.  Frames that
\* were read together with the header that fails are not handled.
FramesAsSent ==
  LET refused == Len(wire) > End(LastGood) /\ read >= End(LastGood) + Header
      n == IF refused THEN before ELSE read
  IN  /\ decoder.failed = refused
      /\ taken = SubSeq(Sent, 1, WholeIn(n))
      /\ ~refused => decoder.buffer = SubSeq(wire, End(WholeIn(n)) + 1, read)
=============================================================================
